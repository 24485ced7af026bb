# A formal model of oSIP and eXosip

The repository holds two C libraries and a small application:

* `src/opensource/libosip2-4.0.0` - **oSIP**: a SIP parser (`osipparser2`) and the
  transaction layer of RFC 3261 (`osip2`): four state machines, their timers, the
  lists of transactions, dialogs;
* `src/opensource/libeXosip2-4.0.0` - **eXosip**: a user agent on top of oSIP: calls,
  registrations, subscriptions, transports, and a thread that drives it all;
* `src/framework` - a server that uses eXosip.

This directory models the parts of it whose correctness depends on the order of
events: threads that share a queue, timers that race with answers, messages that are
lost, copied and overtaken.  The build that is modelled is the default one: with
threads (no `OSIP_MONOTHREAD`), non-blocking sockets (no `USE_BLOCKINGSOCKET`), no
`MINISIZE`.

## 1. Inventory

### 1.1 Components

| Component | Source | State | Operations |
|---|---|---|---|
| fifo | `osip2/port_fifo.c`, `osipparser2/osip_list.c` | list, `state` flag, mutex, counting semaphore | init, add, insert, size, get, tryget, free |
| timers | `osip2/osip_time.c`, `osip_transaction.c` | a due time and a length per timer | start, double, stop, poll |
| INVITE client (ICT) | `ict.c`, `ict_fsm.c` | state, timers A B D, fifo | send INVITE, 1xx, 2xx, 3-6xx, three timeouts |
| INVITE server (IST) | `ist.c`, `ist_fsm.c` | state, timers G H I, fifo, last response | INVITE, three answers, ACK, three timeouts |
| non-INVITE client (NICT) | `nict.c`, `nict_fsm.c` | state, timers E F K, fifo | send, 1xx, final, three timeouts |
| non-INVITE server (NIST) | `nist.c`, `nist_fsm.c` | state, timer J, fifo, last response | request, two kinds of answers, timeout |
| lists of transactions | `osip.c`, `osip_transaction.c` | four lists, a lock each | add, remove, match, find, create, execute, poll timers, next timeout |
| 2xx/ACK retransmission | `osip.c` | `ixt_retransmissions` | start, stop, execute |
| dialogs | `osip_dialog.c`, `jdialog.c`, `jrequest.c`, `jresponse.c` | tags, CSeqs, target, route set | create, match, update, early to confirmed, build requests and answers |
| messages | `osip_message*.c`, `osip_body.c`, `osip_header.c`, one file per header | the headers, the bodies, the text written last | parse, set, write, clone |
| session descriptions | `sdp_message.c`, `sdp_accessor.c` | head, times, medias | parse, access, print, clone |
| eXosip loop | `eXconf.c`, `jpipe.c`, `jevents.c` | event fifo, wake-up pipe, lock | execute, wait event, push event |
| calls | `udp.c`, `jcallback.c`, `eXcall_api.c`, `jcall.c`, `jdialog.c` | calls, dialogs, their transactions | INVITE, answer, CANCEL, BYE, ACK, PRACK, retransmit 200, release |
| registrations | `eXregister_api.c`, `jreg.c`, `eXosip.c` | a registration, its last transaction, a retry counter | build, send, refresh, repeat, expire, release |
| publications | `eXpublish_api.c`, `jpublish.c` | entity tag, last transaction | publish, refresh, repeat |
| subscriptions | `eXsubscription_api.c`, `eXinsubscription_api.c`, `jsubscribe.c`, `jnotify.c` | subscription or notifier, dialogs, transactions | subscribe, answer, notify, refresh, release |
| authentication | `eXosip.c`, `jauth.c` | credentials, a table of nonces | store, find, answer a challenge, add unasked |
| transports | `eXtl_*.c` | sockets; for streams a table of connections, for DTLS one of associations | open, select, accept, read, send, check, close |
| own address | `eXosip.c`, `eXconf.c`, `jrequest.c`, `eXtl_*.c` | where eXosip says it is reached: own port, what a NAT shows, a table of accounts | listen, set a socket, masquerade, learn from answers, write and rewrite Contact |
| servers of a domain | `eXutils.c`, `eXtl_udp.c` | a record per domain: state, servers, index | look up, process, sort, rotate, expire |
| application | `framework/src` | one server | handle events |

### 1.2 How they interact

A message that arrives is parsed into an event; `osip_find_transaction_and_add_event`
puts it in the fifo of the transaction it belongs to, under the lock of the list.  A
request that belongs to none makes a server transaction.  The user (eXosip) makes
client transactions and queues answers in the fifos of server transactions.
`osip_timers_*_execute` turns a timer that is due into an event of the same fifo.
`osip_*_execute` takes every event out and calls the handler of (state, event), or
discards the event.  A handler sends through `cb_send_message`, which returns 0 (the
message left), a positive number (not yet: a name is being resolved, a connection
opened) or a negative one, and reports to the user through callbacks; the *kill*
callback is the last one of a transaction: the user takes it out of the list and
frees it later.

`eXosip_execute` is the loop: read the sockets, lock, poll the timers (ICT, NICT,
IST, NIST), drain the fifos (NIST, NICT, IST, ICT), free what was killed, unlock.
The application runs in a thread of its own: its calls
queue events for transactions and write a byte to the pipe `j_socketctl`, in which the
loop's `select` listens; reports go through the fifo `j_events` and the pipe
`j_socketctl_event`, from which `eXosip_event_wait` wakes up.
oSIP itself may also be driven by several threads (`help/doxygen/ht3-fsm.dox`).

### 1.3 What is hard, and what correct means

* **fifo** - the semaphore is taken outside the mutex, and the `state` flag repeats
  what the list says.  Correct: an element is handed out once, in order; nobody sleeps
  next to an element; a token always has an element.
* **transactions** - a timeout waits in the same fifo as messages and may be handled
  after them; the same timeout may be queued twice; the user may queue two final
  answers; a peer repeats everything; each send may fail.  Correct: one outcome per
  transaction is reported, exactly one kill; one final response leaves; nothing leaves
  after the exchange is over; every wait ends.
* **two ends** - loss, copies, delay.  Correct: both ends agree on the outcome; a late
  copy does not make a second call; a refused call ends at both ends.
* **main loop** - a byte and the event it announces are queued separately, pipes hold
  little, and each side looks at its fifo before it sleeps.  Correct: nobody sleeps next
  to an event, everything queued is handled, and the program can quit.
* **lists** - two clients may choose the same branch, a copy may leave out the port, an
  ACK and a CANCEL share the branch of their INVITE; the sleep is computed from the timers
  of four machines.  Correct: a message reaches the transaction of the client that sent
  it, nothing is late, and repetitions of a 2xx end.
* **calls** - the user's answer crosses a CANCEL or a BYE; an ACK is lost; a request is
  repeated with credentials; what is over is freed while transactions still point to it.
  Correct: nothing freed is used, each transaction has one owner, an established dialog
  ends with a BYE, and a call is not released under what still runs.
* **dialogs** - forks, proxies that record the route and may be strict, requests of both
  ends that overtake each other.  Correct: both ends agree, a request meets every router
  once, numbers grow.
* **registrations, publications, subscriptions** - the application, the automatic refresh
  and the repetition with credentials send for the same context; answers arrive late.
  Correct: refreshed before the contact expires, one request at a time, repetitions
  bounded, the tag kept is known to the server, nothing reached through a dialog that is
  gone.
* **authentication** - nonces are kept in a table by Call-ID, replaced and dropped.
  Correct: no count is used twice with a nonce, credentials are those of the realm.
* **connections** - a stream is cut anywhere, the table is full, a send of another thread
  closes or evicts.  Correct: every message is handed over whole and in order, and nothing
  passes before the peer's certificate was accepted, although the thread that reads does
  so without the lock.
* **DTLS associations** - all share one UDP socket; each side may begin one, and asking for
  one connects the socket.  Correct: one association for each peer, and what is written
  on it goes to that peer.
* **own address** - a NAT shows another address, which the application tells, answers tell,
  and each transport writes into the Contact whenever it sends.  Correct: what is sent
  names the address of its account that was told last.
* **servers of a domain** - one record serves several requests; lookups fail or expire.
  Correct: another server is tried, and no record waits for a lookup that is over.
* **messages** - the text written last is given again while nothing changed; headers are
  split at commas outside quotes; their values are escaped, quoted and compared.  Correct:
  the text is what the message says, and it is read as the same message, the same party
  and the same call.
* **the server** - it handles requests under the lock of eXosip.  Correct: it goes on
  answering, whatever it handled before.

`PROJECT.json` lists every hazard at its line with the properties that would show it.

## 2. Modules

| Module | Models | Remarks |
|---|---|---|
| `AbstractQueue` | what a fifo promises | abstract specification |
| `Fifo`, `MCFifo` | `port_fifo.c` | a step per semaphore, mutex and list operation; refines `AbstractQueue` |
| `FifoProof` | theorems about `Fifo` | |
| `OsipTimer` | timers | time left, in ticks of T1 |
| `OsipTransaction` | parameters the machines share | |
| `Ict`, `IctProof` | `ict.c`, `ict_fsm.c` | alone, any server and network |
| `Ist` | `ist.c`, `ist_fsm.c` | alone, any client and network |
| `Nict` | `nict.c`, `nict_fsm.c` | alone |
| `Nist` | `nist.c`, `nist_fsm.c` | alone |
| `Transaction`, `TransactionProof` | `osip_transaction.c` | a transaction of one of the four kinds, and theorems about all four |
| `InviteTransaction` | one `Ict`, the `Ist`s it meets, a network | composition |
| `NonInviteTransaction`, `MCEnds` | one `Nict`, the `Nist`s it meets, a network | composition; `MCEnds` has a call as well |
| `InviteProof`, `EndsProof` | theorems about `InviteTransaction` and `NonInviteTransaction` | |
| `TransactionList` | `osip.c`, matching in `osip_transaction.c` | a transaction is what identifies it, its state and its timers |
| `MainLoop` | `eXosip_execute`, `_eXosip_read_message`, `osip_*_execute`, `eXosip_event_wait`, the pipes, `eXosip_quit` | two threads; fifos are counted |
| `MainLoopProof` | theorems about `MainLoop` and `SipServer` | |
| `CallHeap` | `jcall.c`, `jdialog.c`, the lists of transactions of a call | objects and references; a use of a freed one is remembered |
| `Call` | `eXcall_api.c`, `udp.c`, `jcallback.c`, `eXosip.c` | one call on that heap |
| `Dialog`, `MCDialog` | `osip_dialog.c`, `jrequest.c`, `jresponse.c` | a caller, forks, a chain of proxies, a network |
| `Registration`, `Publication`, `Subscription`, `InSubscription` | the four services of eXosip | one context each, with its peer and clock |
| `ServicesProof` | theorems about `Registration`, `Publication`, `InSubscription` and `Auth` | |
| `Auth` | `jauth.c`, `_eXosip_store_nonce` and what uses it | hashes are tuples, an empty text is "none" |
| `Sdp` | `sdp_message.c`, `sdp_accessor.c` | a text is a sequence of lines |
| `SipServer` | `sip_server.c`, `sip_handle_request.c`, `sdp_handle_request.c` | the server and the stack's thread |
| `MCServices` | | composes the seven above it, one moving at a time |
| `Tcp`, `Tls` | `eXtl_tcp.c`, `eXtl_tls.c` | the table of connections, the kernel, the peers |
| `Dtls` | `eXtl_dtls.c` | the table of associations over one socket |
| `TransportsProof` | theorems about `Tls`, `Dtls`, `Dialog` and `TransactionList` | |
| `Reach` | `eXosip_listen_addr`, `eXosip_set_socket`, `eXosip_masquerade_contact`, `udp_tl_learn_port_from_via`, the Contacts of `jrequest.c` and of each transport, the cache of names | a request is its Contact |
| `Servers` | `eXutils.c`, `udp_tl_send_message` | one domain, requests with timer E, and one of the three resolvers: c-ares, of Windows, of the system |
| `Tokens` | helpers of the parsers in `osip_port.c`, `osip_from.c`, `osip_uri.c` | a text is a sequence of tokens |
| `Message` | `osip_message_parse.c`, `osip_message_to_str.c`, `osip_message.c`, `osip_body.c` | a value is refused when it has a "!" |
| `Address` | `osip_uri.c`, `osip_from.c`, `osip_contact.c`, `osip_via.c`, `osip_call_id.c`, `osip_cseq.c`, two lists of elements | parsers, printers and comparisons of values |
| `Credentials` | `osip_www_authenticate.c`, `osip_authorization.c`, `osip_authentication_info.c` | one loop over a table of parameters |
| `MCTexts` | | the values on which `Message`, `Address` and `Credentials` are checked |
| `MCTransports` | | composes `Tcp`, `Tls`, `Dtls`, `Reach`, `Dialog`, `Servers`, `TransactionList` and what `MCTexts` extends, one moving at a time |

`MCServices` and `MCTransports` put parts that share no state beside each other: the
variable `part` says which one moves, and the others rest in one initial state.  It is
one run for several questions, not an interleaving.

### 2.1 From code to model

*Handlers.*  A handler of the code is an action of the same name.  `Transitions` is
the table of (event, states); `Handle(e)` takes the first event of the fifo and
requires a row in the table; `Discard` is an event without one (`fsm_callmethod`
finds no method).  The two cases of a handler that tests the state are two actions
(`ist_rcv_invite`, `ist_rcv_invite_again`).

*Timers.*  A timer is the number of ticks that are left, `Off` (-1) when `tv_sec` is
-1.  A timer that is due stays at 0 until it is polled, which may be late.  One tick is
T1 (500 ms).  T2, T4 and 64 T1 are constants: the properties depend on their order, not
on their size, so small runs keep the order T1 < T2 <= T4 <= Timeout.  A length of -1
that is doubled becomes -2 in the code; the model keeps one value `Negative` for it.

*Polls.*  `TimersExecute` is one of the four `osip_timers_*_execute` seen by one
transaction.  ICT is polled only when its fifo is empty; the three others are polled
always.  `OneLoop` says that one thread polls and drains in turn, so that at most one
timeout waits; without it timeouts pile up.

*The wire* is a set of messages in each direction.  A message may be received and stay
(a copy), may be lost, and may be overtaken by any other.

*The user* is told through `told`, which counts calls of each callback up to 2 (`More`):
the properties distinguish none, one and several.

*The main loop.*  `pc` is where the stack's thread is between two lock, select, read or
queue operations, `at` the same for the application.  The transactions of a kind are one
counter of waiting events; handling one may report an event (`MayReport`), whose byte is
a step of its own (`Signal`).  `newcomers` are the events that came after the list of
transactions was copied: they may be for a transaction that is not in the copy, and the
drain may therefore end without them.  The lock is modelled, and some calls of the
application are made without it, as `sip_server.c` does with `eXosip_automatic_action`.
`Retransmit` has the branch of `_eXosip_retransmit_lost200ok` that gives up a call: it
queues a BYE and reports an event from inside `eXosip_event_wait`.

*Responses* of the machines are of three kinds: provisional, success, failure.  Nothing
in the four machines looks closer.  In `Call` a challenge is a kind of its own, and so is
a provisional answer to a re-INVITE whose To tag is another or missing (`othertag`):
`cb_rcv1xx` then makes the confirmed dialog anew, and early.

*Calls.*  A heap is a record of call, dialogs, transactions and garbage; an operation of
the code takes a heap to a heap, so that what a handler does in order is a composition.
Every dereference of a pointer that another object keeps goes through a test that
remembers whether the object was freed (`fault`).  Numbers are not used twice, so that a
reference that was left behind shows.  A transaction is reduced to the state its machine
can be in, to what waits in its fifo and to an age of up to 180 s.  Building a request in
a dialog and sending it are two calls of the application in the code and one step here, as
for an application that keeps the lock between the two.  A 2xx that replaces a dialog by
one with another tag (`jcallback.c:720-731`) and a 1xx that does so to an early dialog are
in `Dialog`, not in `Call`; REFER, which `_eXosip_pendingosip_transaction_exist` looks at
as it does at BYE, is in neither.  `Retried` is the use that `eXosip_automatic_action`
makes of the dialog after `_eXosip_call_retry_request` may have freed it
(`eXosip.c:793`): TLC finds that this use never meets a freed one, since a dialog that is
alive and has no request of its own belongs to an INVITE that was not refused.

*Services.*  Time passes in steps between the ages the code compares with.  The peer is
part of the module: it grants, refuses, asks for credentials, is silent.  `trouble` and
`tolerated` in a property name the excuses: a peer that refused, and the 15 seconds by
which a grant may be shorter without being noticed.

*Streams.*  What a peer sends is a sequence of tokens; a read takes any prefix of what is
left.  The kernel gives out descriptors again, lowest first.  The thread that reads holds
no lock: between any two of its reads, and between two messages of one buffer, a send may
check, close and open connections.  If the buffer it is at is freed, the model remembers
why (`freed`) and ends the walk; what the code hands on from freed memory is undefined.
`TcpStreamsKept` says that nothing but a reset by the application, or the failure of a
connection whose connect is still pending, does that.

*TLS.*  Two threads share the table: the *reader*, which accepts, reads, keeps alive and
hands messages on without the lock of eXosip, and the *sender*, which holds it.  `tlsAt`
says where each is: before the look at the connection, in the handshake, with its verdict
in hand, about to read, write or hand on, in `accept` or `connect`.  Between any two of
these places the other may move.  When one closes or fills the slot the other is at work
on, the steps that follow in the code work on another connection, or on none; the model
remembers whose slot it was and how (`tlsTorn`) and goes no further.  `TlsNothingExposed`
says that this happens in no other way than the eight of `TlsTearings`, and that nothing is
exposed as long as it has not.  A step is a call of OpenSSL or of the kernel: calls of
OpenSSL on one connection by both threads at once, the probes of all slots by one
`_tls_tl_check_connected`, and the lines between two calls are not taken apart.

*DTLS and the own address.*  A peer is an address with its port; an association is who it is
with, which side began it, its socket and whether the handshake is over.  In `Reach` a host
and a port are members of small sets, a port of 0 is none; of a request only its
Contact, its account and its transport are kept.

*Messages.*  A text is a sequence of tokens, of which white space, separators, quotes and
backslashes are one each; lengths count tokens, or letters where the code compares a
length with a number (`AdrLong`, `CrdChars`).  In `Message` a value that contains "!" is
refused by the parser of its header; `Address` and `Credentials` are those parsers, each
value read, written and read again.

## 3. Runs

| Run | Checks |
|---|---|
| `fifo` | two producers, two consumers, three elements: `Consistent` (mutual exclusion, tokens, the flag), `NeverEmptyHanded`, refinement of `AbstractQueue`, delivery |
| `transaction` | the four machines, with threads: one answer (`AnsweredOnce`), nothing leaves after the exchange is over (`NothingAfterEnd`), every wait ends (`EveryWaitEnds`) |
| `ict` | safety of ICT, timers for four INVITEs |
| `invite` | one call, two ends: what the client acknowledges it told, no ghost session |
| `ends` | one request, two ends: agreement, no second announcement, no storm; and a refused call ends at both ends |
| `main_loop` | no lost wake-up of either thread, everything queued is handled, quitting ends, no deadlock |
| `event_socket` | *finding*: an event stays in the fifo and its byte is gone |
| `call` | one call, three transactions, two dialogs: nothing freed is used, one owner, order in the dialogs, established until BYE, released when done |
| `call_refused` | *finding*: a call that was refused is accepted as well |
| `services` | registration, publication, both kinds of subscription, credentials, session descriptions, the server |
| `transports` | TCP, TLS, DTLS, contacts behind a NAT, dialogs, servers of a domain, lists of transactions, messages and the values of their headers |
| `strict_route` | *finding*: the last router is left out instead of the first |

A property of a run is often a conjunction whose parts have names and comments of their
own in the module: `ServersTried`, for instance, is `NapTableKept`, `NapNeverStuck` and
`NapAnotherTried`.  Two in `MCTransports` join modules: `MessagesArrive` is `ServersTried`, `RchKept`,
`DlgRouted` and `TcpStreamsKept`, `TextsKept` is the three kinds of texts.

### 3.1 Bounds and why they are enough

* `MaxFifo` = 2 (1 in `invite`, `call` and the call of `ends`): two events are the least with
  which one overtakes the handling of another (a timeout behind a response, two answers, two
  timeouts).  With 1 a 200 and the 487 of a CANCEL never wait together in `call`;
  `call_refused`, with 2, is the run about that.
* `Timeout` = 4 ticks with T1 = 1 (8 in `ict`): there is room for three retransmissions
  (four INVITEs), one with the doubled interval and one with the capped one.
* `MaxSessions` = 2: the second session is what the properties about late copies speak of.
* `Lifetime`: a datagram lives at most that long; in `ends` it is 1, the largest
  value with which timer J outlasts the last copy.  With 2 `NoGhostRequest` fails:
  the last retransmission leaves shortly before timer F, which is as long as J.  In the
  code the last copy leaves half a second or more before 32 s.
* `MaxFaults` = 2: two messages are lost or copied.  In the call of `ends` there is time for
  one retransmission of the failure before timer H, so that two losses are all its copies:
  the case `EveryCopyLost` names, in which the client waits in PROCEEDING for ever, is
  reached, and without it `RefusedCallEnds` fails.
* `MaxCopies`: the counter of requests stops there; the runs reach fewer where it matters.
* Three elements in `fifo`: order needs two, a third goes past an emptied list.
* `main_loop`: pipes of one byte (`PipeMax`), so that a full pipe is common; one call and
  two reports of the application; one failed allocation; one event per kind queued by the
  stack at a time (`MaxFifo`).  A lost wake-up needs one event of each side and one byte;
  the second report meets a full pipe.  `ReadMax` bytes are read at once: 499 of 64K in
  the code, all there is in the run, and anything in the proofs.

* `call`: three transactions (an INVITE, its repetition or a re-INVITE, a BYE), two
  dialogs (two forks, or one made by a late 1xx), `MaxRetry` = 1 repetition instead of 3,
  two steps of age (younger and older than 180 s).  `LostAnswer` = 1: one event may be
  lost with its transaction.  Most hazards need a repetition and a release.
* `services`: periods and grants on both sides of the 15 seconds and of nine tenths; ages
  at which the code changes its mind; three to four requests per context, which is the
  third repetition; two slots of nonces, so that the table is full; texts of session
  descriptions of up to three more lines than a start in each section.  The clock
  of a registration stops at `RegAges`; `RegCalledOften` assumes that no delay
  fits between two of them once its refresh is due.
* `transports`: two slots and two descriptors, so that a third connection evicts, and a slot
  one thread left may be filled by the other; two
  messages per connection, one with a body; a keep-alive; certificates that are good, self
  signed and of another; three peers and two places for DTLS, so that one more than the
  table holds is heard, and two sockets, one after the other; one transport at a time for the
  own address, three accounts of which one's name contains another's, and two ports, 5060
  among them, which is the one that is left out; two forks and two requests of each end; four routers, strict ones
  among them; answers of one to three servers in a table of three, from each resolver; three transactions at a
  time of eleven requests; all values of up to six characters of words, commas, quotes and
  backslashes; fifteen texts and four calls on each message; of addresses, every text of up
  to four of the characters a parser distinguishes after what the kind begins with (five for
  Via); of credentials, two and three parameters in every order, known, unknown, empty,
  short, with commas and escaped quotes inside.

Only `main_loop` checks deadlock (`Ended` is the program after `eXosip_quit`); elsewhere
rest is legitimate: a transaction that terminated, a context that was released, a queue
nobody adds to.

### 3.2 Fairness and why the code justifies it

`eXosip_execute` runs for ever (`_eXosip_thread`) and in every turn polls all timers and
drains all fifos, and time passes: weak fairness of `Tick` and `Execute`.  A poll of ICT
is skipped when an event waits, in every turn perhaps: weak fairness only, and therefore
`EveryWaitEnds` assumes for the INVITE machines that the peer stops repeating itself
some day.  The polls of the other machines look at no fifo; in the model the bound
`MaxFifo` disables them now and then, hence strong fairness.  In `Fifo` a thread inside an
operation goes on (weak), a mutex is granted in the end (strong), and the consumers come
back for a token (strong), as the loops that call `tryget` do.  In `ends` a response
that stays in the network is received in the end (strong fairness of `Delivered`): loss
is a step of its own and bounded.  In `MainLoop` both threads run (weak), a mutex is granted
in the end (strong), and the application comes back to `eXosip_event_wait`, as every
application must; it need not call anything else and need not quit.  A select with a
time limit ends.

## 4. Proofs

Theorems hold for all values of the constants, all thread and element sets.

`FifoProof`.  The inductive invariant is `TypeOK`, `MutexInv`, `TokenInv`, `StateInv`,
and that at most one thread is in a critical section.  `TokenInv` is the key: the
elements of the list are the tokens of the semaphore plus the consumers that took a
token and no element yet, plus the producer that added and has not
posted.  It needs `MutexInv`, since a producer between `add` and `post` is alone, and it
gives `NeverEmptyHanded`.  `RefinesQueue` shows that `Add`, `Insert` and `Take` are the
steps of `AbstractQueue` and everything else stutters.

`IctProof`.  `IInv` strengthens the four invariants by what the user may have been told
in each state (`ToldByState`), by `AStopped` (timer A and its length are stopped
together) and by `CompletedHasFailure`.  The heart of it is `TimeoutsNeverStale`: since the
poll requires an empty fifo, a timeout is always first, and what is appended behind it
cannot change the state before it is handled.  The proof goes through the handlers one
by one; `IctNoRequestAfterAnswer` follows from the same invariant.

`MainLoopProof`.  `WorkInv` says where every waiting event will be seen: its byte is in
the pipe, the application is about to write it, the loop is still before the drain of
that kind, or a failed copy missed it.  It is inductive with three remarks: what
`osip_timers_gettimeout` saw of the ICT fifos (`HurryInv`), what came after a copy
(`NewcomersInv`), and that the drain begins with the first kind (`KindInv`).  `WaitInv`
does the same for the application inside `eXosip_event_wait`.  Neither needs the lock:
that a byte is written after the event, and read before the fifo is looked at, is
enough.  `SrvKeepsServing`, of the server that takes the events, is inductive with what is
known of the request that is handled - it was announced, it is in no event any more, and
only a SUBSCRIBE or an INVITE holds the lock (`SrvHandled`) -, with events that are
announced once (`SrvEventsOnce`), and with the remark that who was not handled has no
answer (`SrvUnanswered`).  The bodies and the table entries they lead to are any.

`ServicesProof`.  `RegInv` adds to `RegistrationKept` that, as long as nothing was
refused, every REGISTER that was built or sent asks for a delay that is refreshed in time
(`RegUntroubled`), that what is left of the grant covers what is left of the period
(`RegLasts`), that the repetitions with credentials are those the counter allows
(`RegCounted`), and that numbers only grow.  The delays and the ages are any that satisfy
`RegCalledOften`: the application calls `eXosip_automatic_action` so often that no delay
runs out between the age at which its refresh is due and the next call.  With a call every
second that excludes delays below 20 seconds; nothing in the code does.  `RegNumbersApart`,
which is inductive by itself, says that the last REGISTER and those the application still
holds name Call-IDs of their own: a refresh and a repetition take the next CSeq of the last
one, and every other REGISTER begins a Call-ID, so that no two have both alike.

`PublicationKept` alone is not inductive: a late 2xx to an older
PUBLISH takes away the tag that request named.  `PubNamesOlder` (requests name tags that
were handed out before them) and `PubLateSpares` (those still on their way when the last
was accepted do not name its tag) close the gap, with no bound on requests or tags.
`InsNotifiesInOrder` needs that the newest NOTIFY has the CSeq of the dialog (`InsNewest`):
the next one takes it from the dialog, a repetition from the NOTIFY that was refused.

`AuthNeverReplayed` needs to know where nonces are (`AuthInv`): the table keeps a nonce in one
place, and one place for a Call-ID and a realm (`AuthOnce`); the count kept there is not behind
what the server saw (`AuthAhead`); a challenge that nobody answered yet has a nonce that was never
used and that no other challenge has (`AuthWaiting`), and where such a nonce is already in the
table, since a retry failed half way, it is there for the Call-ID that waits (`AuthExpected`).
What several challenges make of the table is a recursion over them; it is handled by the first
number of challenges that would break the invariant (`AuthStoredHolds`).  That the server
verifies the header is `AuthHeaderVerifies`, about one header.  Credentials, challenges, methods
and places of the table are any; the Call-ID of a request is not empty.

`TransactionProof`.  `IInv` is the invariant of the machine that `ctx_type` names.  For the
server machines, and NICT, it is what `AnsweredOnce` says of the machine and what makes it
inductive: before a final answer the last response is none or a provisional one, no error is
told before the end, and, for IST, timer G and its timeouts are gone once its length is off
(`IstWithoutG`).  For ICT it is that timer A stops with its length and that a timeout is first
in the fifo, so that no length of -1 is doubled.  The theorems hold for any lengths of the
timers, fifos of any size, any peer and, except for what polls of ICT ask, any number of
threads.

`InviteProof`.  `AckMeansTold` is inductive with what the client knows of its outcome in each
state (`ToldOfFinal`), and stated of every place where an ACK can be: on its way, in the fifo
of the server, told (`Acknowledged`).  A second session may be acknowledged by a late ACK of
the first; the client's user was told all the same.

`EndsProof`.  The two ends agree because nothing is invented on the way: what the client's
user is given was waiting in its fifo, what waits was on its way, and what is on its way a
server transaction sent and still holds as its last response (`FromServer`); that a server
transaction does not change its final response is the invariant of `TransactionProof`,
carried along for the `Nist` of the composition.  When the server forgot the request and a
late copy was given to a second transaction, its user may choose another answer: `AnswersAgree`
speaks of the time with one session, and so does the invariant (`OneAnswer`).

`RequestsBounded` is about a sum defined by recursion, the earliest time of the n-th copy.
Induction over the numbers is had from the first number that fails (`Least`, from the
library's theorem on well-founded relations); it yields that a recursion defines a function
(`Recursion`: the parts up to each n exist and agree), and with it what `SendInterval` and
`EarliestSend` are at n + 1 and that an interval is at most T2.  The inductive invariant then
relates the machine's two timers (`Timed`): the time F has run and what is left to E are
together at least the earliest time of the next copy, and E's length at least its interval.  A
copy needs a timeout E in the fifo, and `Queued` says that with one loop at most one timer's
event waits, and timeout E only while E is due, so that none is handled after E was armed
again.  The lengths of the timers are any with T1 <= T2.

`TransportsProof`.  For DTLS, `DtlsKept` becomes inductive with three remarks: only the first
place holds an association that was asked for (`DtlsClientFirst`), what is in use has a socket
(`DtlsOnSocket`), and sockets to come are not connected (`DtlsFresh`).  For TLS, `TlsSafe` is
about the table and about what each thread has in hand (`TlsHeld`): the slot it is at work on
is in use, and where it passes messages, or is about to say that they may pass, they may.
Of the table, `TlsOwned`
says that slots and connections are in a bijection, so that a descriptor that is used again
cannot be in a second slot, and that a slot whose state is 2 or 3 has a connection that may
carry messages (`TlsReady`); that a free slot implies a free descriptor is the pigeonhole
principle (`TlsRoom`).  Every handler is a sequence of a few changes of the table - close, open,
change a slot, change it with its connection - and each of them keeps both.  What one thread
has in hand is kept by the steps of the other because those that would take its slot away
tear it, and are then shown to be among those `TlsTearings` names.  Peers, places, sockets,
slots and certificates are any.

For the dialogs, `DialogsAgree` needs to know of every message on the wire that the dialogs of
its ends account for it (`DlgFits`): an end that made no dialog yet and got no BYE sent nothing
and answered nothing (`DlgUnknown`); an end whose dialog is early sent no INVITE, so that no
answer can change its route; an INVITE within the dialog of the caller, or an answer to one,
comes after the 2xx; and, as long as the caller's dialog was not replaced, the requests to a
fork have numbers the caller has used.  As a call goes on (`DlgGoesOn`) what was accounted for
still is, and only a new dialog at a fork needs to be looked at on its own.  Proxies, forks,
requests and addresses are any; the way a request takes is not unfolded (`DlgRouted`, which
speaks of it, is model-checked).  For the lists of transactions (`TlInv`): numbers are given
once, what the program asked is found again by branch and method alone, since a branch is new
or that of an INVITE which has no CANCEL yet (`TlAsked`), and what is looked at before the sleep
are the timers that are armed.  `ListsKept` says of the ACK of a 2xx that it stops what is
repeated; that needs `TlRepeated`: what is repeated for a dialog was numbered one after the
other, so the last of one is the only one.  Clients, transactions, timers and dialogs are any;
`TlClients` says of clients what RFC 3261 17.2.3 asks of them, and TLC evaluates it.

Only model-checked:

* everything about liveness, since TLAPS has no support for ENABLED and fairness here;
* what RECURSIVE operators compute over data (`Message`, `Address`, `Credentials`, `Sdp`, the
  lookup in `Servers`): the provers know no induction over sequences;
* `Call`, `Subscription` and `Reach`, whose handlers fold over sequences: the provers know
  nothing of a fold but its definition by recursion;
* `TcpStreamsKept`, which compares streams cut into pieces, and `DlgRouted`, which follows a
  request from hop to hop, for the same reason;
* `NoGhostRequest` and `NoGhostAfterAck`, which depend on the very lengths of the timers: with
  others they are false.

## 5. Findings and observations

### 5.1 Runs that expect a violation

1. `event_socket` - `eXosip_event_wait` reads the pipe after it looked at the fifo: the
   byte of an event that comes in between is gone, and who calls with no time to wait and
   then selects on `eXosip_event_geteventsocket` is not told of the event until the next
   one.  Calling `eXosip_event_wait` again finds it (`EventsDelivered`).
2. `call_refused` - `eXosip_call_send_answer` looks at the state of the transaction and not
   at its fifo: a 200 after a 603, or after the 487 of a CANCEL, that has not been executed
   confirms the dialog, while the failure is what is sent.
3. `strict_route` - with a strict router first, `dialog_fill_route_set` (`jrequest.c:760`)
   copies the route set from its beginning and drops the last router.

### 5.2 Seen while modelling

What the properties above exclude by name, or what no property is about:

* *fifo* - `osip_fifo_add` ignores a failed `osip_list_add` and posts: the event is lost and
  a consumer finds the branch that "MUST never happen" (`port_fifo.c:48`); the run `fifo` has
  no failing allocation, the theorems on tokens do.
* *machines* - a client in PROCEEDING has no timer: when every copy of the failure is lost it
  waits for ever (`ict_fsm.c:204`; `EveryCopyLost`), and a peer that repeats itself for ever
  keeps timer I from ending (`EveryWaitEnds` supposes that it stops).
  `osip_nict_timeout_e_event` doubles a length of -1 when two timeouts E wait,
  which threads can bring about, and sends again over a reliable transport
  (`nict_fsm.c:185`); `RequestsBounded` is stated for one loop.  `ict_rcv_3456xx` reports a
  transport error, and not the failure it received, when its ACK does not leave at once;
  `NeverSilent` takes either for an answer, and supposes that the ACK can be built.
* *calls* - a provisional answer to a re-INVITE with another To tag, or none, makes the
  confirmed dialog early again and counts its CSeq from the re-INVITE on; a failure then
  deletes the dialog of a call that both ends hold (`jcallback.c:596-625`, 1266-1271;
  `ReplacedBy1xx` in `EstablishedUntilBye`, `replaced` in `DialogsInOrder`).
* *lists* - the list of repeated 2xx is locked while it is walked, so a walk is one step of
  the model; `osip_stop_200ok_retransmissions` removes the newest entry of the dialog
  whatever it repeats, so that with two the ACK may leave the 2xx (`osip.c:216-223`); a
  second CANCEL of an INVITE shares its branch and answers go to the first.  eXosip does
  not use these retransmissions.
* *dialogs* - `udp.c:859` compares a name with a value, so that a late copy of the initial
  INVITE is answered 404 instead of being discarded (comment at 846); `jresponse.c:145`
  tests `exp == NULL` and never copies Expires; `osip_dialog_match_as_uas` does not look at
  the To tag; a fork that comes back after another replaced it uses CSeq numbers again
  (`replaced` in `DlgAgree`).
* *publications* - the automatic refresh and the repetition clone the last request and name
  its tag, which its own 2xx has replaced (`eXosip.c:275-329`); `PublicationKept` is about
  the tag that is kept.
* *subscriptions* - with the default action the 2xx of a repetition is handled through a
  dialog that is gone (`jcallback.c:832`; `SubNoFault` excludes it); the repetition of a
  NOTIFY by the default action (`eXosip.c:490-506`) is not bounded and does not wait for the
  one before it (`InsNotifiesInOrder` excludes it).
* *credentials* - nc is printed in decimal; AKA answers leave out nc, cnonce and qop; qop
  "auth" is answered whatever is offered; a nonce of a 401 is used in Proxy-Authorization.
* *streams* - `_tcp_tl_check_connected` and `_tls_tl_check_connected` run in every send and
  close connections that the stack's thread, which reads without the lock, may be at work on:
  after a reset, or when a pending connect failed (`freed`, `tlsTorn`).  With TLS the thread that reads may also close,
  evict or fill the slot a send is at work on, and both may take the same handshake further
  and close it twice.
* *DTLS* - the read of `dtls_tl_read_message`, made without the lock, is one step with what it
  hands on.  It tests `pos < 0` after a loop that leaves `pos` at the size
  of the table: with a full table and an unconnected socket, an unknown peer is given the
  entry behind the last (`overrun`; `DtlsPlaceForHeard` excludes it once the socket is
  connected); asking for an association connects the shared socket, so that those with
  others are heard no more.
* *own address* - a failed `_udp_tl_reset` leaves the number of a closed descriptor;
  `eXosip_set_socket` starts another thread, and sets no port for the firewall;
  the Route of a strict proxy that the application preloaded is removed when the To has no
  tag; the port learnt from the Via of any answer replaces the one of all accounts.
* *servers* (excuses of `NapNeverStuck`: `cut`, `broken`) - a lookup of Windows that fails leaves the record as if it had not begun, in the
  cache for ever; a malformed SRV answer of the system's resolver leaves the
  servers that were read unsorted (`cut`); a failing `select` leaves a record that waits for ever (`eXutils.c:2133`,
  `broken` in `NapNeverStuck`); the index may pass the end of a full table (`eXutils.c:947`);
  `eXutils.c:1749` destroys a NULL channel and leaks the other.
* *messages* - an empty continued line as the last header hides the empty line, and folding
  reaches into the body (`osip_message_parse.c:314-321`); the last of several values is
  dropped when it is one character; the short form of Subject is split at commas; a body
  whose first byte is NUL is taken for none (890); Content-Type with a length of 0 makes a
  body that cannot be written; parts without Mime-Version are written without boundaries;
  a parameter without value leaves the bare name of Content-Type in the text
  (`osip_message_to_str.c:527`); a copy duplicates the text up to the first NUL but keeps
  its length; `osip_message_set_status_code`, its four companions and
  `osip_message_fix_last_via_header` do not reset `message_property` (`changed` in
  `MsgUpToDate`).
* *addresses* - without angle brackets a URI of five characters is accepted and with them it
  is refused, since the length counts the NUL (`osip_from.c:208` and 227); a host or a port
  with "@" or "]", parts that are empty, and the parameters of a Via after its comment, are
  not what is written; a Contact that begins with "*" is written "*" alone; two parties are
  the same when one of them has no tag (`AdrTag`; the code says "sounds like a BUG").
* *challenges* - an Authorization without a username is written "Digest, realm=" and its type
  is read as "Digest,"; a last parameter that is no longer than the name of a missing quoted
  one, such as `nc=1`, makes the header refused (`osip_www_authenticate.c:78`), although the
  comment at 103 says that an empty parameter is just forgotten.
* *session descriptions* - `sdp_message_a_attribute_del_at_index` deletes everything from
  the index on and loops for ever when one precedes it; text after a line out of order is
  ignored with success; repeated lines leak.
* *server* - a SUBSCRIBE without a served body keeps the lock for ever
  (`sip_handle_request.c:121`); a body without `type` reads an uninitialised record; an
  INVITE ends the process after its 180; a refused MESSAGE is never answered;
  `info_query` answers the type of `info_modify`.

## 6. Not modelled, and why

* The headers that only carry a word or a list of words (Allow, Accept, Content-Length and
  the like), the case of letters, and copies of headers: sequential text handling, tested by
  `src/test`.
* The arithmetic of MD5, milenage and rijndael; the reading of certificates and the options of
  sockets; how the addresses of this machine are found: no state of the protocol.
* Wrappers of threads and semaphores: the operating system's promise is assumed.
* `osip_fifo_free`, `osip_transaction_free`: run when nobody uses the object.
  `osip_*_execute` with threads of the application that free transactions meanwhile: eXosip
  does not do so.
* PRACK, Replaces and the session timer of a call; the RSeq of a dialog.
* `eXosip_event_get` and its condition variable; a `select` of the stack that fails for
  good (the thread ends); `eXosip_init`; the byte `eXosip_quit` writes for other threads
  in `eXosip_event_wait` (one application thread is modelled).
* `timer_*_length` values set by an application, `USE_BLOCKINGSOCKET`, `OSIP_MONOTHREAD`,
  `MINISIZE`.
* `framework/src/sip_main.cpp`, a process around the server, and the example `uac.c`.

## 7. Plan

What is left:

1. The session timer and PRACK in `Call`.
2. Proofs of parts of `Call` and `Subscription` that do not depend on what a fold computes.
