------------------------------- MODULE MainLoop -------------------------------
(***************************************************************************)
(* The two threads of a program that uses eXosip and how they wake each    *)
(* other: the stack's thread (_eXosip_thread, eXosip_execute), asleep in   *)
(* select with the pipe j_socketctl, and the application, asleep in        *)
(* eXosip_event_wait with the pipe j_socketctl_event.  The application     *)
(* queues events for transactions, the stack queues events for the         *)
(* application; whoever queues writes a byte afterwards.  The fifos are    *)
(* those of module Fifo and are only counted here.                         *)
(***************************************************************************)
EXTENDS Integers, FiniteSets

CONSTANTS MaxFifo,      \* events that the stack queues per kind of transaction
          MaxCalls,     \* calls of the application that queue an event
          MaxReports,   \* events for the application
          MaxFailures,  \* failures of osip_malloc
          PipeMax,      \* bytes a pipe holds
          ReadMax       \* bytes taken by one read: 499 of the pipe's 64K

ASSUME MainLoopAssumption ==
  /\ {MaxFifo, MaxCalls, MaxReports, MaxFailures} \subseteq Nat
  /\ PipeMax \in Nat \ {0} /\ ReadMax \in Nat \ {0}

(* osip_ist_execute called twice *)
OrderWithoutIct == <<"NIST", "NICT", "IST", "IST">>

(* eXosip_execute empties the fifos in this order. *)
Order == <<"NIST", "NICT", "IST", "ICT">>
Kinds == {"NIST", "NICT", "IST", "ICT"}

VARIABLES
  lock,       \* j_mutexlock: "free", "stack" or "app"
  stop,       \* j_stop_ua
  fifo,       \* per kind, the events that wait for its transactions
  wake,       \* bytes in j_socketctl
  events,     \* events in j_events
  bytes,      \* bytes in j_socketctl_event
  pc,         \* where the stack's thread is
  hurry,      \* osip_timers_gettimeout gave 0
  kind,       \* the fifos being emptied: an index into Order
  newcomers,  \* events of that kind queued since the list was copied
  failed,     \* kinds whose list could not be copied in the last turn
  signalling, \* the stack queued an event and has not written its byte
  at,         \* where the application is
  target,     \* the kind of transaction it queues an event for
  waiting,    \* it is inside eXosip_event_wait
  je,         \* the last eXosip_event_wait returned an event
  swallowed,  \* its first read took the byte of an event that still waits
  calls, reports, failures    \* how much of each bound is used

shared  == <<lock, stop, fifo, wake, events, bytes>>
turn    == <<hurry, kind, newcomers, failed>>
stack   == <<pc, signalling, turn, failures>>
app     == <<at, target, waiting, je, swallowed, calls>>
vars    == <<shared, stack, app, reports>>

Init ==
  /\ lock = "free" /\ stop = FALSE
  /\ fifo = [k \in Kinds |-> 0] /\ wake = 0 /\ events = 0 /\ bytes = 0
  /\ pc = "begin" /\ hurry = FALSE /\ kind = 1 /\ newcomers = 0
  /\ failed = {} /\ signalling = FALSE
  /\ at = "idle" /\ target = "none" /\ waiting = FALSE
  /\ je = TRUE /\ swallowed = FALSE
  /\ calls = 0 /\ reports = 0 /\ failures = 0

-----------------------------------------------------------------------------

(* jpipe_write does not block: a byte for a full pipe is dropped. *)
Written(n) == IF n < PipeMax THEN n + 1 ELSE n

(* jpipe_read *)
Drained(n) == IF n > ReadMax THEN n - ReadMax ELSE 0

(* osip_fifo_add of _eXosip_event_add; the byte is a step of its own *)
QueueEvent ==
  /\ reports < MaxReports
  /\ events' = events + 1
  /\ reports' = reports + 1

(* A handler called by the stack tells the application something, or not. *)
MayReport ==
  \/ QueueEvent /\ signalling' = TRUE
  \/ UNCHANGED <<events, reports, signalling>>

(* osip_transaction_add_event, by the stack *)
Add(k) == fifo[k] < MaxFifo /\ fifo' = [fifo EXCEPT ![k] = @ + 1]

-----------------------------------------------------------------------------
(* The stack's thread.  A step from `from' to `to'; a byte that is owed is *)
(* written before anything else.                                           *)
Step(from, to) == pc = from /\ ~signalling /\ pc' = to

(* osip_cond_signal without the byte *)
SignalWithoutByte ==
  /\ signalling
  /\ signalling' = FALSE
  /\ UNCHANGED <<shared, pc, turn, failures, app, reports>>

(* eXosip_wakeup_event *)
Signal ==
  /\ signalling
  /\ signalling' = FALSE
  /\ bytes' = Written(bytes)
  /\ UNCHANGED <<lock, stop, fifo, wake, events, pc, turn, failures, app, reports>>

(* a timeout that looks at the timers only *)
GetTimeoutOfTimers ==
  /\ ~stop
  /\ hurry' \in BOOLEAN
  /\ \/ Step("begin", "enter")
     \/ ~hurry' /\ Step("begin", "refresh")
  /\ UNCHANGED <<shared, signalling, kind, newcomers, failed, failures, app, reports>>

(* a loop that does not test j_stop_ua *)
GetTimeoutForEver ==
  /\ hurry' \in {h \in BOOLEAN : fifo["ICT"] > 0 => h}
  /\ \/ Step("begin", "enter")
     \/ ~hurry' /\ Step("begin", "refresh")
  /\ UNCHANGED <<shared, signalling, kind, newcomers, failed, failures, app, reports>>

(* osip_timers_gettimeout: 0 when a timer is due, or when an event waits    *)
(* for an INVITE client transaction; it looks at no other fifo.            *)
GetTimeout ==
  /\ ~stop
  /\ hurry' \in {h \in BOOLEAN : fifo["ICT"] > 0 => h}
  /\ \/ Step("begin", "enter")
     \/ ~hurry' /\ Step("begin", "refresh")
  /\ UNCHANGED <<shared, signalling, kind, newcomers, failed, failures, app, reports>>

(* Without a timer in the next 10 s the registrations are looked at, with  *)
(* the lock.                                                               *)
LookAtRegistrations ==
  /\ Step("refresh", "enter")
  /\ lock = "free"
  /\ UNCHANGED <<shared, signalling, turn, failures, app, reports>>

(* The head of the loop of _eXosip_read_message. *)
EnterSelect ==
  /\ Step("enter", IF stop THEN "lock" ELSE "select")
  /\ UNCHANGED <<shared, signalling, turn, failures, app, reports>>

(* select returns for the pipe, and perhaps for a socket too. *)
WokenUp ==
  /\ wake > 0
  /\ wake' = Drained(wake)
  /\ Step("select", IF stop THEN "lock" ELSE "read")
  /\ hurry' = FALSE
  /\ UNCHANGED <<lock, stop, fifo, events, bytes, signalling, kind, newcomers, failed,
                 failures, app, reports>>

(* select returns for a socket only, or the time is over *)
SelectReturns ==
  /\ wake = 0
  /\ \/ Step("select", "lock")
     \/ ~stop /\ Step("select", "read")
  /\ hurry' = FALSE
  /\ UNCHANGED <<shared, signalling, kind, newcomers, failed, failures, app, reports>>

(* _eXosip_handle_incoming_message, without the lock: nothing to read, a   *)
(* message for a transaction, or a request without one.                    *)
ReadMessage ==
  /\ \/ Step("read", "lock") /\ UNCHANGED fifo
     \/ Step("read", "lock") /\ \E k \in Kinds : Add(k)
     \/ Step("read", "request") /\ UNCHANGED fifo
  /\ UNCHANGED <<lock, stop, wake, events, bytes, signalling, turn, failures, app, reports>>

LockRequest ==
  /\ Step("request", "answer")
  /\ lock = "free"
  /\ lock' = "stack"
  /\ UNCHANGED <<stop, fifo, wake, events, bytes, signalling, turn, failures, app, reports>>

(* _eXosip_process_newrequest makes a transaction and queues the request,  *)
(* often with an answer (one event here); a request that makes none is     *)
(* dropped, or is told to the application (an ACK).                        *)
ProcessRequest ==
  /\ \/ /\ Step("answer", "process")
        /\ \E k \in {"IST", "NIST"} : Add(k)
        /\ UNCHANGED <<events, reports, signalling>>
     \/ Step("answer", "unlock") /\ UNCHANGED fifo /\ MayReport
  /\ UNCHANGED <<lock, stop, wake, bytes, turn, failures, app>>

Handle(k) == fifo[k] > 0 /\ fifo' = [fifo EXCEPT ![k] = @ - 1] /\ MayReport

(* osip_ist_execute and osip_nist_execute in the middle of a request *)
ExecuteRequest ==
  /\ Step("process", "process")
  /\ \E k \in {"IST", "NIST"} : Handle(k)
  /\ UNCHANGED <<lock, stop, wake, bytes, turn, failures, app>>

(* Most branches end with _eXosip_wakeup; the refusals of an INVITE with a *)
(* tag and of a SUBSCRIBE do not.                                          *)
FinishRequest ==
  /\ Step("process", "unlock")
  /\ wake' \in {wake, Written(wake)}
  /\ MayReport
  /\ UNCHANGED <<lock, stop, fifo, bytes, turn, failures, app>>

UnlockRequest ==
  /\ Step("unlock", "lock")
  /\ lock' = "free"
  /\ UNCHANGED <<stop, fifo, wake, events, bytes, signalling, turn, failures, app, reports>>

LockTurn ==
  /\ Step("lock", "timers")
  /\ lock = "free"
  /\ lock' = "stack"
  /\ UNCHANGED <<stop, fifo, wake, events, bytes, signalling, turn, failures, app, reports>>

(* osip_timers_*_execute queue the timeouts that are due. *)
TimersExecute ==
  /\ Step("timers", "copy")
  /\ \E due \in SUBSET Kinds :
       fifo' = [k \in Kinds |->
                  IF k \in due /\ fifo[k] < MaxFifo THEN fifo[k] + 1 ELSE fifo[k]]
  /\ failed' = {}
  /\ UNCHANGED <<lock, stop, wake, events, bytes, signalling, hurry, kind, newcomers,
                 failures, app, reports>>

(* osip_*_execute copies its list of transactions; eXosip_execute ignores  *)
(* OSIP_NOMEM.                                                             *)
CopyList ==
  /\ Step("copy", "drain")
  /\ UNCHANGED <<shared, signalling, turn, failures, app, reports>>

NextKind(from) ==
  /\ Step(from, IF kind = 4 THEN "release" ELSE "copy")
  /\ kind' = IF kind = 4 THEN 1 ELSE kind + 1
  /\ newcomers' = 0

CopyFails ==
  /\ failures < MaxFailures
  /\ failures' = failures + 1
  /\ failed' = failed \cup {Order[kind]}
  /\ NextKind("copy")
  /\ UNCHANGED <<shared, signalling, hurry, app, reports>>

Execute ==
  /\ Step("drain", "drain")
  /\ Handle(Order[kind])
  /\ UNCHANGED <<lock, stop, wake, bytes, turn, failures, app>>

(* The fifos of the transactions of the copy are empty. *)
ExecuteDone ==
  /\ fifo[Order[kind]] <= newcomers
  /\ NextKind("drain")
  /\ UNCHANGED <<shared, signalling, hurry, failed, failures, app, reports>>

(* _eXosip_release_terminated_calls and its like *)
Release ==
  /\ Step("release", "end")
  /\ MayReport
  /\ UNCHANGED <<lock, stop, fifo, wake, bytes, turn, failures, app>>

UnlockTurn ==
  /\ Step("end", "begin")
  /\ lock' = "free"
  /\ UNCHANGED <<stop, fifo, wake, events, bytes, signalling, turn, failures, app, reports>>

(* _eXosip_thread *)
ThreadExit ==
  /\ stop
  /\ Step("begin", "ended")
  /\ UNCHANGED <<shared, signalling, turn, failures, app, reports>>

StackLocks == LookAtRegistrations \/ LockRequest \/ LockTurn

StackRuns ==
  \/ Signal \/ GetTimeout \/ EnterSelect \/ WokenUp \/ SelectReturns \/ ReadMessage
  \/ ProcessRequest \/ ExecuteRequest \/ FinishRequest \/ UnlockRequest
  \/ TimersExecute \/ CopyList \/ CopyFails \/ Execute \/ ExecuteDone
  \/ Release \/ UnlockTurn \/ ThreadExit

-----------------------------------------------------------------------------
(* The application, a step from `from' to `to'. *)
AppStep(from, to) == at = from /\ at' = to

(* A call of the API that queues an event for a transaction.  The caller   *)
(* holds the lock, or does not: the server of framework/ calls             *)
(* eXosip_automatic_action without it.                                     *)
Call ==
  /\ AppStep("idle", "add")
  /\ ~stop /\ calls < MaxCalls
  /\ calls' = calls + 1
  /\ target' \in Kinds
  /\ \/ UNCHANGED lock
     \/ lock = "free" /\ lock' = "app"
  /\ UNCHANGED <<stop, fifo, wake, events, bytes, stack, waiting, je, swallowed, reports>>

(* osip_transaction_add_event *)
AddEvent ==
  /\ AppStep("add", "wakeup")
  /\ fifo' = [fifo EXCEPT ![target] = @ + 1]
  /\ newcomers' = IF pc = "drain" /\ Order[kind] = target THEN newcomers + 1
                                                          ELSE newcomers
  /\ UNCHANGED <<lock, stop, wake, events, bytes, pc, signalling, hurry, kind, failed,
                 failures, target, waiting, je, swallowed, calls, reports>>

(* _eXosip_wakeup *)
Wakeup ==
  /\ AppStep("wakeup", IF waiting THEN "report" ELSE "unlock")
  /\ wake' = Written(wake)
  /\ target' = "none"
  /\ UNCHANGED <<lock, stop, fifo, events, bytes, stack, waiting, je, swallowed, calls, reports>>

(* an eXosip_event_wait that waits for a byte before it looks at the fifo *)
EventWaitForByte ==
  /\ ~stop
  /\ AppStep("idle", "poll")
  /\ je' = FALSE
  /\ waiting' = TRUE
  /\ UNCHANGED <<shared, stack, target, swallowed, calls, reports>>

(* eXosip_event_wait: osip_fifo_tryget *)
EventWait ==
  /\ ~stop
  /\ \/ /\ AppStep("idle", "idle") /\ events > 0
        /\ events' = events - 1
        /\ je' = TRUE
        /\ UNCHANGED waiting
     \/ /\ AppStep("idle", "poll") /\ events = 0
        /\ je' = FALSE
        /\ waiting' = TRUE
        /\ UNCHANGED events
  /\ UNCHANGED <<lock, stop, fifo, wake, bytes, stack, target, swallowed, calls, reports>>

(* The first select, of no duration.  Its result is not looked at: after a *)
(* signal the descriptor is still in the set, and the read may block.      *)
Poll ==
  /\ \/ bytes = 0 /\ AppStep("poll", "retransmit")
     \/ AppStep("poll", "read")
  /\ UNCHANGED <<shared, stack, target, waiting, je, swallowed, calls, reports>>

Read ==
  /\ AppStep("read", "retransmit")
  /\ bytes > 0
  /\ bytes' = Drained(bytes)
  /\ swallowed' = (events > 0)
  /\ UNCHANGED <<lock, stop, fifo, wake, events, stack, target, waiting, je, calls, reports>>

(* _eXosip_retransmit_lost200ok, with the lock; it gives up a call without *)
(* an ACK: a BYE for a NICT, and an event for the application itself.      *)
Retransmit ==
  /\ lock = "free"
  /\ lock' = "app"
  /\ \/ AppStep("retransmit", "unlock") /\ UNCHANGED <<target, calls>>
     \/ /\ AppStep("retransmit", "add")
        /\ calls < MaxCalls /\ reports < MaxReports
        /\ calls' = calls + 1
        /\ target' = "NICT"
  /\ UNCHANGED <<stop, fifo, wake, events, bytes, stack, waiting, je, swallowed, reports>>

Report ==
  /\ AppStep("report", "signal")
  /\ QueueEvent
  /\ UNCHANGED <<lock, stop, fifo, wake, bytes, stack, target, waiting, je, swallowed, calls>>

AppSignal ==
  /\ AppStep("signal", "unlock")
  /\ bytes' = Written(bytes)
  /\ UNCHANGED <<lock, stop, fifo, wake, events, stack, target, waiting, je, swallowed, calls, reports>>

Return == waiting' = FALSE /\ swallowed' = FALSE

(* The second select is left out when the caller gave no time to wait. *)
Unlock ==
  /\ lock' = IF lock = "app" THEN "free" ELSE lock
  /\ \/ AppStep("unlock", "idle") /\ Return
     \/ AppStep("unlock", "sleep") /\ waiting /\ UNCHANGED <<waiting, swallowed>>
  /\ UNCHANGED <<stop, fifo, wake, events, bytes, stack, target, je, calls, reports>>

(* The second select: the time is over, or a signal came. *)
TimeOver ==
  /\ AppStep("sleep", "idle")
  /\ Return
  /\ UNCHANGED <<shared, stack, target, je, calls, reports>>

WokenByEvent ==
  /\ AppStep("sleep", "take")
  /\ bytes > 0
  /\ bytes' = Drained(bytes)
  /\ UNCHANGED <<lock, stop, fifo, wake, events, stack, target, waiting, je, swallowed, calls, reports>>

Take ==
  /\ AppStep("take", "idle")
  /\ \/ events > 0 /\ events' = events - 1 /\ je' = TRUE
     \/ events = 0 /\ UNCHANGED <<events, je>>
  /\ Return
  /\ UNCHANGED <<lock, stop, fifo, wake, bytes, stack, target, calls, reports>>

(* eXosip_quit *)
Quit ==
  /\ AppStep("idle", "quit")
  /\ stop' = TRUE
  /\ UNCHANGED <<lock, fifo, wake, events, bytes, stack, target, waiting, je, swallowed, calls, reports>>

WakeupToQuit ==
  /\ AppStep("quit", "join")
  /\ wake' = Written(wake)
  /\ UNCHANGED <<lock, stop, fifo, events, bytes, stack, target, waiting, je, swallowed, calls, reports>>

(* osip_thread_join; then everything is freed. *)
Join ==
  /\ AppStep("join", "gone")
  /\ pc = "ended"
  /\ UNCHANGED <<shared, stack, target, waiting, je, swallowed, calls, reports>>

AppRuns ==
  \/ AddEvent \/ Wakeup \/ EventWait \/ Poll \/ Read \/ Report \/ AppSignal \/ Unlock
  \/ TimeOver \/ WokenByEvent \/ Take \/ WakeupToQuit \/ Join

(* The program has ended. *)
Ended == at = "gone" /\ UNCHANGED vars

Next == StackRuns \/ StackLocks \/ AppRuns \/ Retransmit \/ Call \/ Quit \/ Ended

Spec == Init /\ [][Next]_vars

(* Both threads run, the time given to a select passes, a mutex is granted  *)
(* in the end, and the application calls eXosip_event_wait for ever.  It    *)
(* may, and need not, use the API and quit.                                *)
FairSpec ==
  /\ Spec
  /\ WF_vars(StackRuns) /\ SF_vars(StackLocks)
  /\ WF_vars(AppRuns) /\ SF_vars(Retransmit)

-----------------------------------------------------------------------------
(* The types of the variables; no pipe ever holds more than it can. *)
TypeOK ==
  /\ lock \in {"free", "stack", "app"} /\ stop \in BOOLEAN
  /\ fifo \in [Kinds -> Nat] /\ events \in Nat
  /\ wake \in 0..PipeMax /\ bytes \in 0..PipeMax
  /\ pc \in {"begin", "refresh", "enter", "select", "read", "request", "answer",
             "process", "unlock", "lock", "timers", "copy", "drain", "release",
             "end", "ended"}
  /\ hurry \in BOOLEAN /\ kind \in 1..4 /\ newcomers \in Nat
  /\ failed \subseteq Kinds /\ signalling \in BOOLEAN
  /\ at \in {"idle", "add", "wakeup", "report", "signal", "unlock", "poll", "read",
             "retransmit", "sleep", "take", "quit", "join", "gone"}
  /\ target \in Kinds \cup {"none"} /\ waiting \in BOOLEAN
  /\ je \in BOOLEAN /\ swallowed \in BOOLEAN
  /\ calls \in Nat /\ reports \in Nat /\ failures \in Nat

(* The stack's thread is in select and nothing ends it before its time. *)
Asleep == pc = "select" /\ wake = 0 /\ ~hurry

(* No lost wake-up of the stack: when its thread sleeps, no event waits for *)
(* a transaction, whoever queued it, with or without the lock - but for the *)
(* one whose byte is just being written.  A copy of a list that failed may  *)
(* leave events behind, and never for an INVITE client transaction: it is   *)
(* the one osip_timers_gettimeout looks at.                                *)
NoForgottenWork ==
  Asleep => \A k \in Kinds :
              fifo[k] > 0 => (at = "wakeup" /\ target = k) \/ k \in failed \ {"ICT"}

(* The application was told of an event, or is about to be. *)
Signalled == bytes > 0 \/ signalling \/ at = "signal"

(* The application sleeps in eXosip_event_wait next to a waiting event only *)
(* if the first read of the same call took the byte of that event; and the *)
(* read that a signal makes block ends as soon as there is an event.       *)
NoEventMissed ==
  events > 0 => /\ at = "sleep" => Signalled \/ swallowed
                /\ at = "read" => Signalled

(* What eXosip.h says of eXosip_event_geteventsocket: an application that   *)
(* calls eXosip_event_wait until it returns no event may wait for the       *)
(* socket then, for it receives data when there is an event.  Violated: an  *)
(* event that comes between the look at the fifo and the read of the pipe   *)
(* stays in the fifo, and its byte is gone.                                *)
SocketTells == at = "idle" /\ ~je /\ events > 0 => Signalled

(* Every event queued for a transaction is handled: all fifos are empty in  *)
(* the end, unless the program quits, also when a copy of a list failed.   *)
Pending == \E k \in Kinds : fifo[k] > 0

WorkDone == Pending ~> ~Pending \/ stop

(* An event reaches an application that keeps calling eXosip_event_wait,    *)
(* the swallowed ones too.                                                 *)
EventsDelivered == events > 0 ~> events = 0 \/ stop

(* eXosip_quit returns: the stack's thread sees j_stop_ua wherever it is. *)
QuitEnds == stop ~> at = "gone"
=============================================================================
