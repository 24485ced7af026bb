-------------------------------- MODULE Fifo --------------------------------
(***************************************************************************)
(* osip_fifo_t (osip2/port_fifo.c), the queue between the threads of the   *)
(* stack: the event queue of every transaction and the queue of events for *)
(* the application.  It is a list guarded by a mutex, a counting semaphore *)
(* that is taken BEFORE the mutex, and a redundant `state' flag.  One      *)
(* action per critical step, so that every interleaving of the semaphore   *)
(* with the mutex is explored.                                             *)
(***************************************************************************)
EXTENDS Integers, Sequences, FiniteSets

CONSTANTS Producers,    \* threads that call osip_fifo_size, _add and _insert
          Consumers,    \* threads that call osip_fifo_get and _tryget
          Elements,     \* the elements, each added at most once
          NoThread,     \* the mutex is free
          NoElement,    \* a NULL pointer
          AllocMayFail  \* may osip_list_add fail with OSIP_NOMEM?

Threads == Producers \cup Consumers

ASSUME ThreadsAssumption ==
  /\ IsFiniteSet(Producers) /\ IsFiniteSet(Consumers)
  /\ Producers \cap Consumers = {}
  /\ NoThread \notin Producers \cup Consumers
  /\ NoElement \notin Elements
  /\ AllocMayFail \in BOOLEAN

VARIABLES queue,      \* ff->queue
          state,      \* ff->state
          sem,        \* ff->qisempty
          mutex,      \* ff->qislocked: its owner
          pc,         \* where each thread is
          arg,        \* the element a producer is adding
          fresh,      \* elements nobody has added yet
          delivered   \* the non-NULL results of get and tryget, in order

vars == <<queue, state, sem, mutex, pc, arg, fresh, delivered>>

ProducerPC == {"idle", "lock_size", "size", "lock_add", "add",
               "lock_insert", "insert", "post", "unlock"}
ConsumerPC == {"idle", "get", "lock_take", "take", "unlock"}

(* osip_fifo_init *)
Init ==
  /\ queue = <<>>
  /\ state = "empty"
  /\ sem = 0
  /\ mutex = NoThread
  /\ pc = [t \in Threads |-> "idle"]
  /\ arg = [t \in Producers |-> NoElement]
  /\ fresh = Elements
  /\ delivered = <<>>

Goto(t, l) == pc' = [pc EXCEPT ![t] = l]

Lock(t, from, to) ==
  /\ pc[t] = from
  /\ mutex = NoThread
  /\ mutex' = t
  /\ Goto(t, to)
  /\ UNCHANGED <<queue, state, sem, arg, fresh, delivered>>

(* an early return without osip_mutex_unlock *)
ReturnLocked(t) ==
  /\ pc[t] = "unlock"
  /\ Goto(t, "idle")
  /\ UNCHANGED <<queue, state, sem, mutex, arg, fresh, delivered>>

(* osip_mutex_unlock *)
Unlock(t) ==
  /\ pc[t] = "unlock"
  /\ mutex' = NoThread
  /\ Goto(t, "idle")
  /\ UNCHANGED <<queue, state, sem, arg, fresh, delivered>>

-----------------------------------------------------------------------------
(* Producers.  As osip_timers_ict_execute does, a producer may look at the *)
(* size first.                                                             *)

CallSize(t) ==
  /\ pc[t] = "idle"
  /\ Goto(t, "lock_size")
  /\ UNCHANGED <<queue, state, sem, mutex, arg, fresh, delivered>>

Size(t) ==
  /\ pc[t] = "size"
  /\ Goto(t, "unlock")
  /\ UNCHANGED <<queue, state, sem, mutex, arg, fresh, delivered>>

CallAdd(t, entry) ==
  /\ pc[t] = "idle"
  /\ \E e \in fresh : /\ arg' = [arg EXCEPT ![t] = e]
                      /\ fresh' = fresh \ {e}
  /\ Goto(t, entry)
  /\ UNCHANGED <<queue, state, sem, mutex, delivered>>

(* the list with the element, or unchanged when osip_malloc fails *)
ListAdd(withElement) ==
  \/ queue' = withElement
  \/ AllocMayFail /\ queue' = queue

(* osip_fifo_add: the result of osip_list_add is not looked at *)
Add(t) ==
  /\ pc[t] = "add"
  /\ ListAdd(Append(queue, arg[t]))
  /\ state' = "ok"
  /\ Goto(t, "post")
  /\ UNCHANGED <<sem, mutex, arg, fresh, delivered>>

(* osip_fifo_insert *)
Insert(t) ==
  /\ pc[t] = "insert"
  /\ ListAdd(<<arg[t]>> \o queue)
  /\ state' = "ok"
  /\ Goto(t, "post")
  /\ UNCHANGED <<sem, mutex, arg, fresh, delivered>>

(* a post only when the queue was empty, as with a condition variable *)
PostIfFirst(t) ==
  /\ pc[t] = "post"
  /\ sem' = IF Len(queue) = 1 THEN sem + 1 ELSE sem
  /\ arg' = [arg EXCEPT ![t] = NoElement]
  /\ Goto(t, "unlock")
  /\ UNCHANGED <<queue, state, mutex, fresh, delivered>>

(* osip_sem_post, still inside the critical section *)
Post(t) ==
  /\ pc[t] = "post"
  /\ sem' = sem + 1
  /\ arg' = [arg EXCEPT ![t] = NoElement]
  /\ Goto(t, "unlock")
  /\ UNCHANGED <<queue, state, mutex, fresh, delivered>>

-----------------------------------------------------------------------------
(* Consumers.                                                              *)

(* osip_sem_trywait; when it fails tryget returns NULL and nothing changes *)
TryWait(t) ==
  /\ pc[t] = "idle"
  /\ sem > 0
  /\ sem' = sem - 1
  /\ Goto(t, "lock_take")
  /\ UNCHANGED <<queue, state, mutex, arg, fresh, delivered>>

CallGet(t) ==
  /\ pc[t] = "idle"
  /\ Goto(t, "get")
  /\ UNCHANGED <<queue, state, sem, mutex, arg, fresh, delivered>>

(* the semaphore is looked at and not taken *)
WaitWithoutTaking(t) ==
  /\ pc[t] = "get"
  /\ sem > 0
  /\ Goto(t, "lock_take")
  /\ UNCHANGED <<queue, state, sem, mutex, arg, fresh, delivered>>

(* osip_sem_wait *)
Wait(t) ==
  /\ pc[t] = "get"
  /\ sem > 0
  /\ sem' = sem - 1
  /\ Goto(t, "lock_take")
  /\ UNCHANGED <<queue, state, mutex, arg, fresh, delivered>>

(* osip_sem_wait interrupted by a signal: get returns NULL *)
WaitInterrupted(t) ==
  /\ pc[t] = "get"
  /\ Goto(t, "idle")
  /\ UNCHANGED <<queue, state, sem, mutex, arg, fresh, delivered>>

(* the newest element first *)
TakeLast(t) ==
  /\ pc[t] = "take"
  /\ IF queue # <<>> /\ state # "empty"
       THEN /\ delivered' = Append(delivered, queue[Len(queue)])
            /\ queue' = SubSeq(queue, 1, Len(queue) - 1)
       ELSE UNCHANGED <<delivered, queue>>
  /\ state' = IF state # "empty" /\ Len(queue) > 1 THEN "ok" ELSE "empty"
  /\ Goto(t, "unlock")
  /\ UNCHANGED <<sem, mutex, arg, fresh>>

(* the critical section of get and tryget: an empty list gives NULL *)
Take(t) ==
  /\ pc[t] = "take"
  /\ IF queue # <<>> /\ state # "empty"
       THEN /\ delivered' = Append(delivered, Head(queue))
            /\ queue' = Tail(queue)
       ELSE UNCHANGED <<delivered, queue>>
  /\ state' = IF state # "empty" /\ Len(queue) > 1 THEN "ok" ELSE "empty"
  /\ Goto(t, "unlock")
  /\ UNCHANGED <<sem, mutex, arg, fresh>>

-----------------------------------------------------------------------------
Produce(t) ==
  \/ CallSize(t)
  \/ Lock(t, "lock_size", "size")
  \/ Size(t)
  \/ CallAdd(t, "lock_add")
  \/ Lock(t, "lock_add", "add")
  \/ Add(t)
  \/ CallAdd(t, "lock_insert")
  \/ Lock(t, "lock_insert", "insert")
  \/ Insert(t)
  \/ Post(t)
  \/ Unlock(t)

Consume(t) ==
  \/ TryWait(t)
  \/ CallGet(t)
  \/ Wait(t)
  \/ WaitInterrupted(t)
  \/ Lock(t, "lock_take", "take")
  \/ Take(t)
  \/ Unlock(t)

Next == \/ \E t \in Producers : Produce(t)
        \/ \E t \in Consumers : Consume(t)

Spec == Init /\ [][Next]_vars

(* A thread that entered an operation finishes it when it can (the mutex  *)
(* is not granted for ever to others), and the consumers come back: the    *)
(* loops of the stack's thread and of the application call tryget for      *)
(* ever.  Nothing forces a producer to add.                                *)
Operation(t) ==
  \/ \E l \in {"size", "add", "insert", "take"} : Lock(t, "lock_" \o l, l)
  \/ Unlock(t)

FairSpec ==
  /\ Spec
  /\ \A t \in Producers :
       /\ SF_vars(Operation(t))
       /\ WF_vars(Size(t) \/ Add(t) \/ Insert(t) \/ Post(t))
  /\ \A t \in Consumers :
       /\ SF_vars(Operation(t))
       /\ WF_vars(Take(t))
       /\ SF_vars(TryWait(t) \/ Wait(t))

-----------------------------------------------------------------------------
TypeOK ==
  /\ queue \in Seq(Elements)
  /\ state \in {"empty", "ok"}
  /\ sem \in Nat
  /\ mutex \in Threads \cup {NoThread}
  /\ pc \in [Threads -> ProducerPC \cup ConsumerPC]
  /\ \A t \in Producers : pc[t] \in ProducerPC
  /\ \A t \in Consumers : pc[t] \in ConsumerPC
  /\ arg \in [Producers -> Elements \cup {NoElement}]
  /\ \A t \in Producers : pc[t] \in {"lock_add", "add", "lock_insert", "insert"}
                            => arg[t] \in Elements
  /\ fresh \in SUBSET Elements
  /\ delivered \in Seq(Elements)

CriticalPC == {"size", "add", "insert", "post", "take", "unlock"}

(* The mutex protects the list: a thread is between lock and unlock exactly *)
(* when it owns ff->qislocked, on every path of the five operations.       *)
MutexInv == \A t \in Threads : pc[t] \in CriticalPC <=> mutex = t

Claims   == {t \in Consumers : pc[t] \in {"lock_take", "take"}}
Unposted == {t \in Producers : pc[t] = "post"}

(* The semaphore agrees with the list although it is taken outside the      *)
(* mutex: tokens, plus the consumers that hold one and have not taken an    *)
(* element, plus the producer that has not posted yet, are the elements     *)
(* (at least them, when an allocation failed and the post was made          *)
(* all the same).                                                           *)
TokenInv ==
  LET tokens == sem + Cardinality(Claims) + Cardinality(Unposted)
  IN  /\ Len(queue) <= tokens
      /\ ~AllocMayFail => Len(queue) = tokens

(* ff->state, which osip_fifo_get tests, never says `empty' of a list that  *)
(* has elements: otherwise an element would be passed over.                 *)
StateInv ==
  /\ queue # <<>> => state = "ok"
  /\ ~AllocMayFail => (state = "ok" => queue # <<>>)

(* Mutex, semaphore, flag and list agree in every interleaving. *)
Consistent == TypeOK /\ MutexInv /\ TokenInv /\ StateInv

(* The branch of osip_fifo_tryget whose comment is "this case MUST never   *)
(* happen": a semaphore token in hand and no element.                      *)
NeverEmptyHanded ==
  \A t \in Consumers : pc[t] = "take" => state # "empty"

Places(e) == {i \in 1..Len(queue) : queue[i] = e}
Uses(e)   == {i \in 1..Len(delivered) : delivered[i] = e}

Abstract == INSTANCE AbstractQueue WITH items <- queue

(* The fifo implements the abstract queue: each element leaves from the    *)
(* front and, while consumers keep asking, no element waits for ever.      *)
ImplementsQueue == Abstract!Spec

(* Nobody is left asleep in osip_sem_wait with an element in the queue: an *)
(* element added is eventually handed out.                                 *)
EveryElementDelivered ==
  \A e \in Elements : Places(e) # {} ~> Uses(e) # {}
=============================================================================
