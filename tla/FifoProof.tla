------------------------------ MODULE FifoProof ------------------------------
(***************************************************************************)
(* Proofs about osip_fifo_t, for any number of threads and elements.       *)
(***************************************************************************)
EXTENDS Fifo, FiniteSetTheorems, SequenceTheorems, TLAPS

(* The inductive invariant: what the semaphore promises needs the mutex    *)
(* (one thread at a time between the list and the post) and the types.     *)
IInv == TypeOK /\ MutexInv /\ StateInv /\ TokenInv

(* The fifo after osip_fifo_init has its types. *)
LEMMA InitTypeOK == Init => TypeOK
  BY ThreadsAssumption DEF Init, TypeOK, Threads, ProducerPC, ConsumerPC

(* Every step of every thread keeps the types. *)
LEMMA TypeStep == TypeOK /\ [Next]_vars => TypeOK'
<1> SUFFICES ASSUME TypeOK, [Next]_vars PROVE TypeOK'
  OBVIOUS
<1> USE ThreadsAssumption DEF TypeOK, Threads, ProducerPC, ConsumerPC
<1>1. ASSUME NEW t \in Producers, Produce(t) PROVE TypeOK'
  <2>1. CASE CallSize(t)
    BY <2>1 DEF CallSize, Goto
  <2>2. CASE Lock(t, "lock_size", "size")
    BY <2>2 DEF Lock, Goto
  <2>3. CASE Size(t)
    BY <2>3 DEF Size, Goto
  <2>4. CASE CallAdd(t, "lock_add")
    BY <2>4 DEF CallAdd, Goto
  <2>5. CASE Lock(t, "lock_add", "add")
    BY <2>5 DEF Lock, Goto
  <2>6. CASE Add(t)
    BY <2>6, SMTT(60) DEF Add, ListAdd, Goto
  <2>7. CASE CallAdd(t, "lock_insert")
    BY <2>7 DEF CallAdd, Goto
  <2>8. CASE Lock(t, "lock_insert", "insert")
    BY <2>8 DEF Lock, Goto
  <2>9. CASE Insert(t)
    <3>1. arg[t] \in Elements /\ <<arg[t]>> \in Seq(Elements)
      BY <2>9 DEF Insert
    <3>2. <<arg[t]>> \o queue \in Seq(Elements)
      BY <3>1, ConcatProperties
    <3>3. queue' \in Seq(Elements)
      BY <2>9, <3>2 DEF Insert, ListAdd
    <3> QED
      BY <2>9, <3>3 DEF Insert, Goto
  <2>10. CASE Post(t)
    BY <2>10 DEF Post, Goto
  <2>11. CASE Unlock(t)
    BY <2>11 DEF Unlock, Goto
  <2> QED
    BY <1>1, <2>1, <2>2, <2>3, <2>4, <2>5, <2>6, <2>7, <2>8, <2>9, <2>10, <2>11
       DEF Produce
<1>2. ASSUME NEW t \in Consumers, Consume(t) PROVE TypeOK'
  <2>1. CASE TryWait(t)
    BY <2>1 DEF TryWait, Goto
  <2>2. CASE CallGet(t)
    BY <2>2 DEF CallGet, Goto
  <2>3. CASE Wait(t)
    BY <2>3 DEF Wait, Goto
  <2>4. CASE WaitInterrupted(t)
    BY <2>4 DEF WaitInterrupted, Goto
  <2>5. CASE Lock(t, "lock_take", "take")
    BY <2>5 DEF Lock, Goto
  <2>6. CASE Take(t)
    <3>1. queue # <<>> => Head(queue) \in Elements /\ Tail(queue) \in Seq(Elements)
      BY HeadTailProperties
    <3>2. queue' \in Seq(Elements) /\ delivered' \in Seq(Elements)
      <4>1. CASE queue # <<>> /\ state # "empty"
        <5>1. queue' = Tail(queue) /\ delivered' = Append(delivered, Head(queue))
          BY <2>6, <4>1 DEF Take
        <5> QED
          BY <3>1, <4>1, <5>1
      <4>2. CASE ~(queue # <<>> /\ state # "empty")
        <5>1. UNCHANGED <<delivered, queue>>
          BY <2>6, <4>2 DEF Take
        <5> QED
          BY <5>1
      <4> QED
        BY <4>1, <4>2
    <3>3. state' \in {"empty", "ok"}
      BY <2>6 DEF Take
    <3>4. pc' = [pc EXCEPT ![t] = "unlock"] /\ UNCHANGED <<sem, mutex, arg, fresh>>
      BY <2>6 DEF Take, Goto
    <3> QED
      BY <3>2, <3>3, <3>4
  <2>7. CASE Unlock(t)
    BY <2>7 DEF Unlock, Goto
  <2> QED
    BY <1>2, <2>1, <2>2, <2>3, <2>4, <2>5, <2>6, <2>7 DEF Consume
<1>3. CASE UNCHANGED vars
  BY <1>3 DEF vars
<1> QED
  BY <1>1, <1>2, <1>3 DEF Next

(* Type correctness of the fifo, for any number of threads and elements.   *)
THEOREM TypeCorrect == Spec => []TypeOK
  BY InitTypeOK, TypeStep, PTL DEF Spec

-----------------------------------------------------------------------------
(* Mutual exclusion: a step of one thread cannot put two threads between   *)
(* osip_mutex_lock and osip_mutex_unlock.                                  *)
LEMMA MutexStep == TypeOK /\ MutexInv /\ [Next]_vars => MutexInv'
<1> SUFFICES ASSUME TypeOK, MutexInv, [Next]_vars PROVE MutexInv'
  OBVIOUS
<1> USE ThreadsAssumption DEF TypeOK, MutexInv, CriticalPC, Threads
<1>1. ASSUME NEW t \in Producers, Produce(t) PROVE MutexInv'
  BY <1>1 DEF Produce, CallSize, Lock, Size, CallAdd, Add, Insert, Post, Unlock, Goto
<1>2. ASSUME NEW t \in Consumers, Consume(t) PROVE MutexInv'
  BY <1>2 DEF Consume, TryWait, CallGet, Wait, WaitInterrupted, Lock, Take, Unlock, Goto
<1>3. CASE UNCHANGED vars
  BY <1>3 DEF vars
<1> QED
  BY <1>1, <1>2, <1>3 DEF Next

(* ff->qislocked is held by the thread that is between lock and unlock, on *)
(* every path of the five operations.                                      *)
THEOREM MutualExclusion == Spec => []MutexInv
<1>1. Init => MutexInv
  BY ThreadsAssumption DEF Init, MutexInv, CriticalPC, Threads
<1> QED
  BY <1>1, InitTypeOK, TypeStep, MutexStep, PTL DEF Spec

-----------------------------------------------------------------------------
(* The lengths that the list operations give. *)
LEMMA ListLengths ==
  ASSUME TypeOK
  PROVE  /\ Len(queue) \in Nat
         /\ Len(queue) = 0 <=> queue = <<>>
         /\ \A e \in Elements :
              /\ Len(Append(queue, e)) = Len(queue) + 1 /\ Append(queue, e) # <<>>
              /\ Len(<<e>> \o queue) = Len(queue) + 1 /\ <<e>> \o queue # <<>>
         /\ queue # <<>> => Len(Tail(queue)) = Len(queue) - 1
         /\ queue # <<>> => (Tail(queue) = <<>> <=> Len(queue) = 1)
<1>1. queue \in Seq(Elements)
  BY DEF TypeOK
<1>2. Len(queue) \in Nat /\ (Len(queue) = 0 <=> queue = <<>>)
  BY <1>1, LenProperties, EmptySeq
<1>3. ASSUME NEW e \in Elements
      PROVE  /\ Len(Append(queue, e)) = Len(queue) + 1 /\ Append(queue, e) # <<>>
             /\ Len(<<e>> \o queue) = Len(queue) + 1 /\ <<e>> \o queue # <<>>
  <2>1. <<e>> \in Seq(Elements) /\ Len(<<e>>) = 1
    OBVIOUS
  <2>2. <<e>> \o queue \in Seq(Elements) /\ Len(<<e>> \o queue) = Len(queue) + 1
    BY <1>1, <1>2, <2>1, ConcatProperties
  <2>3. <<e>> \o queue # <<>>
    BY <1>2, <2>2, EmptySeq
  <2> QED
    BY <1>1, <2>2, <2>3, AppendProperties
<1>4. ASSUME queue # <<>>
      PROVE  Len(Tail(queue)) = Len(queue) - 1 /\ (Tail(queue) = <<>> <=> Len(queue) = 1)
  <2>1. Tail(queue) \in Seq(Elements) /\ Len(Tail(queue)) = Len(queue) - 1
    BY <1>1, <1>4, HeadTailProperties
  <2>2. Tail(queue) = <<>> <=> Len(Tail(queue)) = 0
    BY <2>1, EmptySeq
  <2> QED
    BY <1>2, <2>1, <2>2
<1> QED
  BY <1>2, <1>3, <1>4

(* ff->state follows the list. *)
LEMMA StateStep == TypeOK /\ StateInv /\ [Next]_vars => StateInv'
<1> SUFFICES ASSUME TypeOK, StateInv, [Next]_vars PROVE StateInv'
  OBVIOUS
<1>1. ASSUME NEW t \in Threads,
             \/ CallSize(t) \/ Size(t) \/ Post(t) \/ Unlock(t)
             \/ TryWait(t) \/ CallGet(t) \/ Wait(t) \/ WaitInterrupted(t)
             \/ Lock(t, "lock_size", "size") \/ Lock(t, "lock_add", "add")
             \/ Lock(t, "lock_insert", "insert") \/ Lock(t, "lock_take", "take")
             \/ CallAdd(t, "lock_add") \/ CallAdd(t, "lock_insert")
      PROVE  StateInv'
  BY <1>1 DEF StateInv, CallSize, Size, Post, Unlock, TryWait, CallGet, Wait,
              WaitInterrupted, Lock, CallAdd
<1>2. ASSUME NEW t \in Producers, Add(t) \/ Insert(t) PROVE StateInv'
  <2>1. arg[t] \in Elements
    BY <1>2 DEF Add, Insert, TypeOK
  <2>2. state' = "ok" /\ (AllocMayFail \/ queue' # <<>>)
    BY <1>2, <2>1, ListLengths DEF Add, Insert, ListAdd
  <2> QED
    BY <2>2, ThreadsAssumption DEF StateInv
<1>3. ASSUME NEW t \in Consumers, Take(t) PROVE StateInv'
  <2>1. CASE queue # <<>>
    <3>1. state = "ok" /\ queue' = Tail(queue)
      BY <1>3, <2>1 DEF StateInv, Take
    <3>2. state' = IF Len(queue) > 1 THEN "ok" ELSE "empty"
      BY <1>3, <3>1 DEF Take
    <3>3. queue' # <<>> => state' = "ok"
      BY <2>1, <3>1, <3>2, ListLengths
    <3>4. state' = "ok" => queue' # <<>>
      BY <2>1, <3>1, <3>2, ListLengths
    <3> QED
      BY <3>3, <3>4, ThreadsAssumption DEF StateInv
  <2>2. CASE queue = <<>>
    <3>1. queue' = <<>>
      BY <1>3, <2>2 DEF Take
    <3>2. state' = "empty"
      BY <1>3, <2>2, ListLengths DEF Take
    <3> QED
      BY <3>1, <3>2 DEF StateInv
  <2> QED
    BY <2>1, <2>2
<1>4. CASE UNCHANGED vars
  BY <1>4 DEF vars, StateInv
<1> QED
  BY <1>1, <1>2, <1>3, <1>4 DEF Next, Produce, Consume, Threads

-----------------------------------------------------------------------------
(* The consumers that hold a token and the producers that owe one are      *)
(* finitely many.                                                          *)
LEMMA FiniteClaims ==
  /\ IsFiniteSet(Claims) /\ Cardinality(Claims) \in Nat
  /\ IsFiniteSet(Unposted) /\ Cardinality(Unposted) \in Nat
  BY ThreadsAssumption, FS_Subset, FS_CardinalityType DEF Claims, Unposted

Tokens == sem + Cardinality(Claims) + Cardinality(Unposted)

(* A step that adds to the list makes its producer owe a post, a take      *)
(* gives up a claim, and every other step keeps the sum of the tokens.     *)
LEMMA TokenStep ==
  ASSUME TypeOK, NEW t \in Threads
  PROVE  /\ t \in Producers /\ (Add(t) \/ Insert(t)) => Tokens' = Tokens + 1
         /\ t \in Producers /\ Post(t) => Tokens' = Tokens
         /\ t \in Consumers /\ (TryWait(t) \/ Wait(t)) => Tokens' = Tokens
         /\ t \in Consumers /\ Take(t) => Tokens' = Tokens - 1 /\ Tokens > 0
<1> USE ThreadsAssumption DEF TypeOK, Threads
<1>1. ASSUME t \in Producers, Add(t) \/ Insert(t) PROVE Tokens' = Tokens + 1
  <2>1. Claims' = Claims /\ sem' = sem
    BY <1>1 DEF Add, Insert, Goto, Claims
  <2>2. Unposted' = Unposted \cup {t} /\ t \notin Unposted
    BY <1>1 DEF Add, Insert, Goto, Unposted
  <2>3. Cardinality(Unposted') = Cardinality(Unposted) + 1
    BY <2>2, FiniteClaims, FS_AddElement, Zenon
  <2> QED
    BY <2>1, <2>3, FiniteClaims DEF Tokens
<1>2. ASSUME t \in Producers, Post(t) PROVE Tokens' = Tokens
  <2>1. Claims' = Claims /\ sem' = sem + 1
    BY <1>2 DEF Post, Goto, Claims
  <2>2. Unposted' = Unposted \ {t} /\ t \in Unposted
    BY <1>2 DEF Post, Goto, Unposted
  <2>3. Cardinality(Unposted') = Cardinality(Unposted) - 1
    BY <2>2, FiniteClaims, FS_RemoveElement, Zenon
  <2> QED
    BY <2>1, <2>3, FiniteClaims DEF Tokens
<1>3. ASSUME t \in Consumers, TryWait(t) \/ Wait(t) PROVE Tokens' = Tokens
  <2>1. Unposted' = Unposted /\ sem' = sem - 1
    BY <1>3 DEF TryWait, Wait, Goto, Unposted
  <2>2. Claims' = Claims \cup {t} /\ t \notin Claims
    BY <1>3 DEF TryWait, Wait, Goto, Claims
  <2>3. Cardinality(Claims') = Cardinality(Claims) + 1
    BY <2>2, FiniteClaims, FS_AddElement, Zenon
  <2> QED
    BY <2>1, <2>3, FiniteClaims DEF Tokens
<1>4. ASSUME t \in Consumers, Take(t) PROVE Tokens' = Tokens - 1 /\ Tokens > 0
  <2>1. Unposted' = Unposted /\ sem' = sem
    BY <1>4 DEF Take, Goto, Unposted
  <2>2. Claims' = Claims \ {t} /\ t \in Claims
    BY <1>4 DEF Take, Goto, Claims
  <2>3. Cardinality(Claims) > 0
    BY <2>2, FiniteClaims, FS_EmptySet
  <2>4. Cardinality(Claims') = Cardinality(Claims) - 1
    BY <2>2, FiniteClaims, FS_RemoveElement, Zenon
  <2> QED
    BY <2>1, <2>3, <2>4, FiniteClaims DEF Tokens
<1> QED
  BY <1>1, <1>2, <1>3, <1>4

(* The semaphore keeps agreeing with the list. *)
LEMMA TokenInvStep == IInv /\ [Next]_vars => TokenInv'
<1> SUFFICES ASSUME IInv, [Next]_vars PROVE TokenInv'
  OBVIOUS
<1> USE DEF IInv
<1>1. TokenInv <=> Len(queue) <= Tokens /\ (~AllocMayFail => Len(queue) = Tokens)
  BY DEF TokenInv, Tokens
<1>2. TokenInv' <=> Len(queue') <= Tokens' /\ (~AllocMayFail => Len(queue') = Tokens')
  BY DEF TokenInv, Tokens
<1>3. Len(queue) \in Nat /\ Tokens \in Int
  BY ListLengths, FiniteClaims DEF TypeOK, Tokens
<1>4. ASSUME NEW t \in Threads,
             \/ t \in Producers /\ (CallSize(t) \/ Size(t) \/ Unlock(t))
             \/ t \in Producers /\ Lock(t, "lock_size", "size")
             \/ t \in Producers /\ Lock(t, "lock_add", "add")
             \/ t \in Producers /\ Lock(t, "lock_insert", "insert")
             \/ t \in Producers /\ (CallAdd(t, "lock_add") \/ CallAdd(t, "lock_insert"))
             \/ t \in Consumers /\ (CallGet(t) \/ WaitInterrupted(t) \/ Unlock(t))
             \/ t \in Consumers /\ Lock(t, "lock_take", "take")
      PROVE  TokenInv'
  <2>1. UNCHANGED <<queue, sem>>
    BY <1>4 DEF CallSize, Size, Unlock, Lock, CallAdd, CallGet, WaitInterrupted
  <2>2. Claims' = Claims
    BY <1>4, ThreadsAssumption
       DEF CallSize, Size, Unlock, Lock, CallAdd, CallGet, WaitInterrupted, Goto,
           Claims, TypeOK, Threads
  <2>3. Unposted' = Unposted
    BY <1>4, ThreadsAssumption
       DEF CallSize, Size, Unlock, Lock, CallAdd, CallGet, WaitInterrupted, Goto,
           Unposted, TypeOK, Threads
  <2> QED
    BY <1>1, <1>2, <2>1, <2>2, <2>3 DEF Tokens
<1>5. ASSUME NEW t \in Producers, Add(t) \/ Insert(t) PROVE TokenInv'
  <2>1. arg[t] \in Elements
    BY <1>5 DEF Add, Insert, TypeOK
  <2>2. \/ Len(queue') = Len(queue) + 1
        \/ AllocMayFail /\ Len(queue') = Len(queue)
    BY <1>5, <2>1, ListLengths DEF Add, Insert, ListAdd
  <2> QED
    BY <1>1, <1>2, <1>3, <1>5, <2>2, TokenStep DEF Threads
<1>6. ASSUME NEW t \in Producers, Post(t) PROVE TokenInv'
  BY <1>1, <1>2, <1>6, TokenStep DEF Post, Threads
<1>7. ASSUME NEW t \in Consumers, TryWait(t) \/ Wait(t) PROVE TokenInv'
  BY <1>1, <1>2, <1>7, TokenStep DEF TryWait, Wait, Threads
<1>8. ASSUME NEW t \in Consumers, Take(t) PROVE TokenInv'
  <2>1. queue # <<>> => state # "empty" /\ queue' = Tail(queue)
    BY <1>8 DEF Take, StateInv
  <2>2. queue = <<>> => queue' = queue
    BY <1>8 DEF Take
  <2>3. Tokens' = Tokens - 1 /\ Tokens > 0
    BY <1>8, TokenStep DEF Threads
  <2> QED
    BY <1>1, <1>2, <1>3, <2>1, <2>2, <2>3, ListLengths
<1>9. CASE UNCHANGED vars
  BY <1>9 DEF vars, TokenInv, Claims, Unposted
<1> QED
  BY <1>4, <1>5, <1>6, <1>7, <1>8, <1>9 DEF Next, Produce, Consume, Threads

(* The inductive invariant holds. *)
LEMMA Inductive == Spec => []IInv
<1>1. Init => IInv
  <2> SUFFICES ASSUME Init PROVE IInv
    OBVIOUS
  <2>1. MutexInv /\ StateInv
    BY ThreadsAssumption DEF Init, MutexInv, StateInv, CriticalPC, Threads
  <2>2. Claims = {} /\ Unposted = {}
    BY DEF Init, Claims, Unposted, Threads
  <2>3. TokenInv
    BY <2>2, FS_EmptySet DEF Init, TokenInv
  <2> QED
    BY <2>1, <2>3, InitTypeOK DEF IInv
<1>2. IInv /\ [Next]_vars => IInv'
  BY TypeStep, MutexStep, StateStep, TokenInvStep DEF IInv
<1> QED
  BY <1>1, <1>2, PTL DEF Spec

(* The tokens of the semaphore are the elements of the list, counting the  *)
(* consumers and the producer that are on their way: no wakeup is lost.    *)
THEOREM TokensMatchElements == Spec => []TokenInv
  BY Inductive, PTL DEF IInv

(* ff->state never says `empty' of a list that has elements. *)
THEOREM StateMatchesList == Spec => []StateInv
  BY Inductive, PTL DEF IInv

(* Mutex, semaphore, flag and list agree, for any number of threads. *)
THEOREM ConsistentHolds == Spec => []Consistent
<1>1. IInv => Consistent
  BY DEF IInv, Consistent
<1> QED
  BY <1>1, Inductive, PTL

(* The branch "this case MUST never happen" of osip_fifo_tryget is dead as  *)
(* long as osip_list_add does not fail: a token in hand and the mutex held *)
(* mean that there is an element.                                          *)
THEOREM NeverEmptyHandedHolds == ~AllocMayFail => (Spec => []NeverEmptyHanded)
<1> SUFFICES ASSUME ~AllocMayFail PROVE Spec => []NeverEmptyHanded
  OBVIOUS
<1>1. IInv => NeverEmptyHanded
  <2> SUFFICES ASSUME IInv, NEW t \in Consumers, pc[t] = "take" PROVE state # "empty"
    BY DEF NeverEmptyHanded
  <2>1. Claims # {}
    BY DEF Claims
  <2>2. Cardinality(Claims) > 0
    BY <2>1, FiniteClaims, FS_EmptySet
  <2>3. Len(queue) > 0
    BY <2>2, FiniteClaims DEF IInv, TokenInv, TypeOK
  <2>4. queue # <<>>
    BY <2>3, ListLengths DEF IInv
  <2> QED
    BY <2>4 DEF IInv, StateInv
<1> QED
  BY <1>1, Inductive, PTL
-----------------------------------------------------------------------------
(* The fifo is a refinement of the abstract queue: the critical section of *)
(* osip_fifo_add is Put, that of osip_fifo_insert is PutFront, that of get *)
(* and tryget is Take, and every other step, an add whose allocation       *)
(* failed among them, changes nothing that the abstract queue shows.       *)
THEOREM RefinesQueue == Spec => Abstract!SafeSpec
<1>1. Init => Abstract!Init
  BY DEF Init, Abstract!Init
<1>2. TypeOK /\ [Next]_vars => [Abstract!Next]_(Abstract!absvars)
  <2> SUFFICES ASSUME TypeOK, [Next]_vars
               PROVE  Abstract!Next \/ UNCHANGED <<queue, delivered>>
    BY DEF Abstract!absvars
  <2>1. ASSUME NEW t \in Producers, Add(t) \/ Insert(t)
        PROVE  Abstract!Next \/ UNCHANGED <<queue, delivered>>
    <3>1. arg[t] \in Elements
      BY <2>1 DEF Add, Insert, TypeOK
    <3> QED
      BY <2>1, <3>1 DEF Add, Insert, ListAdd, Abstract!Next, Abstract!Put, Abstract!PutFront
  <2>2. ASSUME NEW t \in Consumers, Take(t)
        PROVE  Abstract!Next \/ UNCHANGED <<queue, delivered>>
    BY <2>2 DEF Take, Abstract!Next, Abstract!Take
  <2>3. ASSUME NEW t \in Threads,
               \/ CallSize(t) \/ Size(t) \/ Post(t) \/ Unlock(t)
               \/ TryWait(t) \/ CallGet(t) \/ Wait(t) \/ WaitInterrupted(t)
               \/ Lock(t, "lock_size", "size") \/ Lock(t, "lock_add", "add")
               \/ Lock(t, "lock_insert", "insert") \/ Lock(t, "lock_take", "take")
               \/ CallAdd(t, "lock_add") \/ CallAdd(t, "lock_insert")
        PROVE  UNCHANGED <<queue, delivered>>
    BY <2>3 DEF CallSize, Size, Post, Unlock, TryWait, CallGet, Wait, WaitInterrupted,
                Lock, CallAdd
  <2>4. CASE UNCHANGED vars
    BY <2>4 DEF vars
  <2> QED
    BY <2>1, <2>2, <2>3, <2>4 DEF Next, Produce, Consume, Threads
<1> QED
  BY <1>1, <1>2, TypeCorrect, PTL DEF Spec, Abstract!SafeSpec
=============================================================================
