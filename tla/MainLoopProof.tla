----------------------------- MODULE MainLoopProof -----------------------------
(***************************************************************************)
(* Proofs about the two threads of eXosip, for pipes of any size, any      *)
(* number of calls, reports and failed allocations.  No step of the proof  *)
(* needs the lock: the order in which events and bytes are written, read   *)
(* and handled is enough.  Then about the loop of the server that takes    *)
(* the events, for any requests, any number of them and any bodies.        *)
(***************************************************************************)
EXTENDS MainLoop, SipServer, SequenceTheorems, WellFoundedInduction, TLAPS

(* The events of kind k are still to be handled in this turn. *)
WillExecute(k) ==
  \/ pc \in {"read", "request", "answer", "process", "unlock", "lock", "timers"}
  \/ pc \in {"copy", "drain"} /\ \E i \in kind..4 : Order[i] = k

(* The application owes the byte of an event of kind k. *)
Owed(k) == at = "wakeup" /\ target = k

(* Every waiting event has its byte in the pipe, or is owed one, or will be *)
(* handled in this turn - or was missed by a failed copy.                  *)
WorkInv ==
  \A k \in Kinds : fifo[k] > 0 => wake > 0 \/ Owed(k) \/ WillExecute(k) \/ k \in failed

(* osip_timers_gettimeout saw the events of INVITE client transactions. *)
HurryInv ==
  pc \in {"refresh", "enter", "select"} /\ fifo["ICT"] > 0
    => hurry \/ wake > 0 \/ Owed("ICT")

(* Who came after the copy of the list left a byte, or owes one. *)
NewcomersInv ==
  /\ pc # "drain" => newcomers = 0
  /\ newcomers > 0 => wake > 0 \/ Owed(Order[kind])

KindInv == pc \notin {"copy", "drain"} => kind = 1

StackInv == WorkInv /\ HurryInv /\ NewcomersInv /\ KindInv

(* Inside eXosip_event_wait, which began with an empty fifo. *)
WaitInv ==
  /\ at \in {"poll", "read", "retransmit", "report", "signal", "sleep", "take"} => waiting
  /\ at \in {"idle", "quit", "join", "gone"} => ~waiting
  /\ at \in {"poll", "read"} /\ events > 0 => Signalled
  /\ waiting /\ at \notin {"poll", "read", "take"} /\ events > 0
       => Signalled \/ swallowed

-----------------------------------------------------------------------------
(* The flags, and the other variables. *)
Flags ==
  /\ stop \in BOOLEAN /\ hurry \in BOOLEAN /\ signalling \in BOOLEAN
  /\ waiting \in BOOLEAN /\ je \in BOOLEAN /\ swallowed \in BOOLEAN

Others ==
  /\ lock \in {"free", "stack", "app"}
  /\ fifo \in [Kinds -> Nat] /\ events \in Nat
  /\ wake \in 0..PipeMax /\ bytes \in 0..PipeMax
  /\ pc \in {"begin", "refresh", "enter", "select", "read", "request", "answer",
             "process", "unlock", "lock", "timers", "copy", "drain", "release",
             "end", "ended"}
  /\ kind \in 1..4 /\ newcomers \in Nat /\ failed \subseteq Kinds
  /\ at \in {"idle", "add", "wakeup", "report", "signal", "unlock", "poll", "read",
             "retransmit", "sleep", "take", "quit", "join", "gone"}
  /\ target \in Kinds \cup {"none"}
  /\ calls \in Nat /\ reports \in Nat /\ failures \in Nat

(* TypeOK in two parts, for two provers: Zenon is better with Booleans. *)
LEMMA TypeParts == TypeOK <=> Flags /\ Others
  BY Zenon DEF TypeOK, Flags, Others

(* The types hold initially. *)
LEMMA InitTypeOK == Init => TypeOK
<1> SUFFICES ASSUME Init PROVE TypeOK
  OBVIOUS
<1>1. Flags
  BY Zenon DEF Init, Flags
<1>2. Others
  BY MainLoopAssumption DEF Init, Others, Kinds
<1> QED
  BY <1>1, <1>2, TypeParts

(* Every step of either thread leaves flags flags. *)
LEMMA NextFlags == Flags /\ [Next]_vars => Flags'
<1> SUFFICES ASSUME Flags, [Next]_vars PROVE Flags'
  OBVIOUS
<1> USE DEF Flags
<1>1. CASE Signal
  BY <1>1 DEF Signal, Written, shared, stack, turn, app
<1>2. CASE GetTimeout
  BY <1>2 DEF GetTimeout, Step, shared, stack, turn, app
<1>3. CASE EnterSelect
  BY <1>3 DEF EnterSelect, Step, shared, stack, turn, app
<1>4. CASE WokenUp
  BY <1>4 DEF WokenUp, Drained, Step, shared, stack, turn, app
<1>5. CASE SelectReturns
  BY <1>5 DEF SelectReturns, Step, shared, stack, turn, app
<1>6. CASE ReadMessage
  BY <1>6 DEF ReadMessage, Step, Add, shared, stack, turn, app
<1>7. CASE ProcessRequest
  BY <1>7 DEF ProcessRequest, Step, Add, MayReport, QueueEvent, shared, stack,
       turn, app
<1>8. CASE ExecuteRequest
  BY <1>8 DEF ExecuteRequest, Step, Handle, MayReport, QueueEvent, shared,
       stack, turn, app
<1>9. CASE FinishRequest
  BY <1>9 DEF FinishRequest, Step, MayReport, QueueEvent, Written, shared,
       stack, turn, app
<1>10. CASE UnlockRequest
  BY <1>10 DEF UnlockRequest, Step, shared, stack, turn, app
<1>11. CASE TimersExecute
  BY <1>11 DEF TimersExecute, Step, shared, stack, turn, app
<1>12. CASE CopyList
  BY <1>12 DEF CopyList, Step, shared, stack, turn, app
<1>13. CASE CopyFails
  BY <1>13 DEF CopyFails, NextKind, Step, shared, stack, turn, app
<1>14. CASE Execute
  BY <1>14 DEF Execute, Step, Handle, MayReport, QueueEvent, shared, stack,
       turn, app
<1>15. CASE ExecuteDone
  BY <1>15 DEF ExecuteDone, NextKind, Step, shared, stack, turn, app
<1>16. CASE Release
  BY <1>16 DEF Release, Step, MayReport, QueueEvent, shared, stack, turn, app
<1>17. CASE UnlockTurn
  BY <1>17 DEF UnlockTurn, Step, shared, stack, turn, app
<1>18. CASE ThreadExit
  BY <1>18 DEF ThreadExit, Step, shared, stack, turn, app
<1>19. CASE LookAtRegistrations
  BY <1>19 DEF LookAtRegistrations, Step, shared, stack, turn, app
<1>20. CASE LockRequest
  BY <1>20 DEF LockRequest, Step, shared, stack, turn, app
<1>21. CASE LockTurn
  BY <1>21 DEF LockTurn, Step, shared, stack, turn, app
<1>22. CASE AddEvent
  BY <1>22 DEF AddEvent, AppStep, shared, stack, turn, app
<1>23. CASE Wakeup
  BY <1>23 DEF Wakeup, Written, AppStep, shared, stack, turn, app
<1>24. CASE EventWait
  BY <1>24 DEF EventWait, AppStep, shared, stack, turn, app
<1>25. CASE Poll
  BY <1>25 DEF Poll, AppStep, shared, stack, turn, app
<1>26. CASE Read
  BY <1>26 DEF Read, Drained, AppStep, shared, stack, turn, app
<1>27. CASE Report
  BY <1>27 DEF Report, QueueEvent, AppStep, shared, stack, turn, app
<1>28. CASE AppSignal
  BY <1>28 DEF AppSignal, AppStep, Written, shared, stack, turn, app
<1>29. CASE Unlock
  BY <1>29 DEF Unlock, AppStep, Return, shared, stack, turn, app
<1>30. CASE TimeOver
  BY <1>30 DEF TimeOver, AppStep, Return, shared, stack, turn, app
<1>31. CASE WokenByEvent
  BY <1>31 DEF WokenByEvent, Drained, AppStep, shared, stack, turn, app
<1>32. CASE Take
  BY <1>32 DEF Take, AppStep, Return, shared, stack, turn, app
<1>33. CASE WakeupToQuit
  BY <1>33 DEF WakeupToQuit, AppStep, Written, shared, stack, turn, app
<1>34. CASE Join
  BY <1>34 DEF Join, AppStep, shared, stack, turn, app
<1>35. CASE Retransmit
  BY <1>35 DEF Retransmit, AppStep, shared, stack, turn, app
<1>36. CASE Call
  BY <1>36 DEF Call, AppStep, shared, stack, turn, app
<1>37. CASE Quit
  BY <1>37 DEF Quit, AppStep, shared, stack, turn, app
<1>38. CASE Ended
  BY <1>38 DEF Ended, vars, shared, stack, turn, app
<1>39. CASE UNCHANGED vars
  BY <1>39 DEF vars, shared, stack, turn, app
<1> QED
  BY <1>1, <1>2, <1>3, <1>4, <1>5, <1>6, <1>7, <1>8, <1>9, <1>10,
     <1>11, <1>12, <1>13, <1>14, <1>15, <1>16, <1>17, <1>18, <1>19, <1>20,
     <1>21, <1>22, <1>23, <1>24, <1>25, <1>26, <1>27, <1>28, <1>29, <1>30,
     <1>31, <1>32, <1>33, <1>34, <1>35, <1>36, <1>37, <1>38, <1>39 DEF Next, StackRuns, StackLocks, AppRuns

(* Every step of either thread preserves the other types. *)
LEMMA NextOthers == Others /\ [Next]_vars => Others'
<1> SUFFICES ASSUME Others, [Next]_vars PROVE Others'
  OBVIOUS
<1> USE MainLoopAssumption DEF Others, Kinds
<1>1. CASE Signal
  BY <1>1 DEF Signal, Written, shared, stack, turn, app
<1>2. CASE GetTimeout
  BY <1>2 DEF GetTimeout, Step, shared, stack, turn, app
<1>3. CASE EnterSelect
  BY <1>3 DEF EnterSelect, Step, shared, stack, turn, app
<1>4. CASE WokenUp
  BY <1>4 DEF WokenUp, Drained, Step, shared, stack, turn, app
<1>5. CASE SelectReturns
  BY <1>5 DEF SelectReturns, Step, shared, stack, turn, app
<1>6. CASE ReadMessage
  BY <1>6 DEF ReadMessage, Step, Add, shared, stack, turn, app
<1>7. CASE ProcessRequest
  BY <1>7 DEF ProcessRequest, Step, Add, MayReport, QueueEvent, shared, stack,
       turn, app
<1>8. CASE ExecuteRequest
  BY <1>8 DEF ExecuteRequest, Step, Handle, MayReport, QueueEvent, shared,
       stack, turn, app
<1>9. CASE FinishRequest
  BY <1>9 DEF FinishRequest, Step, MayReport, QueueEvent, Written, shared,
       stack, turn, app
<1>10. CASE UnlockRequest
  BY <1>10 DEF UnlockRequest, Step, shared, stack, turn, app
<1>11. CASE TimersExecute
  BY <1>11 DEF TimersExecute, Step, shared, stack, turn, app
<1>12. CASE CopyList
  BY <1>12 DEF CopyList, Step, shared, stack, turn, app
<1>13. CASE CopyFails
  <2>1. Order[kind] \in Kinds
    BY DEF Order
  <2>2. failed' = failed \cup {Order[kind]}
    BY <1>13 DEF CopyFails
  <2>3. failed' \subseteq Kinds
    BY <2>1, <2>2
  <2>4. kind' \in 1..4 /\ failures' \in Nat
    BY <1>13 DEF CopyFails, NextKind, Step
  <2> QED
    BY <1>13, <2>3, <2>4 DEF CopyFails, NextKind, Step, shared, app
<1>14. CASE Execute
  BY <1>14 DEF Execute, Step, Handle, MayReport, QueueEvent, shared, stack,
       turn, app, Order
<1>15. CASE ExecuteDone
  BY <1>15 DEF ExecuteDone, NextKind, Step, shared, stack, turn, app, Order
<1>16. CASE Release
  BY <1>16 DEF Release, Step, MayReport, QueueEvent, shared, stack, turn, app
<1>17. CASE UnlockTurn
  BY <1>17 DEF UnlockTurn, Step, shared, stack, turn, app
<1>18. CASE ThreadExit
  BY <1>18 DEF ThreadExit, Step, shared, stack, turn, app
<1>19. CASE LookAtRegistrations
  BY <1>19 DEF LookAtRegistrations, Step, shared, stack, turn, app
<1>20. CASE LockRequest
  BY <1>20 DEF LockRequest, Step, shared, stack, turn, app
<1>21. CASE LockTurn
  BY <1>21 DEF LockTurn, Step, shared, stack, turn, app
<1>22. CASE AddEvent
  <2>1. fifo' = [fifo EXCEPT ![target] = @ + 1]
    BY <1>22 DEF AddEvent
  <2>2. fifo' \in [Kinds -> Nat]
    <3>1. CASE target \in Kinds
      <4>1. fifo[target] + 1 \in Nat
        BY <3>1
      <4> QED
        BY <2>1, <4>1
    <3>2. CASE target \notin Kinds
      <4>1. fifo' = fifo
        BY <2>1, <3>2
      <4> QED
        BY <4>1
    <3> QED
      BY <3>1, <3>2
  <2>3. newcomers' \in Nat
    BY <1>22 DEF AddEvent
  <2> QED
    BY <1>22, <2>2, <2>3 DEF AddEvent, AppStep
<1>23. CASE Wakeup
  BY <1>23 DEF Wakeup, Written, AppStep, shared, stack, turn, app
<1>24. CASE EventWait
  BY <1>24 DEF EventWait, AppStep, shared, stack, turn, app
<1>25. CASE Poll
  BY <1>25 DEF Poll, AppStep, shared, stack, turn, app
<1>26. CASE Read
  BY <1>26 DEF Read, Drained, AppStep, shared, stack, turn, app
<1>27. CASE Report
  BY <1>27 DEF Report, QueueEvent, AppStep, shared, stack, turn, app
<1>28. CASE AppSignal
  BY <1>28 DEF AppSignal, AppStep, Written, shared, stack, turn, app
<1>29. CASE Unlock
  BY <1>29 DEF Unlock, AppStep, Return, shared, stack, turn, app
<1>30. CASE TimeOver
  BY <1>30 DEF TimeOver, AppStep, Return, shared, stack, turn, app
<1>31. CASE WokenByEvent
  BY <1>31 DEF WokenByEvent, Drained, AppStep, shared, stack, turn, app
<1>32. CASE Take
  BY <1>32 DEF Take, AppStep, Return, shared, stack, turn, app
<1>33. CASE WakeupToQuit
  BY <1>33 DEF WakeupToQuit, AppStep, Written, shared, stack, turn, app
<1>34. CASE Join
  BY <1>34 DEF Join, AppStep, shared, stack, turn, app
<1>35. CASE Retransmit
  BY <1>35 DEF Retransmit, AppStep, shared, stack, turn, app
<1>36. CASE Call
  BY <1>36 DEF Call, AppStep, shared, stack, turn, app
<1>37. CASE Quit
  BY <1>37 DEF Quit, AppStep, shared, stack, turn, app
<1>38. CASE Ended
  BY <1>38 DEF Ended, vars, shared, stack, turn, app
<1>39. CASE UNCHANGED vars
  BY <1>39 DEF vars, shared, stack, turn, app
<1> QED
  BY <1>1, <1>2, <1>3, <1>4, <1>5, <1>6, <1>7, <1>8, <1>9, <1>10,
     <1>11, <1>12, <1>13, <1>14, <1>15, <1>16, <1>17, <1>18, <1>19, <1>20,
     <1>21, <1>22, <1>23, <1>24, <1>25, <1>26, <1>27, <1>28, <1>29, <1>30,
     <1>31, <1>32, <1>33, <1>34, <1>35, <1>36, <1>37, <1>38, <1>39 DEF Next, StackRuns, StackLocks, AppRuns

(* Every step of either thread preserves the types. *)
LEMMA NextTypeOK == TypeOK /\ [Next]_vars => TypeOK'
<1> SUFFICES ASSUME TypeOK, [Next]_vars PROVE TypeOK'
  OBVIOUS
<1>1. Flags' /\ Others'
  BY TypeParts, NextFlags, NextOthers
<1> QED
  BY <1>1, TypeParts, PTL

(* The types hold in every reachable state. *)
THEOREM MainLoopTypeOK == Spec => []TypeOK
  BY InitTypeOK, NextTypeOK, PTL DEF Spec

-----------------------------------------------------------------------------
(* No event waits for anything yet. *)
LEMMA InitStackInv == Init => StackInv
  BY DEF Init, StackInv, WorkInv, HurryInv, NewcomersInv, KindInv, Kinds

(* Every step keeps track of where the waiting events will be seen. *)
LEMMA NextStackInv == TypeOK /\ StackInv /\ [Next]_vars => StackInv'
<1> SUFFICES ASSUME TypeOK, StackInv, [Next]_vars PROVE StackInv'
  OBVIOUS
<1> USE MainLoopAssumption DEF TypeOK, Kinds, StackInv, WorkInv, HurryInv, NewcomersInv,
        KindInv, Owed, WillExecute, Order
<1>1. CASE Signal
  BY <1>1 DEF Signal, Written, shared, stack, turn, app
<1>2. CASE GetTimeout
  BY <1>2 DEF GetTimeout, Step, shared, stack, turn, app
<1>3. CASE EnterSelect
  BY <1>3 DEF EnterSelect, Step, shared, stack, turn, app
<1>4. CASE WokenUp
  BY <1>4 DEF WokenUp, Drained, Step, shared, stack, turn, app
<1>5. CASE SelectReturns
  BY <1>5 DEF SelectReturns, Step, shared, stack, turn, app
<1>6. CASE ReadMessage
  BY <1>6 DEF ReadMessage, Step, Add, shared, stack, turn, app
<1>7. CASE ProcessRequest
  BY <1>7 DEF ProcessRequest, Step, Add, MayReport, QueueEvent, shared, stack,
       turn, app
<1>8. CASE ExecuteRequest
  BY <1>8 DEF ExecuteRequest, Step, Handle, MayReport, QueueEvent, shared,
       stack, turn, app
<1>9. CASE FinishRequest
  BY <1>9 DEF FinishRequest, Step, MayReport, QueueEvent, Written, shared,
       stack, turn, app
<1>10. CASE UnlockRequest
  BY <1>10 DEF UnlockRequest, Step, shared, stack, turn, app
<1>11. CASE TimersExecute
  BY <1>11 DEF TimersExecute, Step, shared, stack, turn, app
<1>12. CASE CopyList
  BY <1>12 DEF CopyList, Step, shared, stack, turn, app
<1>13. CASE CopyFails
  BY <1>13 DEF CopyFails, NextKind, Step, shared, stack, turn, app
<1>14. CASE Execute
  BY <1>14 DEF Execute, Step, Handle, MayReport, QueueEvent, shared, stack,
       turn, app
<1>15. CASE ExecuteDone
  BY <1>15 DEF ExecuteDone, NextKind, Step, shared, stack, turn, app
<1>16. CASE Release
  BY <1>16 DEF Release, Step, MayReport, QueueEvent, shared, stack, turn, app
<1>17. CASE UnlockTurn
  BY <1>17 DEF UnlockTurn, Step, shared, stack, turn, app
<1>18. CASE ThreadExit
  BY <1>18 DEF ThreadExit, Step, shared, stack, turn, app
<1>19. CASE LookAtRegistrations
  BY <1>19 DEF LookAtRegistrations, Step, shared, stack, turn, app
<1>20. CASE LockRequest
  BY <1>20 DEF LockRequest, Step, shared, stack, turn, app
<1>21. CASE LockTurn
  BY <1>21 DEF LockTurn, Step, shared, stack, turn, app
<1>22. CASE AddEvent
  BY <1>22 DEF AddEvent, AppStep, shared, stack, turn, app
<1>23. CASE Wakeup
  BY <1>23 DEF Wakeup, Written, AppStep, shared, stack, turn, app
<1>24. CASE EventWait
  BY <1>24 DEF EventWait, AppStep, shared, stack, turn, app
<1>25. CASE Poll
  BY <1>25 DEF Poll, AppStep, shared, stack, turn, app
<1>26. CASE Read
  BY <1>26 DEF Read, Drained, AppStep, shared, stack, turn, app
<1>27. CASE Report
  BY <1>27 DEF Report, QueueEvent, AppStep, shared, stack, turn, app
<1>28. CASE AppSignal
  BY <1>28 DEF AppSignal, AppStep, Written, shared, stack, turn, app
<1>29. CASE Unlock
  BY <1>29 DEF Unlock, AppStep, Return, shared, stack, turn, app
<1>30. CASE TimeOver
  BY <1>30 DEF TimeOver, AppStep, Return, shared, stack, turn, app
<1>31. CASE WokenByEvent
  BY <1>31 DEF WokenByEvent, Drained, AppStep, shared, stack, turn, app
<1>32. CASE Take
  BY <1>32 DEF Take, AppStep, Return, shared, stack, turn, app
<1>33. CASE WakeupToQuit
  BY <1>33 DEF WakeupToQuit, AppStep, Written, shared, stack, turn, app
<1>34. CASE Join
  BY <1>34 DEF Join, AppStep, shared, stack, turn, app
<1>35. CASE Retransmit
  BY <1>35 DEF Retransmit, AppStep, shared, stack, turn, app
<1>36. CASE Call
  BY <1>36 DEF Call, AppStep, shared, stack, turn, app
<1>37. CASE Quit
  BY <1>37 DEF Quit, AppStep, shared, stack, turn, app
<1>38. CASE Ended
  BY <1>38 DEF Ended, vars, shared, stack, turn, app
<1>39. CASE UNCHANGED vars
  BY <1>39 DEF vars, shared, stack, turn, app
<1> QED
  BY <1>1, <1>2, <1>3, <1>4, <1>5, <1>6, <1>7, <1>8, <1>9, <1>10,
     <1>11, <1>12, <1>13, <1>14, <1>15, <1>16, <1>17, <1>18, <1>19, <1>20,
     <1>21, <1>22, <1>23, <1>24, <1>25, <1>26, <1>27, <1>28, <1>29, <1>30,
     <1>31, <1>32, <1>33, <1>34, <1>35, <1>36, <1>37, <1>38, <1>39 DEF Next, StackRuns, StackLocks, AppRuns

(* A sleeping thread is past the part of its turn that handles events, and *)
(* of a failed copy only the INVITE client transactions are remembered.    *)
LEMMA StackInvMeans == TypeOK /\ StackInv => NoForgottenWork
  BY DEF TypeOK, StackInv, WorkInv, HurryInv, NoForgottenWork, Asleep, Owed, WillExecute, Kinds

(* No lost wake-up of the stack's thread. *)
THEOREM MainLoopNoForgottenWork == Spec => []NoForgottenWork
<1>1. Init => TypeOK /\ StackInv
  BY InitTypeOK, InitStackInv
<1>2. TypeOK /\ StackInv /\ [Next]_vars => (TypeOK /\ StackInv)'
  BY NextTypeOK, NextStackInv
<1> QED
  BY <1>1, <1>2, StackInvMeans, PTL DEF Spec

-----------------------------------------------------------------------------
(* The application is outside eXosip_event_wait. *)
LEMMA InitWaitInv == Init => WaitInv
  BY DEF Init, WaitInv

(* Every step keeps the events that came during the call signalled.        *)
LEMMA NextWaitInv == TypeOK /\ WaitInv /\ [Next]_vars => WaitInv'
<1> SUFFICES ASSUME TypeOK, WaitInv, [Next]_vars PROVE WaitInv'
  OBVIOUS
<1> USE MainLoopAssumption DEF TypeOK, WaitInv, Signalled
<1>1. CASE Signal
  BY <1>1 DEF Signal, Written, shared, stack, turn, app
<1>2. CASE GetTimeout
  BY <1>2 DEF GetTimeout, Step, shared, stack, turn, app
<1>3. CASE EnterSelect
  BY <1>3 DEF EnterSelect, Step, shared, stack, turn, app
<1>4. CASE WokenUp
  BY <1>4 DEF WokenUp, Drained, Step, shared, stack, turn, app
<1>5. CASE SelectReturns
  BY <1>5 DEF SelectReturns, Step, shared, stack, turn, app
<1>6. CASE ReadMessage
  BY <1>6 DEF ReadMessage, Step, Add, shared, stack, turn, app
<1>7. CASE ProcessRequest
  BY <1>7 DEF ProcessRequest, Step, Add, MayReport, QueueEvent, shared, stack,
       turn, app
<1>8. CASE ExecuteRequest
  BY <1>8 DEF ExecuteRequest, Step, Handle, MayReport, QueueEvent, shared,
       stack, turn, app
<1>9. CASE FinishRequest
  BY <1>9 DEF FinishRequest, Step, MayReport, QueueEvent, Written, shared,
       stack, turn, app
<1>10. CASE UnlockRequest
  BY <1>10 DEF UnlockRequest, Step, shared, stack, turn, app
<1>11. CASE TimersExecute
  BY <1>11 DEF TimersExecute, Step, shared, stack, turn, app
<1>12. CASE CopyList
  BY <1>12 DEF CopyList, Step, shared, stack, turn, app
<1>13. CASE CopyFails
  BY <1>13 DEF CopyFails, NextKind, Step, shared, stack, turn, app
<1>14. CASE Execute
  BY <1>14 DEF Execute, Step, Handle, MayReport, QueueEvent, shared, stack,
       turn, app
<1>15. CASE ExecuteDone
  BY <1>15 DEF ExecuteDone, NextKind, Step, shared, stack, turn, app
<1>16. CASE Release
  BY <1>16 DEF Release, Step, MayReport, QueueEvent, shared, stack, turn, app
<1>17. CASE UnlockTurn
  BY <1>17 DEF UnlockTurn, Step, shared, stack, turn, app
<1>18. CASE ThreadExit
  BY <1>18 DEF ThreadExit, Step, shared, stack, turn, app
<1>19. CASE LookAtRegistrations
  BY <1>19 DEF LookAtRegistrations, Step, shared, stack, turn, app
<1>20. CASE LockRequest
  BY <1>20 DEF LockRequest, Step, shared, stack, turn, app
<1>21. CASE LockTurn
  BY <1>21 DEF LockTurn, Step, shared, stack, turn, app
<1>22. CASE AddEvent
  BY <1>22 DEF AddEvent, AppStep, shared, stack, turn, app
<1>23. CASE Wakeup
  BY <1>23 DEF Wakeup, Written, AppStep, shared, stack, turn, app
<1>24. CASE EventWait
  BY <1>24 DEF EventWait, AppStep, shared, stack, turn, app
<1>25. CASE Poll
  BY <1>25 DEF Poll, AppStep, shared, stack, turn, app
<1>26. CASE Read
  BY <1>26 DEF Read, Drained, AppStep, shared, stack, turn, app
<1>27. CASE Report
  BY <1>27 DEF Report, QueueEvent, AppStep, shared, stack, turn, app
<1>28. CASE AppSignal
  BY <1>28 DEF AppSignal, AppStep, Written, shared, stack, turn, app
<1>29. CASE Unlock
  BY <1>29 DEF Unlock, AppStep, Return, shared, stack, turn, app
<1>30. CASE TimeOver
  BY <1>30 DEF TimeOver, AppStep, Return, shared, stack, turn, app
<1>31. CASE WokenByEvent
  BY <1>31 DEF WokenByEvent, Drained, AppStep, shared, stack, turn, app
<1>32. CASE Take
  BY <1>32 DEF Take, AppStep, Return, shared, stack, turn, app
<1>33. CASE WakeupToQuit
  BY <1>33 DEF WakeupToQuit, AppStep, Written, shared, stack, turn, app
<1>34. CASE Join
  BY <1>34 DEF Join, AppStep, shared, stack, turn, app
<1>35. CASE Retransmit
  BY <1>35 DEF Retransmit, AppStep, shared, stack, turn, app
<1>36. CASE Call
  BY <1>36 DEF Call, AppStep, shared, stack, turn, app
<1>37. CASE Quit
  BY <1>37 DEF Quit, AppStep, shared, stack, turn, app
<1>38. CASE Ended
  BY <1>38 DEF Ended, vars, shared, stack, turn, app
<1>39. CASE UNCHANGED vars
  BY <1>39 DEF vars, shared, stack, turn, app
<1> QED
  BY <1>1, <1>2, <1>3, <1>4, <1>5, <1>6, <1>7, <1>8, <1>9, <1>10,
     <1>11, <1>12, <1>13, <1>14, <1>15, <1>16, <1>17, <1>18, <1>19, <1>20,
     <1>21, <1>22, <1>23, <1>24, <1>25, <1>26, <1>27, <1>28, <1>29, <1>30,
     <1>31, <1>32, <1>33, <1>34, <1>35, <1>36, <1>37, <1>38, <1>39 DEF Next, StackRuns, StackLocks, AppRuns

(* The application sleeps only next to events whose byte it swallowed, and *)
(* a read that blocks ends with the first event.                           *)
THEOREM MainLoopNoEventMissed == Spec => []NoEventMissed
<1>1. Init => TypeOK /\ WaitInv
  BY InitTypeOK, InitWaitInv
<1>2. TypeOK /\ WaitInv /\ [Next]_vars => (TypeOK /\ WaitInv)'
  BY NextTypeOK, NextWaitInv
<1>3. TypeOK /\ WaitInv => NoEventMissed
  BY DEF TypeOK, WaitInv, NoEventMissed
<1> QED
  BY <1>1, <1>2, <1>3, PTL DEF Spec

-----------------------------------------------------------------------------
(* The loop of the server: the types of its state.                         *)
SrvMethods  == {"MESSAGE", "REGISTER", "SUBSCRIBE", "INVITE", "OPTIONS"}
SrvBodies   == {input.body : input \in SrvInputs}
SrvKinds    == {"absent", "garbage"} \cup
               {SrvNames(body) : body \in {b \in SrvBodies : SrvTyped(b) # {}}}
SrvSdps     == {{}} \cup {SrvEntry(type, body).body :
                          type \in SrvKinds, body \in {b \in SrvBodies : SrvMedias(b) # <<>>}}
SrvRequests ==
  [method : SrvMethods, body : SrvBodies, status : {"arrived", "announced", "queued", "answered"},
   answer : {0, 180, 200}, sdp : SrvSdps]
SrvStates ==
  [requests : Seq(SrvRequests), events : Seq(Nat), lock : {"free", "server"},
   pc : {"wait", "handle", "locked"}, now : Nat, type : SrvKinds, crashed : BOOLEAN]

(* The request that is handled was announced; only a handler that took the *)
(* lock has it, and only one of a request that may have a type or of an    *)
(* INVITE crashes.                                                         *)
SrvHandled ==
  /\ srv.now = 0 <=> srv.pc = "wait"
  /\ srv.now # 0 => /\ srv.now \in DOMAIN srv.requests
                    /\ ~srv.crashed => SrvRequest(srv).status = "announced"
  /\ srv.pc = "handle" => srv.lock = "free"
  /\ srv.pc = "locked" => srv.lock = "server" /\ SrvRequest(srv).method \in {"SUBSCRIBE", "INVITE"}
  /\ srv.crashed => srv.now # 0 /\ SrvRequest(srv).method # "OPTIONS"

(* The events are requests that were announced, each once, and not that    *)
(* which is handled.                                                       *)
SrvEventsOnce ==
  /\ \A i \in DOMAIN srv.events :
       /\ srv.events[i] \in DOMAIN srv.requests /\ srv.events[i] # srv.now
       /\ srv.requests[srv.events[i]].status = "announced"
  /\ \A i, j \in DOMAIN srv.events : srv.events[i] = srv.events[j] => i = j

SrvUnanswered ==
  \A r \in DOMAIN srv.requests :
    srv.requests[r].status \in {"arrived", "announced"} => srv.requests[r].answer = 0

SrvInv ==
  /\ srv \in SrvStates /\ SrvHandled /\ SrvEventsOnce /\ SrvUnanswered
  /\ SrvAnswersWhatIsAsked /\ SrvStopsOnlyFor

-----------------------------------------------------------------------------
(* The functions of the table name their own type, but for info_query.     *)
SrvGoodPairs(type, pairs) ==
  \A pair \in pairs :
    pair[1] = "type" => pair[2] = (IF type = "info_query" THEN "<info_modify>" ELSE type)

(* What a function of the table gives is its pairs or nothing.             *)
LEMMA SrvAnsweringPairs ==
  ASSUME NEW type, NEW ok, NEW pairs, SrvGoodPairs(type, pairs)
  PROVE  SrvGoodPairs(type, SrvAnswering(ok, pairs).body)
<1>1. SrvAnswering(ok, pairs).body = IF ok THEN pairs ELSE {}
  BY DEF SrvAnswering
<1>2. SrvGoodPairs(type, {})
  BY DEF SrvGoodPairs
<1>3. SrvAnswering(ok, pairs).body = pairs \/ SrvAnswering(ok, pairs).body = {}
  BY <1>1, Zenon
<1> QED
  BY <1>2, <1>3

(* Whatever the type, what its function gives names that type.             *)
LEMMA SrvHandlesType ==
  ASSUME NEW type, NEW a  PROVE SrvGoodPairs(type, HANDLE_REQUEST(type, a).body)
<1> DEFINE h == HANDLE_REQUEST(type, a)
<1>0. SrvGoodPairs(type, {})
  BY DEF SrvGoodPairs
<1>a. \A ok : SrvGoodPairs(type, SrvAgreed(ok).body)
  BY <1>0, SrvAnsweringPairs DEF SrvAgreed
<1>1. CASE type = "reg"
  <2>1. SrvGoodPairs(type, {<<"phonenum", "XXXXXXXXXX">>, <<"alloc", "TEMCA">>,
                <<"cache", "100033 011 email length time">>, <<"route", "<ID@HOST>">>,
                <<"user_type", "normal">>})
    <3>1. ASSUME NEW pair \in {<<"phonenum", "XXXXXXXXXX">>, <<"alloc", "TEMCA">>,
                <<"cache", "100033 011 email length time">>, <<"route", "<ID@HOST>">>,
                <<"user_type", "normal">>}
          PROVE  pair[1] # "type"
      <4>1. \A x, y : <<x, y>>[1] = x
        OBVIOUS
      <4>2. pair[1] \in {"phonenum", "alloc", "cache", "route", "user_type"}
        BY <3>1, <4>1, Zenon
      <4> QED
        BY <4>2
    <3> QED
      BY <3>1, Zenon DEF SrvGoodPairs
  <2>2. h = register_reg_func(a)
    BY <1>1 DEF HANDLE_REQUEST, SrvInviteTypes
  <2> QED
    BY <2>1, <2>2, SrvAnsweringPairs DEF register_reg_func
<1>2. CASE type = "route_update"
  <2>1. SrvGoodPairs(type, {<<"type", "route_update">>})
    BY <1>2 DEF SrvGoodPairs
  <2>2. h = message_route_update_func(a)
    BY <1>2 DEF HANDLE_REQUEST, SrvInviteTypes
  <2> QED
    BY <2>1, <2>2, SrvAnsweringPairs DEF message_route_update_func
<1>3. CASE type = "service_verify"
  <2>1. SrvGoodPairs(type, {<<"type", "service_verify">>, <<"status", "online">>, <<"result", "ok">>})
    BY <1>3 DEF SrvGoodPairs
  <2>2. h = message_service_verify_func(a)
    BY <1>3 DEF HANDLE_REQUEST, SrvInviteTypes
  <2> QED
    BY <2>1, <2>2, SrvAnsweringPairs DEF message_service_verify_func
<1>4. CASE type = "info_modify"
  <2>1. SrvGoodPairs(type, {<<"type", "info_modify">>, <<"result", "ok">>})
    BY <1>4 DEF SrvGoodPairs
  <2>2. h = message_info_modify_func(a)
    BY <1>4 DEF HANDLE_REQUEST, SrvInviteTypes
  <2> QED
    BY <2>1, <2>2, SrvAnsweringPairs DEF message_info_modify_func
<1>5. CASE type = "status_update"
  <2>1. SrvGoodPairs(type, {<<"type", "status_update">>, <<"status", "online">>})
    BY <1>5 DEF SrvGoodPairs
  <2>2. h = message_status_update_func(a)
    BY <1>5 DEF HANDLE_REQUEST, SrvInviteTypes
  <2> QED
    BY <2>1, <2>2, SrvAnsweringPairs DEF message_status_update_func
<1>6. CASE type = "info_query"
  <2>1. SrvGoodPairs(type, {<<"type", "<info_modify>">>, <<"result", "ok">>})
    BY <1>6 DEF SrvGoodPairs
  <2>2. h = message_info_query_func(a)
    BY <1>6 DEF HANDLE_REQUEST, SrvInviteTypes
  <2> QED
    BY <2>1, <2>2, SrvAnsweringPairs DEF message_info_query_func
<1>7. CASE type \notin {"reg", "route_update", "service_verify", "info_modify",
                        "status_update", "info_query"}
  <2>1. CASE type \in SrvInviteTypes \cup {"dereg", "status_subscribe", "route_del",
                                           "phone_access", "link_detech", "heart_beat"}
    <3>1. h = SrvAgreed(TRUE)
      BY <2>1 DEF HANDLE_REQUEST, SrvInviteTypes, register_dereg_func, invite_func,
         subscribe_status_subscribe_func, message_route_del_func, message_phone_access_func,
         message_link_detech_func, message_heart_beat_func
    <3> QED
      BY <3>1, <1>a
  <2>2. CASE type \in {"mp_reg", "mp_dereg"}
    <3>1. h = SrvAgreed({"phonenum", "password"} \subseteq a)
      BY <2>2 DEF HANDLE_REQUEST, SrvInviteTypes, message_mp_reg_func, message_mp_dereg_func
    <3> QED
      BY <3>1, <1>a
  <2>3. CASE type \in {"cache_notify", "cache_obtain", "obtain_notify", "cache_del"}
    <3>1. h = SrvAgreed("cache" \in a)
      BY <2>3 DEF HANDLE_REQUEST, SrvInviteTypes, message_cache_notify_func,
         message_cache_obtain_func, message_obtain_notify_func, message_cache_del_func
    <3> QED
      BY <3>1, <1>a
  <2>4. CASE type \notin SrvInviteTypes \cup
               {"dereg", "status_subscribe", "route_del", "phone_access", "link_detech",
                "heart_beat", "mp_reg", "mp_dereg", "cache_notify", "cache_obtain",
                "obtain_notify", "cache_del"}
    <3>1. h = SrvAgreed(FALSE)
      BY <2>4, <1>7 DEF HANDLE_REQUEST
    <3> QED
      BY <3>1, <1>a
  <2> QED
    BY <2>1, <2>2, <2>3, <2>4
<1> QED
  BY <1>1, <1>2, <1>3, <1>4, <1>5, <1>6, <1>7

(* So does the entry of a body, whatever the name of its media.            *)
LEMMA SrvEntryPairs ==
  ASSUME NEW type, NEW body  PROVE SrvGoodPairs(type, SrvEntry(type, body).body)
<1>1. SrvGoodPairs(type, SrvAgreed(FALSE).body)
  <2>1. SrvGoodPairs(type, {})
    BY DEF SrvGoodPairs
  <2> QED
    BY <2>1, SrvAnsweringPairs DEF SrvAgreed
<1> QED
  BY <1>1, SrvHandlesType DEF SrvEntry

-----------------------------------------------------------------------------
(* What the handlers make of the state, one field after the other.         *)
SrvState(requests, queue, held, place, now, type, crashed) ==
  [requests |-> requests, events |-> queue, lock |-> held, pc |-> place, now |-> now,
   type |-> type, crashed |-> crashed]
SrvAnswer(q, code, sdp) ==
  [method |-> q.method, body |-> q.body, status |-> "queued", answer |-> code, sdp |-> sdp]
SrvTagged(q, status) ==
  [method |-> q.method, body |-> q.body, status |-> status, answer |-> q.answer, sdp |-> q.sdp]
SrvPut(r, q) == [srv.requests EXCEPT ![r] = q]

(* The fields of a state, and the types of each.                           *)
LEMMA SrvFields ==
  ASSUME srv \in SrvStates
  PROVE  /\ srv = SrvState(srv.requests, srv.events, srv.lock, srv.pc, srv.now, srv.type, srv.crashed)
         /\ srv.requests \in Seq(SrvRequests) /\ srv.events \in Seq(Nat)
         /\ srv.lock \in {"free", "server"} /\ srv.pc \in {"wait", "handle", "locked"}
         /\ srv.now \in Nat /\ srv.type \in SrvKinds /\ srv.crashed \in BOOLEAN
         /\ DOMAIN srv.requests = 1..Len(srv.requests) /\ Len(srv.requests) \in Nat
         /\ \A r \in DOMAIN srv.requests : srv.requests[r] \in SrvRequests
BY DEF SrvStates, SrvState

(* The fields of a request.                                                *)
LEMMA SrvRequestFields ==
  ASSUME NEW q \in SrvRequests
  PROVE  /\ q = [method |-> q.method, body |-> q.body, status |-> q.status, answer |-> q.answer,
                 sdp |-> q.sdp]
         /\ q.method \in SrvMethods /\ q.body \in SrvBodies /\ q.answer \in {0, 180, 200}
         /\ q.sdp \in SrvSdps /\ q.status \in {"arrived", "announced", "queued", "answered"}
BY DEF SrvRequests

(* What is queued for a request.                                           *)
LEMMA SrvAnswerIs ==
  ASSUME NEW q \in SrvRequests, NEW code, NEW sdp
  PROVE  [q EXCEPT !.status = "queued", !.answer = code, !.sdp = sdp] = SrvAnswer(q, code, sdp)
<1>1. PICK p : p = [q EXCEPT !.status = "queued", !.answer = code, !.sdp = sdp]
  OBVIOUS
<1>2. q = [method |-> q.method, body |-> q.body, status |-> q.status, answer |-> q.answer,
           sdp |-> q.sdp]
  BY SrvRequestFields
<1>3. p = SrvAnswer(q, code, sdp)
  BY <1>1, <1>2 DEF SrvAnswer
<1> QED
  BY <1>1, <1>3

(* The state when an answer was queued for the request that is handled.    *)
LEMMA SrvQueueIs ==
  ASSUME srv \in SrvStates, srv.now \in DOMAIN srv.requests, NEW type, NEW code, NEW sdp
  PROVE  SrvQueue([srv EXCEPT !.type = type], code, sdp) =
           SrvState(SrvPut(srv.now, SrvAnswer(SrvRequest(srv), code, sdp)), srv.events, srv.lock,
                    srv.pc, srv.now, type, srv.crashed)
<1> DEFINE q == SrvRequest(srv)
<1>1. q \in SrvRequests /\ q = srv.requests[srv.now]
  BY SrvFields DEF SrvRequest
<1>2. [q EXCEPT !.status = "queued", !.answer = code, !.sdp = sdp] = SrvAnswer(q, code, sdp)
  BY <1>1, SrvAnswerIs
<1>3. PICK s : s = [srv EXCEPT !.type = type]
  OBVIOUS
<1>4. /\ s = SrvState(srv.requests, srv.events, srv.lock, srv.pc, srv.now, type, srv.crashed)
      /\ s.requests = srv.requests /\ s.now = srv.now
  BY <1>3, SrvFields DEF SrvState
<1>5. SrvQueue(s, code, sdp) =
        [s EXCEPT !.requests = [@ EXCEPT ![srv.now] = SrvAnswer(q, code, sdp)]]
  BY <1>1, <1>2, <1>4 DEF SrvQueue
<1> QED
  BY <1>3, <1>4, <1>5, ZenonT(60) DEF SrvState, SrvPut

(* The state after a crash.                                                *)
LEMMA SrvCrashIs ==
  ASSUME NEW requests, NEW queue, NEW held, NEW place, NEW now, NEW type, NEW crashed
  PROVE  SrvCrash(SrvState(requests, queue, held, place, now, type, crashed)) =
           SrvState(requests, queue, held, place, now, type, TRUE)
<1>1. PICK s, u : s = SrvState(requests, queue, held, place, now, type, crashed)
                  /\ u = [s EXCEPT !.crashed = TRUE]
  OBVIOUS
<1>2. u = SrvState(requests, queue, held, place, now, type, TRUE)
  BY <1>1 DEF SrvState
<1> QED
  BY <1>1, <1>2, Zenon DEF SrvCrash

(* The requests when one of them got another record.                       *)
LEMMA SrvPutFacts ==
  ASSUME srv \in SrvStates, NEW r \in DOMAIN srv.requests, NEW q \in SrvRequests
  PROVE  /\ SrvPut(r, q) \in Seq(SrvRequests) /\ DOMAIN SrvPut(r, q) = DOMAIN srv.requests
         /\ SrvPut(r, q)[r] = q
         /\ \A p \in DOMAIN srv.requests : p # r => SrvPut(r, q)[p] = srv.requests[p]
BY SrvFields DEF SrvPut

(* The types of the next state.                                            *)
LEMMA SrvStateType ==
  ASSUME NEW requests \in Seq(SrvRequests), NEW queue \in Seq(Nat), NEW held \in {"free", "server"},
         NEW place \in {"wait", "handle", "locked"}, NEW now \in Nat, NEW type \in SrvKinds,
         NEW crashed \in BOOLEAN,
         srv' = SrvState(requests, queue, held, place, now, type, crashed)
  PROVE  srv' \in SrvStates
BY DEF SrvState, SrvStates

(* The request that is handled was announced and has no answer, and no     *)
(* event of it waits.                                                      *)
LEMMA SrvUnderWay ==
  ASSUME SrvInv, ~srv.crashed, srv.pc # "wait"
  PROVE  /\ srv.now \in DOMAIN srv.requests /\ srv.now # 0
         /\ SrvRequest(srv) = srv.requests[srv.now]
         /\ SrvRequest(srv).status = "announced" /\ SrvRequest(srv).answer = 0
         /\ 0 \notin DOMAIN srv.requests
         /\ \A i \in DOMAIN srv.events : srv.events[i] # srv.now
<1>1. SrvHandled /\ SrvUnanswered /\ SrvEventsOnce /\ srv \in SrvStates
  BY DEF SrvInv
<1>2. /\ srv.now \in DOMAIN srv.requests /\ srv.now # 0
      /\ srv.requests[srv.now].status = "announced"
  BY <1>1, Zenon DEF SrvHandled, SrvRequest
<1>3. srv.requests[srv.now].answer = 0
  BY <1>1, <1>2 DEF SrvUnanswered
<1>4. 0 \notin DOMAIN srv.requests
  BY <1>1, SrvFields
<1>5. \A i \in DOMAIN srv.events : srv.events[i] # srv.now
  BY <1>1, Zenon DEF SrvEventsOnce
<1> QED
  BY <1>2, <1>3, <1>4, <1>5, Zenon DEF SrvRequest

(* A request that is refused or dropped is handled; who answered none has  *)
(* to have had a reason, and who keeps the lock refused a SUBSCRIBE.       *)
LEMMA SrvForgotten ==
  ASSUME SrvInv, ~srv.crashed, srv.pc # "wait",
         NEW type \in SrvKinds, NEW held \in {"free", "server"},
         SrvRequest(srv).method \in {"MESSAGE", "SUBSCRIBE"} =>
           ~SrvServed(SrvRequest(srv).body),
         held = "server" => SrvRequest(srv).method = "SUBSCRIBE",
         srv' = SrvState(srv.requests, srv.events, held, "wait", 0, type, FALSE)
  PROVE  SrvInv'
<1> DEFINE q == SrvRequest(srv)
<1>1. /\ srv'.requests = srv.requests /\ srv'.events = srv.events /\ srv'.lock = held
      /\ srv'.pc = "wait" /\ srv'.now = 0 /\ srv'.crashed = FALSE
  BY DEF SrvState
<1>2. srv' \in SrvStates
  BY SrvFields, SrvStateType DEF SrvInv
<1>3. /\ srv.now \in DOMAIN srv.requests /\ srv.now # 0 /\ q = srv.requests[srv.now]
      /\ q.status = "announced" /\ q.answer = 0 /\ 0 \notin DOMAIN srv.requests
      /\ \A i \in DOMAIN srv.events : srv.events[i] # srv.now
  BY SrvUnderWay
<1>4. SrvHandled'
  BY <1>1 DEF SrvHandled
<1>5. SrvEventsOnce'
  <2>1. SrvEventsOnce
    BY DEF SrvInv
  <2>2. \A i \in DOMAIN srv.events : srv.events[i] # 0
    BY <2>1, <1>3, Zenon DEF SrvEventsOnce
  <2>3. srv'.events = srv.events /\ srv'.requests = srv.requests /\ srv'.now = 0
    BY <1>1
  <2>4. ASSUME NEW i \in DOMAIN srv'.events PROVE srv'.events[i] \in DOMAIN srv'.requests /\ srv'.events[i] # srv'.now
    BY <2>1, <2>2, <2>3 DEF SrvEventsOnce
  <2>5. ASSUME NEW i \in DOMAIN srv'.events PROVE srv'.requests[srv'.events[i]].status = "announced"
    BY <2>1, <2>2, <2>3 DEF SrvEventsOnce
  <2>6. ASSUME NEW i \in DOMAIN srv'.events, NEW j \in DOMAIN srv'.events, srv'.events[i] = srv'.events[j] PROVE i = j
    BY <2>6, <2>1, <2>2, <2>3 DEF SrvEventsOnce
  <2> QED
    BY <2>4, <2>5, <2>6 DEF SrvEventsOnce
<1>6. SrvUnanswered'
  BY <1>1 DEF SrvInv, SrvUnanswered
<1>7. ASSUME NEW r, SrvDone(r)'  PROVE SrvDone(r) \/ r = srv.now
  BY <1>7, <1>1 DEF SrvDone
<1>8. SrvAnsweredRight(q)
  <2>1. q.answer # 200
    BY <1>3
  <2>2. q.method \in {"MESSAGE", "SUBSCRIBE"} => ~SrvServed(q.body)
    BY Zenon
  <2> QED
    BY <2>1, <2>2, Zenon DEF SrvAnsweredRight
<1>9. SrvAnswersWhatIsAsked'
  <2>1. ASSUME NEW r \in DOMAIN srv'.requests
        PROVE  /\ SrvDone(r)' => SrvAnsweredRight(srv'.requests[r])
               /\ SrvNamesType(srv'.requests[r])
               /\ srv'.requests[r].method \in {"REGISTER", "OPTIONS"} => srv'.requests[r].answer = 0
    BY <1>1, <1>7, <1>8, <1>3, ZenonT(60) DEF SrvInv, SrvAnswersWhatIsAsked
  <2> QED
    BY <2>1, Zenon DEF SrvAnswersWhatIsAsked, SrvAnsweredRight, SrvNamesType
<1>10. SrvStopsOnlyFor'
  <2>1. PICK n : n = srv.now
    OBVIOUS
  <2>2. /\ n \in DOMAIN srv'.requests /\ n # srv'.now /\ srv'.requests[n] = q
        /\ \A i \in DOMAIN srv'.events : srv'.events[i] # n
    BY <2>1, <1>1, <1>3
  <2>3. SrvDone(n)'
    BY <2>2, <1>3 DEF SrvDone
  <2> QED
    BY <2>2, <2>3, <1>1, <1>3 DEF SrvStopsOnlyFor
<1> QED
  BY <1>2, <1>4, <1>5, <1>6, <1>9, <1>10 DEF SrvInv

(* The request that is handled is answered, the others and the events      *)
(* stay: each waiting event is still of one announced request, and what    *)
(* was answered is what is asked.                                          *)
LEMMA SrvOneServed ==
  ASSUME SrvInv, NEW R, NEW p,
         srv.now # 0, \A i \in DOMAIN srv.events : srv.events[i] # srv.now,
         0 \notin DOMAIN srv.requests, DOMAIN R = DOMAIN srv.requests, R[srv.now] = p,
         \A r \in DOMAIN srv.requests : r # srv.now => R[r] = srv.requests[r],
         srv'.requests = R, srv'.events = srv.events, srv'.now = 0,
         p.status \notin {"arrived", "announced"}, SrvAnsweredRight(p), SrvNamesType(p),
         p.method \notin {"REGISTER", "OPTIONS"}
  PROVE  SrvEventsOnce' /\ SrvUnanswered' /\ SrvAnswersWhatIsAsked'
<1>5. SrvEventsOnce'
  <2>1. SrvEventsOnce
    BY DEF SrvInv
  <2>2. \A i \in DOMAIN srv.events :
          /\ srv.events[i] \in DOMAIN R /\ srv.events[i] # 0
          /\ R[srv.events[i]] = srv.requests[srv.events[i]]
    BY <2>1, Zenon DEF SrvEventsOnce
  <2>3. ASSUME NEW i \in DOMAIN srv'.events
        PROVE  /\ srv'.events[i] \in DOMAIN srv'.requests /\ srv'.events[i] # srv'.now
               /\ srv'.requests[srv'.events[i]].status = "announced"
    <3>1. i \in DOMAIN srv.events /\ srv'.events[i] = srv.events[i]
      BY <2>3, Zenon
    <3>2. srv'.requests[srv'.events[i]] = R[srv.events[i]]
      BY <3>1, Zenon
    <3>3. /\ srv.events[i] \in DOMAIN R /\ srv.events[i] # 0
          /\ R[srv.events[i]].status = "announced"
      BY <2>1, <2>2, <3>1, Zenon DEF SrvEventsOnce
    <3>4. srv'.events[i] \in DOMAIN srv'.requests /\ srv'.events[i] # srv'.now
      BY <3>1, <3>3, Zenon
    <3> QED
      BY <3>2, <3>3, <3>4, Zenon
  <2>4. ASSUME NEW i \in DOMAIN srv'.events, NEW j \in DOMAIN srv'.events,
               srv'.events[i] = srv'.events[j]
        PROVE  i = j
    <3>1. i \in DOMAIN srv.events /\ j \in DOMAIN srv.events /\ srv.events[i] = srv.events[j]
      BY <2>4, Zenon
    <3> QED
      BY <2>1, <3>1, Zenon DEF SrvEventsOnce
  <2> QED
    BY <2>3, <2>4 DEF SrvEventsOnce
<1>6. SrvUnanswered'
  <2>1. SrvUnanswered
    BY DEF SrvInv
  <2>2. ASSUME NEW r \in DOMAIN srv'.requests,
               srv'.requests[r].status \in {"arrived", "announced"}
        PROVE  srv'.requests[r].answer = 0
    <3>1. r \in DOMAIN srv.requests /\ srv'.requests[r] = R[r]
      BY <2>2, Zenon
    <3>2. r # srv.now
      <4>1. r = srv.now => srv'.requests[r] = p
        BY <3>1, Zenon
      <4> QED
        BY <4>1, <2>2, Zenon
    <3>3. R[r] = srv.requests[r]
      BY <3>1, <3>2, Zenon
    <3>4. r \in DOMAIN srv.requests /\ srv'.requests[r] = srv.requests[r]
      BY <3>1, <3>3, Zenon
    <3>5. srv.requests[r].status \in {"arrived", "announced"}
      BY <2>2, <3>4, Zenon
    <3> QED
      BY <2>1, <3>4, <3>5, Zenon DEF SrvUnanswered
  <2> QED
    BY <2>2 DEF SrvUnanswered
<1>7. ASSUME NEW r, r # srv.now, SrvDone(r)'  PROVE SrvDone(r)
  <2>1. /\ r \in DOMAIN srv'.requests /\ srv'.requests[r].status # "arrived"
        /\ \A i \in DOMAIN srv'.events : srv'.events[i] # r
    BY <1>7, Zenon DEF SrvDone
  <2>2. r \in DOMAIN srv.requests
    BY <2>1, Zenon
  <2>3. srv'.requests[r] = srv.requests[r]
    BY <2>2, <1>7, Zenon
  <2>4. srv.requests[r].status # "arrived"
    BY <2>1, <2>3, Zenon
  <2>5. \A i \in DOMAIN srv.events : srv.events[i] # r
    BY <2>1, Zenon
  <2> QED
    BY <1>7, <2>2, <2>4, <2>5, Zenon DEF SrvDone
<1>9. SrvAnswersWhatIsAsked'
  <2>1. ASSUME NEW r \in DOMAIN srv'.requests
        PROVE  /\ SrvDone(r)' => SrvAnsweredRight(srv'.requests[r])
               /\ SrvNamesType(srv'.requests[r])
               /\ srv'.requests[r].method \in {"REGISTER", "OPTIONS"} => srv'.requests[r].answer = 0
    <3>1. CASE r = srv.now
      BY <3>1
    <3>2. CASE r # srv.now
      <4>2. r \in DOMAIN srv.requests
        BY <2>1, Zenon
      <4>1. srv'.requests[r] = srv.requests[r] /\ r \in DOMAIN srv.requests
        BY <3>2, <4>2, Zenon
      <4> QED
        BY <3>2, <4>1, <1>7 DEF SrvInv, SrvAnswersWhatIsAsked
    <3> QED
      BY <3>1, <3>2
  <2> QED
    BY <2>1, Zenon DEF SrvAnswersWhatIsAsked, SrvAnsweredRight, SrvNamesType
<1> QED
  BY <1>5, <1>6, <1>9

(* A request that is answered is handled. *)
LEMMA SrvQueued ==
  ASSUME SrvInv, ~srv.crashed, srv.pc # "wait",
         NEW type \in SrvKinds, NEW sdp \in SrvSdps,
         SrvRequest(srv).method \in {"MESSAGE", "SUBSCRIBE"},
         SrvAnsweredRight(SrvAnswer(SrvRequest(srv), 200, sdp)),
         SrvNamesType(SrvAnswer(SrvRequest(srv), 200, sdp)),
         srv' = SrvState(SrvPut(srv.now, SrvAnswer(SrvRequest(srv), 200, sdp)), srv.events, "free",
                         "wait", 0, type, FALSE)
  PROVE  SrvInv'
<1> DEFINE q == SrvRequest(srv)
           p == SrvAnswer(q, 200, sdp)
<1>1. /\ srv'.requests = SrvPut(srv.now, p) /\ srv'.events = srv.events /\ srv'.lock = "free"
      /\ srv'.pc = "wait" /\ srv'.now = 0 /\ srv'.crashed = FALSE
  BY DEF SrvState
<1>3. /\ srv.now \in DOMAIN srv.requests /\ srv.now # 0 /\ q = srv.requests[srv.now]
      /\ 0 \notin DOMAIN srv.requests
      /\ \A i \in DOMAIN srv.events : srv.events[i] # srv.now
  BY SrvUnderWay
<1>a. /\ p \in SrvRequests /\ p.method = q.method /\ p.status = "queued" /\ p.answer = 200
  <2>1. q \in SrvRequests
    BY <1>3, SrvFields DEF SrvInv
  <2> QED
    BY <2>1, SrvRequestFields DEF SrvRequests, SrvAnswer
<1> HIDE DEF p
<1>b. PICK R :
      /\ R = SrvPut(srv.now, p) /\ R \in Seq(SrvRequests)
      /\ DOMAIN R = DOMAIN srv.requests /\ R[srv.now] = p
      /\ \A r \in DOMAIN srv.requests : r # srv.now => R[r] = srv.requests[r]
  BY <1>3, <1>a, SrvPutFacts, SMTT(60) DEF SrvInv
<1>c. srv'.requests = R /\ srv'.events = srv.events /\ srv'.now = 0
  BY <1>1, <1>b
<1>2. srv' \in SrvStates
  <2>1. srv.events \in Seq(Nat) /\ "free" \in {"free", "server"} /\ 0 \in Nat
        /\ "wait" \in {"wait", "handle", "locked"} /\ FALSE \in BOOLEAN
    BY SrvFields DEF SrvInv
  <2>2. srv' = SrvState(R, srv.events, "free", "wait", 0, type, FALSE)
    BY <1>b, Zenon DEF p, q
  <2> QED
    BY <1>b, <2>1, <2>2 DEF SrvState, SrvStates
<1>4. SrvHandled'
  BY <1>1 DEF SrvHandled
<1>5. p.status \notin {"arrived", "announced"}
  BY <1>a
<1>8. SrvAnsweredRight(p) /\ SrvNamesType(p) /\ p.method \notin {"REGISTER", "OPTIONS"}
  BY <1>a DEF p
<1>6. SrvEventsOnce' /\ SrvUnanswered' /\ SrvAnswersWhatIsAsked'
  BY <1>3, <1>b, <1>c, <1>5, <1>8, SrvOneServed, ZenonT(60)
<1>10. SrvStopsOnlyFor'
  BY <1>1 DEF SrvStopsOnlyFor
<1> QED
  BY <1>2, <1>4, <1>6, <1>10 DEF SrvInv

(* What is asked of a request holds after a step if it did before, or if   *)
(* the request is not done and has no answer, or a 180.                    *)
SrvSameAnswer(p, q) ==
  p.method = q.method /\ p.body = q.body /\ p.answer = q.answer /\ p.sdp = q.sdp

(* So the answers are what is asked after such a step.                     *)
LEMMA SrvAnswersKept ==
  ASSUME SrvInv,
         NEW R, srv'.requests = R,
         \A r \in DOMAIN R :
           \/ /\ r \in DOMAIN srv.requests /\ SrvSameAnswer(R[r], srv.requests[r])
              /\ SrvDone(r)' => SrvDone(r)
           \/ /\ ~SrvDone(r)' /\ R[r].sdp = {}
              /\ R[r].method \in {"REGISTER", "OPTIONS"} => R[r].answer = 0
  PROVE  SrvAnswersWhatIsAsked'
<1>1. ASSUME NEW r \in DOMAIN R
      PROVE  /\ SrvDone(r)' => SrvAnsweredRight(R[r])
             /\ SrvNamesType(R[r])
             /\ R[r].method \in {"REGISTER", "OPTIONS"} => R[r].answer = 0
  <2>1. CASE r \in DOMAIN srv.requests /\ SrvSameAnswer(R[r], srv.requests[r])
             /\ (SrvDone(r)' => SrvDone(r))
    <3>1. PICK p, q : p = R[r] /\ q = srv.requests[r]
      OBVIOUS
    <3>2. /\ SrvDone(r)' => SrvAnsweredRight(q)
          /\ SrvNamesType(q)
          /\ q.method \in {"REGISTER", "OPTIONS"} => q.answer = 0
      BY <2>1, <3>1, Zenon DEF SrvInv, SrvAnswersWhatIsAsked
    <3>3. p.method = q.method /\ p.body = q.body /\ p.answer = q.answer /\ p.sdp = q.sdp
      BY <2>1, <3>1 DEF SrvSameAnswer
    <3>4. (SrvAnsweredRight(q) => SrvAnsweredRight(p)) /\ (SrvNamesType(q) => SrvNamesType(p))
      BY <3>3, ZenonT(60) DEF SrvAnsweredRight, SrvNamesType
    <3> QED
      BY <3>1, <3>2, <3>3, <3>4, Zenon
  <2>2. CASE /\ ~SrvDone(r)' /\ R[r].sdp = {}
             /\ R[r].method \in {"REGISTER", "OPTIONS"} => R[r].answer = 0
    BY <2>2, Zenon DEF SrvNamesType
  <2> QED
    BY <2>1, <2>2, Zenon
<1>2. ASSUME NEW r \in DOMAIN srv'.requests
      PROVE  /\ SrvDone(r)' => SrvAnsweredRight(srv'.requests[r])
             /\ SrvNamesType(srv'.requests[r])
             /\ srv'.requests[r].method \in {"REGISTER", "OPTIONS"} => srv'.requests[r].answer = 0
  <2>1. r \in DOMAIN R /\ srv'.requests[r] = R[r]
    OBVIOUS
  <2> QED
    BY <1>1, <2>1, Zenon
<1> QED
  BY <1>2, ZenonT(60) DEF SrvAnswersWhatIsAsked, SrvAnsweredRight, SrvNamesType

(* A step that changes neither the requests nor the events nor which of    *)
(* them is handled.                                                        *)
LEMMA SrvSame ==
  ASSUME SrvInv, srv'.requests = srv.requests, srv'.events = srv.events, srv'.now = srv.now
  PROVE  SrvEventsOnce' /\ SrvUnanswered' /\ SrvAnswersWhatIsAsked'
<1>1. SrvEventsOnce /\ SrvUnanswered
  BY DEF SrvInv
<1>2. SrvEventsOnce'
  BY <1>1, Zenon DEF SrvEventsOnce
<1>3. SrvUnanswered'
  BY <1>1, Zenon DEF SrvUnanswered
<1>4. PICK R : R = srv.requests
  OBVIOUS
<1>5. \A r \in DOMAIN R : SrvDone(r)' => SrvDone(r)
  BY Zenon DEF SrvDone
<1>6. \A r \in DOMAIN R : r \in DOMAIN srv.requests /\ SrvSameAnswer(R[r], srv.requests[r])
  BY <1>4, Zenon DEF SrvSameAnswer
<1>7. srv'.requests = R
  BY <1>4
<1>8. SrvAnswersWhatIsAsked'
  BY <1>5, <1>6, <1>7, SrvAnswersKept, Zenon
<1> QED
  BY <1>2, <1>3, <1>8

(* A handler takes the lock.                                               *)
LEMMA SrvLocked ==
  ASSUME SrvInv, NEW method \in {"SUBSCRIBE", "INVITE"}, SrvLocks(method)
  PROVE  SrvInv'
<1>1. srv' = SrvState(srv.requests, srv.events, "server", "locked", srv.now, srv.type, srv.crashed)
  BY SrvFields DEF SrvInv, SrvLocks, SrvState
<1>2. /\ srv'.requests = srv.requests /\ srv'.events = srv.events /\ srv'.lock = "server"
      /\ srv'.pc = "locked" /\ srv'.now = srv.now /\ srv'.crashed = srv.crashed
  BY <1>1 DEF SrvState
<1>3. srv' \in SrvStates
  BY <1>1, SrvFields, SrvStateType DEF SrvInv
<1>4. SrvEventsOnce' /\ SrvUnanswered' /\ SrvAnswersWhatIsAsked'
  BY <1>2, SrvSame
<1>5. SrvRequest(srv)' = SrvRequest(srv)
  BY <1>2 DEF SrvRequest
<1>6. SrvHandled'
  BY <1>2, <1>5 DEF SrvInv, SrvHandled, SrvLocks
<1>7. SrvStopsOnlyFor'
  BY <1>2, <1>5 DEF SrvStopsOnlyFor, SrvLocks
<1> QED
  BY <1>3, <1>4, <1>6, <1>7 DEF SrvInv

(* A request without a type may crash the loop. *)
LEMMA SrvCrashes ==
  ASSUME SrvInv, srv.pc # "wait", SrvTyped(SrvRequest(srv).body) = {},
         SrvRequest(srv).method # "OPTIONS",
         srv' = SrvState(srv.requests, srv.events, srv.lock, srv.pc, srv.now, srv.type, TRUE)
  PROVE  SrvInv'
<1>2. /\ srv'.requests = srv.requests /\ srv'.events = srv.events /\ srv'.lock = srv.lock
      /\ srv'.pc = srv.pc /\ srv'.now = srv.now /\ srv'.crashed = TRUE
  BY DEF SrvState
<1>3. srv' \in SrvStates
  BY SrvFields, SrvStateType DEF SrvInv
<1>4. SrvEventsOnce' /\ SrvUnanswered' /\ SrvAnswersWhatIsAsked'
  BY <1>2, SrvSame
<1>5. SrvRequest(srv)' = SrvRequest(srv)
  BY <1>2 DEF SrvRequest
<1>6. SrvHandled'
  BY <1>2, <1>5 DEF SrvInv, SrvHandled
<1>7. SrvStopsOnlyFor'
  BY <1>2, <1>5 DEF SrvStopsOnlyFor
<1> QED
  BY <1>3, <1>4, <1>6, <1>7 DEF SrvInv

(* The events when one request got another record, which is announced.     *)
LEMMA SrvEventsKept ==
  ASSUME SrvEventsOnce, NEW R, srv'.requests = R, srv'.events = srv.events, srv'.now = srv.now,
         DOMAIN R = DOMAIN srv.requests,
         \A r \in DOMAIN R : R[r] = srv.requests[r] \/ \A i \in DOMAIN srv.events : srv.events[i] # r
  PROVE  SrvEventsOnce'
<1>1. ASSUME NEW i \in DOMAIN srv'.events
      PROVE  /\ srv'.events[i] \in DOMAIN srv'.requests /\ srv'.events[i] # srv'.now
             /\ srv'.requests[srv'.events[i]].status = "announced"
  <2>1. PICK e : e = srv.events[i]
    OBVIOUS
  <2>2. /\ i \in DOMAIN srv.events /\ e \in DOMAIN srv.requests /\ e # srv.now
        /\ srv.requests[e].status = "announced"
    BY <1>1, <2>1, Zenon DEF SrvEventsOnce
  <2>3. R[e] = srv.requests[e]
    BY <2>1, <2>2, Zenon
  <2> QED
    BY <2>1, <2>2, <2>3, Zenon
<1>2. ASSUME NEW i \in DOMAIN srv'.events, NEW j \in DOMAIN srv'.events,
             srv'.events[i] = srv'.events[j]
      PROVE  i = j
  BY <1>2, Zenon DEF SrvEventsOnce
<1> QED
  BY <1>1, <1>2, Zenon DEF SrvEventsOnce

(* Requests that wait have no answer if those that changed have none.      *)
LEMMA SrvUnansweredKept ==
  ASSUME SrvUnanswered, NEW R, srv'.requests = R,
         \A r \in DOMAIN R :
           \/ r \in DOMAIN srv.requests /\ R[r] = srv.requests[r]
           \/ R[r].status \notin {"arrived", "announced"}
           \/ R[r].answer = 0
  PROVE  SrvUnanswered'
<1>1. ASSUME NEW r \in DOMAIN R, R[r].status \in {"arrived", "announced"}
      PROVE  R[r].answer = 0
  <2>1. CASE r \in DOMAIN srv.requests /\ R[r] = srv.requests[r]
    BY <2>1, <1>1, Zenon DEF SrvUnanswered
  <2> QED
    BY <2>1, <1>1
<1> QED
  BY <1>1, Zenon DEF SrvUnanswered

(* An INVITE gets its 180 and crashes the loop. *)
LEMMA SrvInvited ==
  ASSUME SrvInv, handle_request_invite  PROVE SrvInv'
<1> DEFINE q == SrvRequest(srv)
           p == SrvAnswer(q, 180, {})
<1>1. /\ srv.pc = "locked" /\ q.method = "INVITE" /\ ~srv.crashed
      /\ srv' = SrvCrash(SrvQueue(srv, 180, {}))
  BY DEF handle_request_invite
<1>2. /\ srv.now \in DOMAIN srv.requests /\ srv.now # 0 /\ q = srv.requests[srv.now]
      /\ \A i \in DOMAIN srv.events : srv.events[i] # srv.now
      /\ srv \in SrvStates /\ srv.lock = "server"
  BY <1>1, SrvFields DEF SrvInv, SrvHandled, SrvRequest, SrvEventsOnce
<1>3. [srv EXCEPT !.type = srv.type] = srv
  BY <1>2, SrvFields DEF SrvState
<1>4. q \in SrvRequests
  BY <1>2, SrvFields
<1>5. /\ p \in SrvRequests /\ p.method = "INVITE" /\ p.status = "queued" /\ p.sdp = {}
  <2>1. {} \in SrvSdps
    BY DEF SrvSdps
  <2> QED
    BY <2>1, <1>1, <1>4, SrvRequestFields DEF SrvRequests, SrvAnswer
<1> HIDE DEF p
<1>6. PICK R :
      /\ R = SrvPut(srv.now, p) /\ R \in Seq(SrvRequests)
      /\ DOMAIN R = DOMAIN srv.requests /\ R[srv.now] = p
      /\ \A r \in DOMAIN srv.requests : r # srv.now => R[r] = srv.requests[r]
  BY <1>2, <1>5, SrvPutFacts
<1>7. srv' = SrvState(R, srv.events, srv.lock, srv.pc, srv.now, srv.type, TRUE)
  <2>1. SrvQueue(srv, 180, {}) =
          SrvState(R, srv.events, srv.lock, srv.pc, srv.now, srv.type, srv.crashed)
    BY <1>2, <1>3, <1>6, SrvQueueIs DEF p
  <2>2. PICK held, place, now, type, crashed, queue :
          /\ held = srv.lock /\ place = srv.pc /\ now = srv.now /\ type = srv.type
          /\ crashed = srv.crashed /\ queue = srv.events
    OBVIOUS
  <2>3. SrvCrash(SrvState(R, queue, held, place, now, type, crashed)) =
          SrvState(R, queue, held, place, now, type, TRUE)
    BY SrvCrashIs, Zenon
  <2> QED
    BY <2>1, <2>2, <2>3, <1>1, Zenon
<1>8. /\ srv'.requests = R /\ srv'.events = srv.events /\ srv'.lock = "server"
      /\ srv'.pc = "locked" /\ srv'.now = srv.now /\ srv'.crashed = TRUE
  BY <1>7, <1>1, <1>2 DEF SrvState
<1>9. srv' \in SrvStates
  BY <1>7, <1>6, <1>2, SrvFields, SrvStateType
<1>10. SrvRequest(srv)' = p
  BY <1>8, <1>6 DEF SrvRequest
<1>11. SrvHandled'
  BY <1>8, <1>10, <1>5, <1>6, <1>2 DEF SrvHandled
<1>12. SrvEventsOnce'
  <2>1. \A r \in DOMAIN R :
          R[r] = srv.requests[r] \/ \A i \in DOMAIN srv.events : srv.events[i] # r
    BY <1>2, <1>6, Zenon
  <2> QED
    BY <2>1, <1>6, <1>8, SrvEventsKept DEF SrvInv
<1>13. SrvUnanswered'
  <2>1. \A r \in DOMAIN R : \/ r \in DOMAIN srv.requests /\ R[r] = srv.requests[r]
                            \/ R[r].status \notin {"arrived", "announced"}
    <3>1. p.status \notin {"arrived", "announced"}
      BY <1>5
    <3> QED
      BY <1>6, <3>1, Zenon
  <2> QED
    BY <2>1, <1>8, SrvUnansweredKept DEF SrvInv
<1>14. SrvAnswersWhatIsAsked'
  <2>1. ASSUME NEW r \in DOMAIN R
        PROVE  \/ /\ r \in DOMAIN srv.requests /\ SrvSameAnswer(R[r], srv.requests[r])
                  /\ SrvDone(r)' => SrvDone(r)
               \/ /\ ~SrvDone(r)' /\ R[r].sdp = {}
                  /\ R[r].method \in {"REGISTER", "OPTIONS"} => R[r].answer = 0
    <3>1. CASE r = srv.now
      <4>1. ~SrvDone(r)'
        BY <3>1, <1>8, Zenon DEF SrvDone
      <4>2. R[r] = p /\ "INVITE" \notin {"REGISTER", "OPTIONS"}
        BY <3>1, <1>6
      <4> QED
        BY <4>1, <4>2, <1>5, Zenon
    <3>2. CASE r # srv.now
      <4>1. r \in DOMAIN srv.requests /\ R[r] = srv.requests[r]
        BY <3>2, <1>6, Zenon
      <4>2. SrvDone(r)' => SrvDone(r)
        BY <4>1, <1>8, Zenon DEF SrvDone
      <4> QED
        BY <4>1, <4>2, Zenon DEF SrvSameAnswer
    <3> QED
      BY <3>1, <3>2
  <2> QED
    BY <2>1, <1>8, SrvAnswersKept, Zenon
<1>15. SrvStopsOnlyFor'
  BY <1>8, <1>10, <1>5 DEF SrvStopsOnlyFor
<1> QED
  BY <1>9, <1>11, <1>12, <1>13, <1>14, <1>15 DEF SrvInv

-----------------------------------------------------------------------------
(* Some numbers have a first one.                                          *)
LEMMA SrvLeast ==
  ASSUME NEW S, S \subseteq Nat, S # {}
  PROVE  \E i \in S : \A j \in S : i <= j
<1>1. PICK i \in S : \A j \in S : ~ (<<j, i>> \in OpToRel(<, Nat))
  BY NatLessThanWellFounded, WFMin
<1>2. ASSUME NEW j \in S  PROVE i <= j
  <2>1. <<j, i>> \in Nat \X Nat /\ <<j, i>>[1] = j /\ <<j, i>>[2] = i
    OBVIOUS
  <2>2. ~(<<j, i>>[1] < <<j, i>>[2])
    BY <1>1, <2>1 DEF OpToRel
  <2> QED
    BY <2>1, <2>2
<1> QED
  BY <1>2

(* The stack's thread: the requests when the status of one has changed.    *)
LEMMA SrvTag ==
  ASSUME srv \in SrvStates, NEW r \in DOMAIN srv.requests,
         NEW status \in {"arrived", "announced", "queued", "answered"},
         NEW R, R = [srv.requests EXCEPT ![r].status = status]
  PROVE  /\ R \in Seq(SrvRequests) /\ DOMAIN R = DOMAIN srv.requests
         /\ R[r].status = status /\ SrvSameAnswer(R[r], srv.requests[r])
         /\ \A n \in DOMAIN srv.requests : n # r => R[n] = srv.requests[n]
<1>1. PICK q : q = srv.requests[r]
  OBVIOUS
<1>2. q \in SrvRequests
  BY <1>1, SrvFields
<1>3. PICK p : p = [q EXCEPT !.status = status]
  OBVIOUS
<1>4. q = [method |-> q.method, body |-> q.body, status |-> q.status, answer |-> q.answer,
           sdp |-> q.sdp]
  BY <1>2, SrvRequestFields
<1>5. p = SrvTagged(q, status)
  BY <1>3, <1>4 DEF SrvTagged
<1>6. p \in SrvRequests /\ p.status = status /\ SrvSameAnswer(p, q)
  BY <1>5, <1>2, SrvRequestFields DEF SrvRequests, SrvTagged, SrvSameAnswer
<1>7. R = SrvPut(r, p)
  BY <1>3, <1>1 DEF SrvPut
<1>8. /\ R \in Seq(SrvRequests) /\ DOMAIN R = DOMAIN srv.requests /\ R[r] = p
      /\ \A n \in DOMAIN srv.requests : n # r => R[n] = srv.requests[n]
  <2>1. /\ SrvPut(r, p) \in Seq(SrvRequests) /\ DOMAIN SrvPut(r, p) = DOMAIN srv.requests
        /\ SrvPut(r, p)[r] = p
        /\ \A n \in DOMAIN srv.requests : n # r => SrvPut(r, p)[n] = srv.requests[n]
    BY <1>6, SrvPutFacts
  <2> QED
    BY <1>7, <2>1, Zenon
<1> QED
  BY <1>1, <1>6, <1>8

(* An answer that was queued is sent.                                      *)
LEMMA SrvSends ==
  ASSUME SrvInv, SrvSendsAnswer  PROVE SrvInv'
<1>1. PICK r \in DOMAIN srv.requests :
        /\ srv.lock = "free" /\ ~srv.crashed /\ srv.requests[r].status = "queued"
        /\ srv' = [srv EXCEPT !.requests[r].status = "answered"]
  BY Zenon DEF SrvSendsAnswer, SrvOf
<1>2. srv \in SrvStates
  BY DEF SrvInv
<1>a. PICK R : R = [srv.requests EXCEPT ![r].status = "answered"]
  OBVIOUS
<1>3. /\ R \in Seq(SrvRequests) /\ DOMAIN R = DOMAIN srv.requests
      /\ R[r].status = "answered" /\ SrvSameAnswer(R[r], srv.requests[r])
      /\ \A n \in DOMAIN srv.requests : n # r => R[n] = srv.requests[n]
  BY <1>a, <1>2, SrvTag, ZenonT(60)
<1>4. srv' = [srv EXCEPT !.requests = R]
  BY <1>1, <1>a
<1>5. srv' = SrvState(R, srv.events, srv.lock, srv.pc, srv.now, srv.type, srv.crashed)
  BY <1>4, <1>2, SrvFields DEF SrvState
<1>6. /\ srv'.requests = R /\ srv'.events = srv.events /\ srv'.lock = "free"
      /\ srv'.pc = srv.pc /\ srv'.now = srv.now /\ ~srv'.crashed
  BY <1>5, <1>1 DEF SrvState
<1>7. srv' \in SrvStates
  BY <1>5, <1>3, <1>2, SrvFields, SrvStateType
<1>8. /\ \A i \in DOMAIN srv.events : srv.events[i] # r
      /\ srv.now # r
  <2>1. SrvEventsOnce
    BY DEF SrvInv
  <2>2. "queued" # "announced"
    OBVIOUS
  <2>3. ~srv.crashed /\ srv.now # 0 => srv.requests[srv.now].status = "announced"
    BY DEF SrvInv, SrvHandled, SrvRequest
  <2>4. r # 0
    BY <1>2, SrvFields
  <2> QED
    BY <2>1, <2>2, <2>3, <2>4, <1>1, Zenon DEF SrvEventsOnce
<1>9. SrvHandled'
  <2>1. srv.now # 0 => srv.now \in DOMAIN R /\ R[srv.now] = srv.requests[srv.now]
    BY <1>3, <1>8 DEF SrvInv, SrvHandled
  <2> QED
    BY <2>1, <1>6, <1>1 DEF SrvInv, SrvHandled, SrvRequest
<1>10. SrvEventsOnce'
  <2>1. \A n \in DOMAIN R :
          R[n] = srv.requests[n] \/ \A i \in DOMAIN srv.events : srv.events[i] # n
    BY <1>8, <1>3, Zenon
  <2> QED
    BY <2>1, <1>3, <1>6, SrvEventsKept DEF SrvInv
<1>11. SrvUnanswered'
  <2>1. \A n \in DOMAIN R : \/ n \in DOMAIN srv.requests /\ R[n] = srv.requests[n]
                            \/ R[n].status \notin {"arrived", "announced"}
    <3>1. R[r].status \notin {"arrived", "announced"}
      BY <1>3
    <3> QED
      BY <1>3, <3>1, Zenon
  <2> QED
    BY <2>1, <1>6, SrvUnansweredKept DEF SrvInv
<1>12. SrvAnswersWhatIsAsked'
  <2>1. ASSUME NEW n \in DOMAIN R
        PROVE  /\ n \in DOMAIN srv.requests /\ SrvSameAnswer(R[n], srv.requests[n])
               /\ SrvDone(n)' => SrvDone(n)
    <3>1. n \in DOMAIN srv.requests /\ SrvSameAnswer(R[n], srv.requests[n])
      BY <1>3, Zenon DEF SrvSameAnswer
    <3>2. srv.requests[n].status = "arrived" => R[n].status = "arrived"
      BY <3>1, <1>3, <1>1
    <3> QED
      BY <3>1, <3>2, <1>6, Zenon DEF SrvDone
  <2> QED
    BY <2>1, <1>6, SrvAnswersKept, Zenon
<1>13. SrvStopsOnlyFor'
  BY <1>6 DEF SrvStopsOnlyFor
<1> QED
  BY <1>7, <1>9, <1>10, <1>11, <1>12, <1>13 DEF SrvInv

(* The loop takes the first event.                                         *)
LEMMA SrvTaken ==
  ASSUME SrvInv, SrvTakes  PROVE SrvInv'
<1>1. /\ srv.pc = "wait" /\ srv.lock = "free" /\ srv.events # <<>> /\ ~srv.crashed
      /\ srv' = [srv EXCEPT !.now = Head(srv.events), !.events = Tail(@), !.pc = "handle"]
  BY DEF SrvTakes
<1>2. PICK queue, e : queue = Tail(srv.events) /\ e = Head(srv.events)
  OBVIOUS
<1>3. srv \in SrvStates /\ srv.now = 0
  BY <1>1 DEF SrvInv, SrvHandled
<1>4. /\ queue \in Seq(Nat) /\ e = srv.events[1] /\ 1 \in DOMAIN srv.events
      /\ \A i \in DOMAIN queue : i + 1 \in DOMAIN srv.events /\ queue[i] = srv.events[i + 1]
      /\ \A i \in DOMAIN srv.events : i = 1 \/ (i - 1 \in DOMAIN queue /\ queue[i - 1] = srv.events[i])
      /\ DOMAIN queue \subseteq Nat \ {0}
  <2>1. srv.events \in Seq(Nat) /\ srv.events # <<>>
    BY <1>1, <1>3, SrvFields, Zenon
  <2>2. ASSUME NEW s \in Seq(Nat), s # <<>>
        PROVE  /\ Tail(s) \in Seq(Nat) /\ Head(s) = s[1] /\ 1 \in DOMAIN s
               /\ \A i \in DOMAIN Tail(s) : i + 1 \in DOMAIN s /\ Tail(s)[i] = s[i + 1]
               /\ \A i \in DOMAIN s : i = 1 \/ (i - 1 \in DOMAIN Tail(s) /\ Tail(s)[i - 1] = s[i])
               /\ DOMAIN Tail(s) \subseteq Nat \ {0}
    BY <2>2
  <2> QED
    BY <1>2, <2>1, <2>2, Zenon
<1>5. /\ e \in DOMAIN srv.requests /\ e # 0 /\ srv.requests[e].status = "announced"
      /\ e \in Nat
  BY <1>4, <1>3, SrvFields DEF SrvInv, SrvEventsOnce
<1>6. srv' = SrvState(srv.requests, queue, srv.lock, "handle", e, srv.type, srv.crashed)
  BY <1>1, <1>2, <1>3, SrvFields DEF SrvState
<1>7. /\ srv'.requests = srv.requests /\ srv'.events = queue /\ srv'.lock = "free"
      /\ srv'.pc = "handle" /\ srv'.now = e /\ ~srv'.crashed
  BY <1>6, <1>1 DEF SrvState
<1>8. srv' \in SrvStates
  BY <1>6, <1>4, <1>5, <1>3, SrvFields, SrvStateType
<1>9. SrvHandled'
  BY <1>7, <1>5 DEF SrvHandled, SrvRequest
<1>10. SrvEventsOnce'
  <2>0. SrvEventsOnce
    BY DEF SrvInv
  <2>1. ASSUME NEW i \in DOMAIN queue
        PROVE  queue[i] \in DOMAIN srv.requests /\ queue[i] # e
               /\ srv.requests[queue[i]].status = "announced"
    <3>1. i + 1 # 1
      BY <2>1, <1>4
    <3> QED
      BY <2>0, <2>1, <3>1, <1>4 DEF SrvEventsOnce
  <2>2. ASSUME NEW i \in DOMAIN queue, NEW j \in DOMAIN queue, queue[i] = queue[j]
        PROVE  i = j
    <3>1. i + 1 = j + 1
      BY <2>0, <2>2, <1>4 DEF SrvEventsOnce
    <3> QED
      BY <3>1, <1>4
  <2> QED
    BY <2>1, <2>2, <1>7, Zenon DEF SrvEventsOnce
<1>11. SrvUnanswered'
  BY <1>7, SrvUnansweredKept DEF SrvInv
<1>12. SrvAnswersWhatIsAsked'
  <2>1. PICK R : R = srv.requests
    OBVIOUS
  <2>2. ASSUME NEW n \in DOMAIN R, SrvDone(n)'  PROVE SrvDone(n)
    <3>1. n # e /\ n \in DOMAIN srv.requests /\ srv.requests[n].status # "arrived"
          /\ \A i \in DOMAIN queue : queue[i] # n
      BY <2>2, <1>7, Zenon DEF SrvDone
    <3>2. \A i \in DOMAIN srv.events : srv.events[i] # n
      BY <3>1, <1>4
    <3>3. n # srv.now
      BY <3>1, <1>3, SrvFields
    <3> QED
      BY <3>1, <3>2, <3>3 DEF SrvDone
  <2>3. \A n \in DOMAIN R : n \in DOMAIN srv.requests /\ SrvSameAnswer(R[n], srv.requests[n])
    BY <2>1, Zenon DEF SrvSameAnswer
  <2> QED
    BY <2>1, <2>2, <2>3, <1>7, SrvAnswersKept, Zenon
<1>13. SrvStopsOnlyFor'
  BY <1>7 DEF SrvStopsOnlyFor
<1> QED
  BY <1>8, <1>9, <1>10, <1>11, <1>12, <1>13 DEF SrvInv

(* The first request that arrived is announced.                            *)
LEMMA SrvAnnounced ==
  ASSUME SrvInv, SrvAnnounces  PROVE SrvInv'
<1>0. SrvFirst(SrvOf("arrived")) \in SrvOf("arrived")
  <2>1. SrvOf("arrived") \subseteq Nat /\ SrvOf("arrived") # {}
    BY SrvFields DEF SrvOf, SrvInv, SrvAnnounces
  <2>2. \E r \in SrvOf("arrived") : \A q \in SrvOf("arrived") : r <= q
    BY <2>1, SrvLeast
  <2> QED
    BY <2>2 DEF SrvFirst
<1>1. PICK r \in DOMAIN srv.requests :
        /\ srv.lock = "free" /\ ~srv.crashed /\ srv.requests[r].status = "arrived"
        /\ srv' = [srv EXCEPT !.requests[r].status = "announced", !.events = Append(@, r)]
  BY <1>0, Zenon DEF SrvAnnounces, SrvOf
<1>2. srv \in SrvStates
  BY DEF SrvInv
<1>a. PICK R, queue : R = [srv.requests EXCEPT ![r].status = "announced"]
                       /\ queue = Append(srv.events, r)
  OBVIOUS
<1>3. /\ R \in Seq(SrvRequests) /\ DOMAIN R = DOMAIN srv.requests
      /\ R[r].status = "announced" /\ SrvSameAnswer(R[r], srv.requests[r])
      /\ \A n \in DOMAIN srv.requests : n # r => R[n] = srv.requests[n]
  BY <1>a, <1>2, SrvTag
<1>b. /\ r \in Nat \ {0} /\ queue \in Seq(Nat) /\ Len(srv.events) + 1 \in DOMAIN queue
      /\ queue[Len(srv.events) + 1] = r
      /\ \A i \in DOMAIN srv.events : i \in DOMAIN queue /\ queue[i] = srv.events[i]
      /\ \A i \in DOMAIN queue : i = Len(srv.events) + 1 \/ i \in DOMAIN srv.events
  BY <1>a, <1>2, SrvFields, SMTT(60)
<1>5. srv' = SrvState(R, queue, srv.lock, srv.pc, srv.now, srv.type, srv.crashed)
  <2>1. srv' = [srv EXCEPT !.requests = R, !.events = queue]
    BY <1>1, <1>a
  <2> QED
    BY <2>1, <1>2, SrvFields DEF SrvState
<1>6. /\ srv'.requests = R /\ srv'.events = queue /\ srv'.lock = "free"
      /\ srv'.pc = srv.pc /\ srv'.now = srv.now /\ ~srv'.crashed
  BY <1>5, <1>1 DEF SrvState
<1>7. srv' \in SrvStates
  BY <1>5, <1>3, <1>b, <1>2, SrvFields, SrvStateType
<1>8. /\ \A i \in DOMAIN srv.events : srv.events[i] # r
      /\ srv.now # r
  <2>1. SrvEventsOnce
    BY DEF SrvInv
  <2>2. "arrived" # "announced"
    OBVIOUS
  <2>3. ~srv.crashed /\ srv.now # 0 => srv.requests[srv.now].status = "announced"
    BY DEF SrvInv, SrvHandled, SrvRequest
  <2> QED
    BY <2>1, <2>2, <2>3, <1>b, <1>1, Zenon DEF SrvEventsOnce
<1>9. SrvHandled'
  <2>1. srv.now # 0 => srv.now \in DOMAIN R /\ R[srv.now] = srv.requests[srv.now]
    BY <1>3, <1>8 DEF SrvInv, SrvHandled
  <2> QED
    BY <2>1, <1>6, <1>1 DEF SrvInv, SrvHandled, SrvRequest
<1>10. SrvEventsOnce'
  <2>1. SrvEventsOnce
    BY DEF SrvInv
  <2>2. ASSUME NEW i \in DOMAIN queue
        PROVE  queue[i] \in DOMAIN R /\ queue[i] # srv.now /\ R[queue[i]].status = "announced"
    <3>1. CASE i \in DOMAIN srv.events
      <4>1. PICK e : e = srv.events[i]
        OBVIOUS
      <4>2. e \in DOMAIN srv.requests /\ e # srv.now /\ srv.requests[e].status = "announced"
            /\ e # r /\ queue[i] = e
        BY <2>1, <3>1, <4>1, <1>8, <1>b, Zenon DEF SrvEventsOnce
      <4> QED
        BY <4>2, <1>3, Zenon
    <3>2. CASE i = Len(srv.events) + 1
      BY <3>2, <1>b, <1>3, <1>8, Zenon
    <3> QED
      BY <3>1, <3>2, <1>b, Zenon
  <2>3. ASSUME NEW i \in DOMAIN queue, NEW j \in DOMAIN queue, queue[i] = queue[j]
        PROVE  i = j
    BY <2>1, <2>3, <1>8, <1>b, Zenon DEF SrvEventsOnce
  <2> QED
    BY <2>2, <2>3, <1>6, Zenon DEF SrvEventsOnce
<1>11. SrvUnanswered'
  <2>1. srv.requests[r].answer = 0 /\ R[r].answer = 0
    BY <1>1, <1>3 DEF SrvInv, SrvUnanswered, SrvSameAnswer
  <2>2. \A n \in DOMAIN R : \/ n \in DOMAIN srv.requests /\ R[n] = srv.requests[n]
                            \/ R[n].answer = 0
    BY <1>3, <2>1, Zenon
  <2> QED
    BY <2>2, <1>6, SrvUnansweredKept DEF SrvInv
<1>12. SrvAnswersWhatIsAsked'
  <2>1. ASSUME NEW n \in DOMAIN R
        PROVE  /\ n \in DOMAIN srv.requests /\ SrvSameAnswer(R[n], srv.requests[n])
               /\ SrvDone(n)' => SrvDone(n)
    <3>1. n \in DOMAIN srv.requests /\ SrvSameAnswer(R[n], srv.requests[n])
      BY <1>3, Zenon DEF SrvSameAnswer
    <3>2. SrvDone(n)' => n # r
      BY <1>6, <1>b, Zenon DEF SrvDone
    <3>3. n # r => R[n] = srv.requests[n]
      BY <3>1, <1>3, Zenon
    <3> QED
      BY <3>1, <3>2, <3>3, <1>6, <1>b, Zenon DEF SrvDone
  <2> QED
    BY <2>1, <1>6, SrvAnswersKept, Zenon
<1>13. SrvStopsOnlyFor'
  BY <1>6 DEF SrvStopsOnlyFor
<1> QED
  BY <1>7, <1>9, <1>10, <1>11, <1>12, <1>13 DEF SrvInv

(* A request comes in.                                                     *)
LEMMA SrvReceived ==
  ASSUME SrvInv, SrvReceives  PROVE SrvInv'
<1>1. PICK input \in SrvInputs :
        /\ ~srv.crashed /\ srv' = [srv EXCEPT !.requests = Append(@, SrvSent(input))]
  BY DEF SrvReceives
<1>2. srv \in SrvStates
  BY DEF SrvInv
<1>3. PICK q : q = SrvSent(input)
  OBVIOUS
<1>4. q \in SrvRequests /\ q.status = "arrived" /\ q.answer = 0 /\ q.sdp = {}
  <2>1. {} \in SrvSdps /\ input.body \in SrvBodies /\ input.method \in SrvMethods
    BY SrvAssumption DEF SrvSdps, SrvBodies, SrvMethods
  <2> QED
    BY <2>1, <1>3 DEF SrvSent, SrvRequests
<1>5. PICK R : R = Append(srv.requests, q)
  OBVIOUS
<1>6. /\ R \in Seq(SrvRequests)
      /\ \A r \in DOMAIN srv.requests : r \in DOMAIN R /\ R[r] = srv.requests[r]
      /\ \A r \in DOMAIN R : r \in DOMAIN srv.requests \/ R[r] = q
  BY <1>5, <1>4, <1>2, SrvFields
<1>7. srv' = SrvState(R, srv.events, srv.lock, srv.pc, srv.now, srv.type, srv.crashed)
  <2>1. srv' = [srv EXCEPT !.requests = R]
    BY <1>1, <1>3, <1>5
  <2> QED
    BY <2>1, <1>2, SrvFields DEF SrvState
<1>8. /\ srv'.requests = R /\ srv'.events = srv.events /\ srv'.lock = srv.lock
      /\ srv'.pc = srv.pc /\ srv'.now = srv.now /\ ~srv'.crashed
  BY <1>7, <1>1 DEF SrvState
<1>9. srv' \in SrvStates
  BY <1>7, <1>6, <1>2, SrvFields, SrvStateType
<1>10. SrvHandled'
  <2>1. srv.now # 0 => srv.now \in DOMAIN R /\ R[srv.now] = srv.requests[srv.now]
    BY <1>6 DEF SrvInv, SrvHandled
  <2>2. srv.pc = "locked" => srv.now # 0
    BY DEF SrvInv, SrvHandled
  <2> QED
    BY <2>1, <2>2, <1>8, <1>1 DEF SrvInv, SrvHandled, SrvRequest
<1>11. SrvEventsOnce'
  <2>1. ASSUME NEW i \in DOMAIN srv.events
        PROVE  srv.events[i] \in DOMAIN R /\ srv.events[i] # srv.now
               /\ R[srv.events[i]].status = "announced"
    <3>1. PICK e : e = srv.events[i]
      OBVIOUS
    <3>2. e \in DOMAIN srv.requests /\ e # srv.now /\ srv.requests[e].status = "announced"
      BY <2>1, <3>1, Zenon DEF SrvInv, SrvEventsOnce
    <3> QED
      BY <3>1, <3>2, <1>6, Zenon
  <2>2. \A i, j \in DOMAIN srv.events : srv.events[i] = srv.events[j] => i = j
    BY Zenon DEF SrvInv, SrvEventsOnce
  <2> QED
    BY <2>1, <2>2, <1>8, Zenon DEF SrvEventsOnce
<1>12. SrvUnanswered'
  <2>1. \A n \in DOMAIN R : \/ n \in DOMAIN srv.requests /\ R[n] = srv.requests[n]
                            \/ R[n].answer = 0
    BY <1>6, <1>4, Zenon
  <2> QED
    BY <2>1, <1>8, SrvUnansweredKept DEF SrvInv
<1>13. SrvAnswersWhatIsAsked'
  <2>1. ASSUME NEW n \in DOMAIN R
        PROVE  \/ /\ n \in DOMAIN srv.requests /\ SrvSameAnswer(R[n], srv.requests[n])
                  /\ SrvDone(n)' => SrvDone(n)
               \/ /\ ~SrvDone(n)' /\ R[n].sdp = {}
                  /\ R[n].method \in {"REGISTER", "OPTIONS"} => R[n].answer = 0
    <3>1. CASE n \in DOMAIN srv.requests
      BY <3>1, <1>6, <1>8, Zenon DEF SrvSameAnswer, SrvDone
    <3>2. CASE R[n] = q
      BY <3>2, <1>4, <1>8, Zenon DEF SrvDone
    <3> QED
      BY <3>1, <3>2, <1>6
  <2> QED
    BY <2>1, <1>8, SrvAnswersKept, Zenon
<1>14. SrvStopsOnlyFor'
  <2>1. CASE srv.lock = "server" /\ srv.pc = "wait"
    <3>1. PICK r \in DOMAIN srv.requests :
            SrvDone(r) /\ srv.requests[r].method = "SUBSCRIBE" /\ srv.requests[r].answer = 0
      BY <2>1 DEF SrvInv, SrvStopsOnlyFor
    <3>2. SrvDone(r)'
      BY <3>1, <1>6, <1>8, Zenon DEF SrvDone
    <3>3. r \in DOMAIN R /\ R[r] = srv.requests[r]
      BY <1>6
    <3> QED
      BY <3>1, <3>2, <3>3, <1>8, Zenon DEF SrvStopsOnlyFor
  <2> QED
    BY <2>1, <1>8 DEF SrvStopsOnlyFor
<1> QED
  BY <1>9, <1>10, <1>11, <1>12, <1>13, <1>14 DEF SrvInv

-----------------------------------------------------------------------------
(* The handlers: the loop goes back to wait.                               *)
LEMMA SrvBackNow ==
  ASSUME NEW R, NEW held, NEW type, NEW s,
         s = SrvState(R, srv.events, held, srv.pc, srv.now, type, FALSE)
  PROVE  SrvBack(s) = SrvState(R, srv.events, held, "wait", 0, type, FALSE)
<1>1. ~s.crashed
  BY DEF SrvState
<1>2. PICK u : u = [s EXCEPT !.pc = "wait", !.now = 0]
  OBVIOUS
<1>3. u = SrvState(R, srv.events, held, "wait", 0, type, FALSE)
  BY <1>2 DEF SrvState
<1> QED
  BY <1>1, <1>2, <1>3, Zenon DEF SrvBack

(* The loop goes back to wait and gives the lock back.                     *)
LEMMA SrvUnlockedNow ==
  ASSUME NEW R, NEW held, NEW type, NEW s,
         s = SrvState(R, srv.events, held, srv.pc, srv.now, type, FALSE)
  PROVE  SrvUnlocked(s) = SrvState(R, srv.events, "free", "wait", 0, type, FALSE)
<1>1. PICK u : u = SrvBack(s)
  OBVIOUS
<1>2. u = SrvState(R, srv.events, held, "wait", 0, type, FALSE)
  BY <1>1, SrvBackNow, Zenon
<1>3. PICK v : v = [u EXCEPT !.lock = "free"]
  OBVIOUS
<1>4. v = SrvState(R, srv.events, "free", "wait", 0, type, FALSE)
  BY <1>2, <1>3 DEF SrvState
<1> QED
  BY <1>1, <1>3, <1>4, Zenon DEF SrvUnlocked

(* A refusal of a request without a type, which may be the end of the loop, *)
(* or the answer of the function of some type, which is that of the request *)
(* if it has one.                                                           *)
LEMMA SrvOutcomes ==
  ASSUME srv \in SrvStates, srv.now \in DOMAIN srv.requests, NEW o \in switch_to_function(srv)
  PROVE  \/ ~o.h.ok /\ SrvTyped(SrvRequest(srv).body) = {} /\ o.s \in {srv, SrvCrash(srv)}
         \/ \E type \in SrvKinds :
              /\ o.s = [srv EXCEPT !.type = type] /\ o.h = SrvEntry(type, SrvRequest(srv).body)
              /\ SrvMedias(SrvRequest(srv).body) # <<>>
              /\ SrvTyped(SrvRequest(srv).body) # {} => type = SrvNames(SrvRequest(srv).body)
<1>1. PICK body : body = SrvRequest(srv).body
  OBVIOUS
<1>2. body \in SrvBodies
  BY <1>1, SrvFields, SrvRequestFields DEF SrvRequest
<1>3. ASSUME NEW s  PROVE SrvRefusal(s).s = s /\ ~SrvRefusal(s).h.ok
  BY DEF SrvRefusal, SrvAgreed, SrvAnswering
<1>4. ASSUME NEW type  PROVE /\ SrvOutcome(srv, type).s = [srv EXCEPT !.type = type]
                             /\ SrvOutcome(srv, type).h = SrvEntry(type, body)
  BY <1>1 DEF SrvOutcome
<1>5. CASE SrvMedias(body) = <<>>
  <2>1. SrvTyped(body) = {}
    BY <1>5 DEF SrvTyped
  <2>2. switch_to_function(srv) = {SrvRefusal(srv)}
    BY <1>1, <1>5, <2>1 DEF switch_to_function
  <2> QED
    BY <1>1, <1>3, <2>1, <2>2
<1>6. CASE SrvMedias(body) # <<>> /\ SrvTyped(body) # {}
  <2>1. o = SrvOutcome(srv, SrvNames(body))
    BY <1>1, <1>6 DEF switch_to_function
  <2>2. SrvNames(body) \in SrvKinds
    BY <1>2, <1>6 DEF SrvKinds
  <2> QED
    BY <1>1, <1>4, <1>6, <2>1, <2>2
<1>7. CASE SrvMedias(body) # <<>> /\ SrvTyped(body) = {}
  <2>1. o \in {SrvOutcome(srv, srv.type), SrvOutcome(srv, "garbage"), SrvRefusal(SrvCrash(srv))}
    BY <1>1, <1>7 DEF switch_to_function
  <2>2. srv.type \in SrvKinds /\ "garbage" \in SrvKinds
    BY SrvFields DEF SrvKinds
  <2>3. CASE o = SrvOutcome(srv, srv.type)
    BY <2>3, <2>2, <1>1, <1>4, <1>7
  <2>4. CASE o = SrvOutcome(srv, "garbage")
    BY <2>4, <2>2, <1>1, <1>4, <1>7
  <2>5. CASE o = SrvRefusal(SrvCrash(srv))
    BY <2>5, <1>1, <1>3, <1>7
  <2> QED
    BY <2>1, <2>3, <2>4, <2>5
<1> QED
  BY <1>5, <1>6, <1>7

(* A MESSAGE, or a SUBSCRIBE: what is answered is what is asked.           *)
LEMMA SrvSwitched ==
  ASSUME SrvInv, ~srv.crashed, srv.pc # "wait", NEW o \in switch_to_function(srv),
         SrvRequest(srv).method \in {"MESSAGE", "SUBSCRIBE"},
         srv.lock = "server" => SrvRequest(srv).method = "SUBSCRIBE",
         NEW queued,
         queued = SrvQueue(o.s, 200, o.h.body),
         o.h.ok => srv' = SrvUnlocked(queued) \/ (srv.lock = "free" /\ srv' = SrvBack(queued)),
         ~o.h.ok => srv' = SrvBack(o.s)
  PROVE  SrvInv'
<1> DEFINE q == SrvRequest(srv)
<1>1. /\ srv \in SrvStates /\ srv.now \in DOMAIN srv.requests /\ srv.crashed = FALSE
      /\ q \in SrvRequests
  BY SrvFields DEF SrvInv, SrvHandled, SrvRequest
<1>2. CASE ~o.h.ok /\ SrvTyped(q.body) = {} /\ o.s = srv
  <2>1. srv = SrvState(srv.requests, srv.events, srv.lock, srv.pc, srv.now, srv.type, FALSE)
    BY <1>1, SrvFields
  <2>2. PICK R, held, type, s : R = srv.requests /\ held = srv.lock /\ type = srv.type /\ s = srv
    OBVIOUS
  <2>a. s = SrvState(R, srv.events, held, srv.pc, srv.now, type, FALSE)
    BY <2>1, <2>2
  <2>b. SrvBack(s) = SrvState(R, srv.events, held, "wait", 0, type, FALSE)
    BY <2>a, SrvBackNow, ZenonT(60)
  <2>3. srv' = SrvState(srv.requests, srv.events, srv.lock, "wait", 0, srv.type, FALSE)
    BY <1>2, <2>2, <2>b
  <2> QED
    BY <1>1, <1>2, <2>3, SrvFields, SrvForgotten DEF SrvServed
<1>3. CASE ~o.h.ok /\ SrvTyped(q.body) = {} /\ o.s = SrvCrash(srv)
  <2>1. PICK s : s = SrvCrash(srv)
    OBVIOUS
  <2>2. s = SrvState(srv.requests, srv.events, srv.lock, srv.pc, srv.now, srv.type, TRUE)
    BY <1>1, <2>1, SrvFields DEF SrvCrash, SrvState
  <2>3. srv' = s
    <3>1. s.crashed
      BY <2>2 DEF SrvState
    <3> QED
      BY <3>1, <1>3, <2>1, Zenon DEF SrvBack
  <2> QED
    BY <1>3, <2>2, <2>3, SrvCrashes
<1>4. ASSUME NEW type \in SrvKinds, o.s = [srv EXCEPT !.type = type],
             o.h = SrvEntry(type, q.body), SrvMedias(q.body) # <<>>,
             SrvTyped(q.body) # {} => type = SrvNames(q.body)
      PROVE  SrvInv'
  <2>1. CASE ~o.h.ok
    <3>1. PICK s : s = [srv EXCEPT !.type = type]
      OBVIOUS
    <3>2. s = SrvState(srv.requests, srv.events, srv.lock, srv.pc, srv.now, type, FALSE)
      BY <3>1, <1>1, SrvFields DEF SrvState
    <3>a. PICK R, held : R = srv.requests /\ held = srv.lock
      OBVIOUS
    <3>b. s = SrvState(R, srv.events, held, srv.pc, srv.now, type, FALSE)
      BY <3>2, <3>a
    <3>c. SrvBack(s) = SrvState(R, srv.events, held, "wait", 0, type, FALSE)
      BY <3>b, SrvBackNow, ZenonT(60)
    <3>d. srv' = SrvBack(s)
      BY <2>1, <1>4, <3>1, Zenon
    <3>3. srv' = SrvState(srv.requests, srv.events, srv.lock, "wait", 0, type, FALSE)
      BY <3>a, <3>c, <3>d
    <3>4. ~SrvServed(q.body)
      BY <2>1, <1>4, Zenon DEF SrvServed
    <3> QED
      BY <1>1, <3>3, <3>4, SrvFields, SrvForgotten
  <2>2. CASE o.h.ok
    <3>1. PICK sdp, p : sdp = o.h.body /\ p = SrvAnswer(q, 200, sdp)
      OBVIOUS
    <3>2. queued = SrvState(SrvPut(srv.now, p), srv.events, srv.lock, srv.pc, srv.now, type, FALSE)
      <4>1. SrvQueue([srv EXCEPT !.type = type], 200, sdp) =
              SrvState(SrvPut(srv.now, p), srv.events, srv.lock, srv.pc, srv.now, type, srv.crashed)
        BY <1>1, <3>1, SrvQueueIs
      <4>2. queued = SrvQueue([srv EXCEPT !.type = type], 200, sdp)
        BY <1>4, <3>1, Zenon
      <4> QED
        BY <4>1, <4>2, <1>1
    <3>3. srv' = SrvState(SrvPut(srv.now, p), srv.events, "free", "wait", 0, type, FALSE)
      <4>1. PICK R, held : R = SrvPut(srv.now, p) /\ held = srv.lock
        OBVIOUS
      <4>a. PICK s : s = queued
        OBVIOUS
      <4>2. s = SrvState(R, srv.events, held, srv.pc, srv.now, type, FALSE)
        BY <3>2, <4>1, <4>a
      <4>3. SrvBack(s) = SrvState(R, srv.events, held, "wait", 0, type, FALSE)
        BY <4>2, SrvBackNow, ZenonT(60)
      <4>4. SrvUnlocked(s) = SrvState(R, srv.events, "free", "wait", 0, type, FALSE)
        BY <4>2, SrvUnlockedNow, Zenon
      <4> QED
        BY <2>2, <4>1, <4>a, <4>3, <4>4
    <3>4. sdp \in SrvSdps
      BY <1>1, <1>4, <3>1, SrvRequestFields DEF SrvSdps
    <3>5. p.method = q.method /\ p.body = q.body /\ p.answer = 200 /\ p.sdp = sdp
      BY <3>1 DEF SrvAnswer
    <3>6. SrvAnsweredRight(p)
      <4>1. SrvTyped(p.body) # {} => SrvServed(p.body)
        <5>1. SrvTyped(q.body) # {} => SrvEntry(SrvNames(q.body), q.body).ok
          BY <2>2, <1>4
        <5> QED
          BY <5>1, <3>5, Zenon DEF SrvServed
      <4> QED
        BY <3>5, <4>1 DEF SrvAnsweredRight
    <3>7. SrvNamesType(p)
      <4>1. SrvGoodPairs(type, sdp)
        BY <1>4, <3>1, SrvEntryPairs
      <4> QED
        BY <4>1, <1>4, <3>5 DEF SrvGoodPairs, SrvNamesType
    <3> QED
      BY <3>1, <3>3, <3>4, <3>6, <3>7, SrvQueued, ZenonT(60)
  <2> QED
    BY <2>1, <2>2
<1> QED
  BY <1>1, <1>2, <1>3, <1>4, SrvOutcomes

(* A request that is none of the server's is dropped.                      *)
LEMMA SrvDropped ==
  ASSUME SrvInv, ~srv.crashed, srv.pc # "wait", srv.lock = "free", srv' = SrvBack(srv),
         SrvRequest(srv).method \notin {"MESSAGE", "SUBSCRIBE"}
  PROVE  SrvInv'
<1>1. /\ srv \in SrvStates /\ srv.crashed = FALSE
  BY SrvFields DEF SrvInv
<1>2. srv = SrvState(srv.requests, srv.events, srv.lock, srv.pc, srv.now, srv.type, FALSE)
  BY <1>1, SrvFields
<1>a. PICK R, held, type, s : R = srv.requests /\ held = srv.lock /\ type = srv.type /\ s = srv
  OBVIOUS
<1>b. s = SrvState(R, srv.events, held, srv.pc, srv.now, type, FALSE)
  BY <1>2, <1>a
<1>c. SrvBack(s) = SrvState(R, srv.events, held, "wait", 0, type, FALSE)
  BY <1>b, SrvBackNow, Zenon
<1>3. srv' = SrvState(srv.requests, srv.events, srv.lock, "wait", 0, srv.type, FALSE)
  BY <1>a, <1>c
<1> QED
  BY <1>1, <1>3, SrvFields, SrvForgotten

-----------------------------------------------------------------------------
(* The invariant holds before anything came,                               *)
LEMMA SrvInitInv == SrvInit => SrvInv
<1> SUFFICES ASSUME SrvInit  PROVE SrvInv
  OBVIOUS
<1>1. srv = SrvState(<<>>, <<>>, "free", "wait", 0, "absent", FALSE)
  BY DEF SrvInit, SrvState
<1>2. /\ srv.requests = <<>> /\ srv.events = <<>> /\ srv.lock = "free" /\ srv.pc = "wait"
      /\ srv.now = 0 /\ srv.crashed = FALSE
  BY DEF SrvInit
<1>3. srv \in SrvStates
  <2>1. "absent" \in SrvKinds
    BY DEF SrvKinds
  <2> QED
    BY <2>1 DEF SrvInit, SrvStates
<1>4. DOMAIN srv.requests = {} /\ DOMAIN srv.events = {}
  BY <1>2
<1> QED
  BY <1>2, <1>3, <1>4 DEF SrvInv, SrvHandled, SrvEventsOnce, SrvUnanswered,
     SrvAnswersWhatIsAsked, SrvStopsOnlyFor

(* and every step keeps it.                                                *)
LEMMA SrvStep == SrvInv /\ [SrvNext]_srv => SrvInv'
<1> SUFFICES ASSUME SrvInv, [SrvNext]_srv  PROVE SrvInv'
  OBVIOUS
<1>1. CASE SrvReceives
  BY <1>1, SrvReceived
<1>2. CASE SrvAnnounces
  BY <1>2, SrvAnnounced
<1>3. CASE SrvSendsAnswer
  BY <1>3, SrvSends
<1>4. CASE SrvTakes
  BY <1>4, SrvTaken
<1>5. CASE handle_request_message
  <2>1. /\ srv.pc = "handle" /\ SrvRequest(srv).method = "MESSAGE" /\ ~srv.crashed
        /\ srv.lock = "free"
    BY <1>5 DEF handle_request_message, SrvInv, SrvHandled
  <2>2. PICK o \in switch_to_function(srv) :
          srv' = IF o.h.ok THEN SrvBack(SrvQueue(o.s, 200, o.h.body)) ELSE SrvBack(o.s)
    BY <1>5 DEF handle_request_message
  <2> QED
    BY <2>1, <2>2, SrvSwitched
<1>6. CASE handle_request_register
  BY <1>6, SrvDropped DEF handle_request_register
<1>7. CASE SrvIgnores
  <2>1. srv.pc = "handle" /\ SrvRequest(srv).method = "OPTIONS" /\ srv' = SrvBack(srv)
    BY <1>7 DEF SrvIgnores
  <2>2. ~srv.crashed /\ srv.lock = "free"
    BY <2>1 DEF SrvInv, SrvHandled
  <2> QED
    BY <2>1, <2>2, SrvDropped
<1>8. CASE SrvLocks("SUBSCRIBE") \/ SrvLocks("INVITE")
  BY <1>8, SrvLocked
<1>9. CASE handle_request_subscribe
  <2>1. srv.pc = "locked" /\ SrvRequest(srv).method = "SUBSCRIBE" /\ ~srv.crashed
    BY <1>9 DEF handle_request_subscribe
  <2>2. PICK o \in switch_to_function(srv) :
          srv' = IF o.h.ok THEN SrvUnlocked(SrvQueue(o.s, 200, o.h.body)) ELSE SrvBack(o.s)
    BY <1>9 DEF handle_request_subscribe
  <2> QED
    BY <2>1, <2>2, SrvSwitched
<1>10. CASE handle_request_invite
  BY <1>10, SrvInvited
<1>11. CASE UNCHANGED srv
  BY <1>11, Zenon DEF SrvInv, SrvStates, SrvHandled, SrvEventsOnce, SrvUnanswered,
     SrvAnswersWhatIsAsked, SrvStopsOnlyFor, SrvDone, SrvRequest
<1> QED
  BY <1>1, <1>2, <1>3, <1>4, <1>5, <1>6, <1>7, <1>8, <1>9, <1>10, <1>11
     DEF SrvNext, SrvHandles

(* A request that names its type is answered if its function agrees, with  *)
(* the attributes of that type, and the loop stops only for what its       *)
(* handlers do not survive, for any requests and any bodies.               *)
THEOREM SrvAlwaysKeepsServing == SrvSpec => []SrvKeepsServing
<1>1. SrvInv => SrvKeepsServing
  <2>1. SrvInv => SrvTypeOK
    BY SrvFields, SrvRequestFields DEF SrvInv, SrvTypeOK
  <2> QED
    BY <2>1 DEF SrvInv, SrvKeepsServing
<1> QED
  BY <1>1, SrvInitInv, SrvStep, PTL DEF SrvSpec
=============================================================================
