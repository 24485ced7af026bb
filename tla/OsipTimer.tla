----------------------------- MODULE OsipTimer -----------------------------
(***************************************************************************)
(* The timers of the four transaction machines.  A timer of the code is a  *)
(* timeval (the time it is due, or tv_sec = -1) and a length; the model    *)
(* keeps the time that is left, in ticks of T1, so that no absolute clock  *)
(* is needed.  A timer that is due stays due until somebody polls it: the  *)
(* poll may come late.                                                     *)
(***************************************************************************)
EXTENDS Integers

CONSTANTS T1,      \* DEFAULT_T1, the first retransmission interval
          T2,      \* the cap of the interval, 4000 ms = 8 * DEFAULT_T1
          T4,      \* DEFAULT_T4, 5000 ms = 10 * DEFAULT_T1
          Timeout  \* 64 * DEFAULT_T1, also 32000 ms

ASSUME TimerAssumption ==
  /\ T1 \in Nat \ {0} /\ T2 \in Nat \ {0} /\ T1 <= T2
  /\ T4 \in Nat \ {0} /\ Timeout \in Nat \ {0}

Off == -1

Times == Nat \cup {Off}

(* A length below -1, the double of the length of a timer that was stopped: *)
(* the timer is due as soon as it is started.                              *)
Negative == -2

Lengths == Times \cup {Negative}

(* __osip_transaction_need_timer_x_event: started, and its time has come   *)
Due(timer) == timer = 0

Elapse(timer) == IF timer > 0 THEN timer - 1 ELSE timer

Doubled(length) == IF length < 0 THEN Negative ELSE 2 * length

DoubledUpToT2(length) == IF 2 * length > T2 THEN T2 ELSE Doubled(length)

(* add_gettimeofday: a timer started with this length *)
Started(length) == IF length < 0 THEN 0 ELSE length
=============================================================================
