------------------------------ MODULE CallHeap ------------------------------
(***************************************************************************)
(* The objects of one call: the call (eXosip_call_t), its dialogs          *)
(* (eXosip_dialog_t), its transactions (osip_transaction_t) and the list   *)
(* j_transactions of what waits to be freed.  Objects are numbered in the  *)
(* order they are made and a number is not used again, so that a reference *)
(* that is left behind shows.  A heap is a record of all of them and an    *)
(* operation takes a heap to a heap.                                       *)
(***************************************************************************)
EXTENDS Integers, Sequences, SequencesExt

CONSTANTS MaxTr,       \* transactions made during the call
          MaxDialog    \* dialogs made during the call

NULL == 0
Ref == 1..MaxTr
Dialogs == 1..MaxDialog

NoTr == [kind |-> "none", method |-> "none", state |-> "NONE", resp |-> "none",
         ff |-> <<>>, jc |-> FALSE, jd |-> NULL, cseq |-> 0, age |-> 0, fresh |-> FALSE]
NoDialog == [state |-> "none", inc |-> <<>>, out |-> <<>>, ok |-> FALSE, count |-> 0,
             retry |-> 0, local |-> 0, remote |-> FALSE, replaced |-> FALSE]
NoCall == [state |-> "none", inc |-> NULL, out |-> NULL, dialogs |-> <<>>, retry |-> 0,
           expire |-> 0]

EmptyHeap == [call |-> NoCall, dlg |-> [d \in Dialogs |-> NoDialog],
              tr |-> [t \in Ref |-> NoTr], made |-> 0, dialogs |-> 0,
              garbage |-> {}, fault |-> FALSE, minutes |-> 0]

HasRoom(h) == h.made < MaxTr
HasRoomForDialog(h) == h.dialogs < MaxDialog

(* an event e for the application; the call and the dialog are dereferenced *)
Report(h, e, d) ==
  [h EXCEPT !.fault = @ \/ h.call.state = "freed" \/ (d # NULL /\ h.dlg[d].state = "freed")]

Garbage(h, t) == [h EXCEPT !.garbage = @ \cup {t}]

(* _eXosip_delete_reserved *)
DeleteReserved(h, t) ==
  IF t = NULL THEN h ELSE [h EXCEPT !.tr[t].jc = FALSE, !.tr[t].jd = NULL]

(* _eXosip_transaction_init; the transaction is h.made of the result *)
TransactionInit(h, kind, method, cseq, ff) ==
  [h EXCEPT !.made = @ + 1,
            !.tr[h.made + 1] = [NoTr EXCEPT !.kind = kind, !.method = method,
                                            !.state = "NEW", !.cseq = cseq, !.ff = ff]]

SetReserved(h, t, jc, d) == [h EXCEPT !.tr[t].jc = jc, !.tr[t].jd = d]

AddEvent(h, t, e) == [h EXCEPT !.tr[t].ff = Append(@, e)]

AddIncoming(h, d, t) == [h EXCEPT !.dlg[d].inc = <<t>> \o @]
AddOutgoing(h, d, t) == [h EXCEPT !.dlg[d].out = <<t>> \o @]

(* _eXosip_dialog_init_as_uac, _eXosip_dialog_init_as_uas and ADD_ELEMENT; *)
(* the dialog is h.dialogs of the result                                   *)
DialogInit(h, state, local, remote) ==
  [h EXCEPT !.dialogs = @ + 1,
            !.dlg[h.dialogs + 1] = [NoDialog EXCEPT !.state = state, !.local = local,
                                                    !.remote = remote],
            !.call.dialogs = <<h.dialogs + 1>> \o @]

(* The osip_dialog of d is freed and made again from a 1xx (the "to be     *)
(* tested" branch of cb_rcv1xx), as osip_dialog_init_as_uac makes it.      *)
ReplaceDialog(h, d, local) ==
  [h EXCEPT !.dlg[d].state = "EARLY", !.dlg[d].local = local,
            !.dlg[d].remote = FALSE, !.dlg[d].replaced = TRUE]

(* The dialog no longer has a d_dialog, which held the state and the CSeq  *)
(* numbers; _eXosip_update makes its d_id -1.                              *)
DropDialog(h, d) ==
  [h EXCEPT !.dlg[d].state = "gone", !.dlg[d].local = 0, !.dlg[d].remote = FALSE]

Without(s, x) == SelectSeq(s, LAMBDA y : y # x)

(* a mutant of DialogFree: the transactions keep their references *)
DialogFreeKeepsReferences(h, d) ==
  [h EXCEPT !.call.dialogs = Without(@, d),
            !.dlg[d] = [NoDialog EXCEPT !.state = "freed"],
            !.garbage = @ \cup Range(h.dlg[d].inc) \cup Range(h.dlg[d].out)]
(* _eXosip_dialog_free after REMOVE_ELEMENT: its transactions forget the   *)
(* call and wait to be freed.                                              *)
DialogFree(h, d) ==
  LET own == Range(h.dlg[d].inc) \cup Range(h.dlg[d].out) IN
  [h EXCEPT !.call.dialogs = Without(@, d),
            !.dlg[d] = [NoDialog EXCEPT !.state = "freed"],
            !.tr = [t \in Ref |-> IF t \in own
                                  THEN [@[t] EXCEPT !.jc = FALSE, !.jd = NULL] ELSE @[t]],
            !.garbage = @ \cup own]

(* _eXosip_call_remove_dialog_reference_in_call *)
RemoveDialogReference(h, d) ==
  [h EXCEPT !.tr = [t \in Ref |-> IF t \in {h.call.inc, h.call.out} /\ @[t].jd = d
                                  THEN [@[t] EXCEPT !.jd = NULL] ELSE @[t]]]

(* _eXosip_call_free *)
CallFree(h) ==
  LET h1 == FoldLeft(DialogFree, h, h.call.dialogs)
      h2 == DeleteReserved(DeleteReserved(h1, h.call.inc), h.call.out)
  IN [h2 EXCEPT !.garbage = @ \cup ({h.call.inc, h.call.out} \ {NULL}),
                !.call = [NoCall EXCEPT !.state = "freed"]]

-----------------------------------------------------------------------------
(* The transactions of a dialog, and those that started the call.          *)
First(h, s, method) ==
  LET found == SelectSeq(s, LAMBDA t : h.tr[t].method = method)
  IN IF found = <<>> THEN NULL ELSE Head(found)

LastInc(h, d, method) == IF d = NULL THEN NULL ELSE First(h, h.dlg[d].inc, method)
LastOut(h, d, method) == IF d = NULL THEN NULL ELSE First(h, h.dlg[d].out, method)
Either(t, u) == IF t = NULL THEN u ELSE t
LastIncInvite(h, d) == Either(LastInc(h, d, "INVITE"), h.call.inc)
LastOutInvite(h, d) == Either(LastOut(h, d, "INVITE"), h.call.out)

(* _eXosip_find_last_transaction, _eXosip_find_last_invite: by birth_time, *)
(* the outgoing one when they are equal (ages are coarse, numbers are not) *)
Later(t, u) == IF t > u THEN t ELSE u
LastOf(h, d, method) ==
  IF method = "INVITE" THEN Later(LastIncInvite(h, d), LastOutInvite(h, d))
  ELSE Later(LastInc(h, d, method), LastOut(h, d, method))

(* _eXosip_remove_transaction_from_call *)
RemoveFromCall(h, t) ==
  [h EXCEPT !.call.inc = IF @ = t THEN NULL ELSE @,
            !.call.out = IF @ = t THEN NULL ELSE @,
            !.dlg = [d \in Dialogs |-> [@[d] EXCEPT !.inc = Without(@, t),
                                                    !.out = Without(@, t)]]]

(* _eXosip_call_transaction_find: the dialog that goes with a transaction *)
DialogOf(h, t) ==
  IF t \in {h.call.inc, h.call.out}
  THEN IF h.call.dialogs = <<>> THEN NULL ELSE Head(h.call.dialogs)
  ELSE LET own == {d \in Range(h.call.dialogs) :
                     t \in Range(h.dlg[d].inc) \cup Range(h.dlg[d].out)}
       IN IF own = {} THEN NULL ELSE CHOOSE d \in own : TRUE
InCall(h, t) ==
  t \in {h.call.inc, h.call.out}
    \cup UNION {Range(h.dlg[d].inc) \cup Range(h.dlg[d].out) : d \in Range(h.call.dialogs)}
=============================================================================
