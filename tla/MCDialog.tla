------------------------------ MODULE MCDialog ------------------------------
(* A strict router behind a loose one and alone; and, for the divergence,  *)
(* in front of another router.                                             *)
EXTENDS Dialog

DlgLoose     == [lr |-> TRUE, rr |-> TRUE]
DlgStrict    == [lr |-> FALSE, rr |-> TRUE]
DlgPasses    == [lr |-> TRUE, rr |-> FALSE]
DlgTwoChains == {<<DlgLoose, DlgStrict, DlgPasses, DlgLoose>>, <<DlgStrict>>}
DlgStrictFirst == {<<DlgStrict, DlgLoose>>}
=============================================================================
