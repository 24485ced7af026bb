-------------------------------- MODULE Tokens -------------------------------
(***************************************************************************)
(* Texts of osipparser2 and the helpers its parsers share (osip_port.c,    *)
(* osip_from.c, osip_uri.c).  A text is a sequence of tokens: white space  *)
(* (SP, HT, CR, LF), separators, quotes (QT), backslashes (BS) and words;  *)
(* NUL ends a string and may be inside a body; lengths count tokens.       *)
(* Positions start at 1 and 0 is NULL.                                     *)
(***************************************************************************)
EXTENDS Integers, Sequences, FiniteSets
LOCAL INSTANCE SequencesExt
LOCAL INSTANCE FiniteSetsExt

TokBlanks == {"SP", "HT", "CR", "LF"}

(* The character at a position, and the first of some characters from one. *)
TokAt(t, i) == IF i \in DOMAIN t THEN t[i] ELSE "NUL"
TokFirst(t, i, chars) ==
  Min({j \in i..Len(t) : t[j] \in chars} \cup {Len(t) + 1})
TokInOrder(S) ==
  [k \in 1..Cardinality(S) |-> CHOOSE n \in S : Cardinality({o \in S : o <= n}) = k]
TokIf(t, j, c) == IF TokAt(t, j) = c THEN j ELSE 0
strchr(t, i, c) == TokIf(t, TokFirst(t, i, {c, "NUL"}), c)

(* The first separator, unless the other one is before it. *)
next_separator(t, i, find, before) ==
  TokIf(t, TokFirst(t, i, {find, before, "NUL"}), find)

TokSpan(t, K) == IF K = {} THEN <<>> ELSE SubSeq(t, Min(K), Max(K))
osip_clrncpy(t, from, to) == TokSpan(t, {k \in from..to : t[k] \notin TokBlanks})
osip_clrspace(t) == osip_clrncpy(t, 1, Len(t))

(* A quote is escaped by an odd number of backslashes before it. *)
TokBackslashes(w, i, q) ==
  q - 1 - Max({k \in (i - 1)..(q - 1) : k < i \/ w[k] # "BS"})
TokLeast(Q) == IF Q = {} THEN 0 ELSE Min(Q)
osip_quote_find(w, i) ==
  TokLeast({q \in i..Len(w) : w[q] = "QT" /\ TokBackslashes(w, i, q) % 2 = 0})

(* Parameters: a name, and <<>> or the value in a sequence.  The last one  *)
(* may be empty, and only the last may have an equal sign and no value.    *)
TokParamEnd(v, s) == TokFirst(v, s + 1, {";"})
TokParamSep(v, s) == TokFirst(v, s + 1, {"=", ";"})
TokParamValue(v, sep, end) ==
  LET first == Min({k \in (sep + 1)..(Len(v) + 1) : TokAt(v, k) \notin {"SP", "HT"}})
  IN  IF sep = end \/ TokAt(v, first) \in {",", "NUL"} THEN <<>>
      ELSE <<osip_clrncpy(v, sep + 1, end - 1)>>
TokParamBad(v, s, sep, end) ==
  LET last == end = Len(v) + 1
  IN  \/ sep = s + 1 /\ ~(last /\ sep = end)
      \/ sep + 1 = end /\ ~last
TokParams(v, i) ==
  LET order == TokInOrder({j \in i..Len(v) : v[j] = ";"})
      One(s) == [name  |-> osip_clrncpy(v, s + 1, TokParamSep(v, s) - 1),
                 value |-> TokParamValue(v, TokParamSep(v, s), TokParamEnd(v, s))]
  IN  IF i = 0 THEN [ok |-> TRUE, params |-> <<>>]
      ELSE [ok |-> ~\E s \in Range(order) : TokParamBad(v, s, TokParamSep(v, s), TokParamEnd(v, s)),
            params |-> [k \in {n \in DOMAIN order : order[n] < Len(v)} |-> One(order[k])]]
=============================================================================
