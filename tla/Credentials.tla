----------------------------- MODULE Credentials -----------------------------
(***************************************************************************)
(* Challenges and their answers: how osipparser2 reads and writes          *)
(* WWW-Authenticate, Authorization (the Proxy headers have the same        *)
(* parsers) and Authentication-Info.  The parser tries the parameters it   *)
(* knows in turn at a position, and moves on when one is found; quoted     *)
(* values keep their quotes.  A parameter that is missing (NULL) is <<>>,  *)
(* else a sequence with its value; words have as many characters as they   *)
(* have letters.                                                           *)
(***************************************************************************)
EXTENDS Tokens
LOCAL INSTANCE SequencesExt
LOCAL INSTANCE FiniteSetsExt

CONSTANT CrdValues      \* the values of headers: their kind and their text
CrdKinds == {"www-authenticate", "authorization", "authentication-info"}
ASSUME CrdAssumption == \A v \in CrdValues : v.kind \in CrdKinds /\ Len(v.text) > 0

VARIABLE crd

CrdChars(t, i) ==
  MapThenSumSet(LAMBDA k : IF t[k] \in TokBlanks \cup {"QT", "BS"} THEN 1 ELSE Len(t[k]),
                i..Len(t))
CrdBegins(word, name) == Len(word) >= Len(name) /\ SubSeq(word, 1, Len(name)) = name

(* The parameters in the order they are tried, and in that they are        *)
(* written; the others than these are quoted.                              *)
CrdTokens == {"stale", "algorithm", "nc"}
CrdIsToken(kind, name) == name \in CrdTokens \/ (name = "qop" /\ kind # "www-authenticate")
CrdTried(kind) ==
  CASE kind = "www-authenticate" ->
         <<"realm", "domain", "nonce", "opaque", "stale", "algorithm", "qop">>
    [] kind = "authorization" ->
         <<"username", "realm", "nonce", "uri", "response", "digest", "algorithm", "cnonce",
           "opaque", "qop", "nc">>
    [] kind = "authentication-info" -> <<"nextnonce", "cnonce", "rspauth", "nc", "qop">>
CrdWritten(kind) ==
  IF kind = "authentication-info" THEN <<"qop", "nextnonce", "rspauth", "cnonce", "nc">>
  ELSE CrdTried(kind)

-----------------------------------------------------------------------------
(* One parameter at a position: its value, and where the next one is       *)
(* (NULL at the end of the text).                                          *)
CrdPast(t, i, chars) == Min({k \in i..(Len(t) + 1) : TokAt(t, k) \notin chars})
CrdNextAt(t, i) ==
  LET k == CrdPast(t, CrdPast(t, CrdPast(t, i, {"SP", "HT"}), {"CR", "LF"}), {"SP", "HT"})
  IN  IF TokAt(t, k) = "NUL" THEN 0 ELSE k
CrdBad == [ok |-> FALSE]
CrdTook(value, next) == [ok |-> TRUE, value |-> value, next |-> next]

(* An empty quoted value is forgotten. *)
CrdQuoted(t, q1, q2) ==
  IF q1 = 0 \/ q2 = 0 THEN CrdBad
  ELSE CrdTook(IF q2 = q1 + 1 THEN <<>> ELSE <<SubSeq(t, q1, q2)>>, CrdNextAt(t, q2 + 1))
osip_quoted_string_set(name, t, str) ==
  LET s     == CrdPast(t, str, {"SP", "HT", ","})
      hack  == strchr(t, s, "=")
      named == Max({k \in s..hack : k = s \/ t[k - 1] # "SP"})
      q1    == osip_quote_find(t, s)
  IN  IF CrdChars(t, s) <= Len(name) THEN CrdBad
      ELSE IF ~CrdBegins(t[s], name) THEN CrdTook(<<>>, s)
      ELSE IF hack = 0 THEN CrdBad
      ELSE IF named # s + 1 \/ t[s] # name THEN CrdTook(<<>>, s)
      ELSE CrdQuoted(t, q1, osip_quote_find(t, q1 + 1))
osip_token_set(name, t, str) ==
  LET beg == strchr(t, str, "=")
      s   == CrdPast(t, str, {"SP", "HT", ","})
      end == TokFirst(t, s, {","})
  IN  IF beg = 0 THEN CrdBad
      ELSE IF CrdChars(t, str) < 6 THEN CrdTook(<<>>, 0)
      ELSE IF ~CrdBegins(TokAt(t, s), name) THEN CrdTook(<<>>, s)
      ELSE IF end - beg < 2 THEN CrdBad
      ELSE CrdTook(<<osip_clrncpy(t, beg + 1, end - 1)>>, CrdNextAt(t, Min({end, Len(t)}) + 1))
CrdSet(kind, name, t, str, old) ==
  IF old # <<>> THEN CrdTook(old, str)
  ELSE IF CrdIsToken(kind, name) THEN osip_token_set(name, t, str)
  ELSE osip_quoted_string_set(name, t, str)

(* A parameter that is not known is skipped up to the next comma that is   *)
(* not within quotes.                                                      *)
CrdSkipped(t, space) ==
  LET comma  == strchr(t, space + 1, ",")
      quote1 == osip_quote_find(t, space)
      quote2 == osip_quote_find(t, quote1 + 1)
      inside == quote1 # 0 /\ quote1 < comma
  IN  IF space > Len(t) \/ comma = 0 THEN CrdTook(<<>>, 0)
      ELSE IF inside /\ quote2 = 0 THEN CrdBad
      ELSE CrdTook(<<>>, IF inside /\ comma < quote2 THEN strchr(t, quote2, ",") ELSE comma)

CrdRefused == [ok |-> FALSE]
CrdRead(c) == [ok |-> TRUE, value |-> c]
RECURSIVE CrdLoop(_, _, _, _, _, _)
CrdStep(kind, t, space, k, moved, c, r) ==
  LET kept == IF k > Len(CrdTried(kind)) THEN c ELSE [c EXCEPT ![CrdTried(kind)[k]] = r.value]
  IN  IF ~r.ok THEN CrdRefused
      ELSE IF r.next = 0 THEN CrdRead(kept)
      ELSE IF k > Len(CrdTried(kind)) THEN CrdLoop(kind, t, r.next, 1, FALSE, kept)
      ELSE CrdLoop(kind, t, r.next, k + 1, moved \/ r.next # space, kept)
CrdLoop(kind, t, space, k, moved, c) ==
  IF k <= Len(CrdTried(kind))
  THEN CrdStep(kind, t, space, k, moved, c,
               CrdSet(kind, CrdTried(kind)[k], t, space, c[CrdTried(kind)[k]]))
  ELSE IF moved THEN CrdLoop(kind, t, space, 1, FALSE, c)
  ELSE CrdStep(kind, t, space, k, moved, c, CrdSkipped(t, space))
CrdNone(kind, type) ==
  [n \in Range(CrdTried(kind)) \cup {"auth_type"} |-> IF n = "auth_type" THEN type ELSE <<>>]
CrdParse(kind, t) ==
  LET space == strchr(t, 1, "SP")
  IN  IF kind = "authentication-info" THEN CrdLoop(kind, t, 1, 1, FALSE, CrdNone(kind, <<>>))
      ELSE IF space < 2 THEN CrdRefused
      ELSE CrdLoop(kind, t, space, 1, FALSE, CrdNone(kind, <<SubSeq(t, 1, space - 1)>>))

-----------------------------------------------------------------------------
(* Writing: the first parameter follows a blank and the others ", "; only  *)
(* WWW-Authenticate takes the comma away when the first is missing.        *)
CrdGiven(kind, c) == SelectSeq(CrdWritten(kind), LAMBDA n : c[n] # <<>>)
CrdPair(c, name) == <<name, "=">> \o c[name][1]
CrdWrite(kind, c) ==
  LET given == CrdGiven(kind, c)
      Before(k) == IF kind = "authentication-info" THEN IF k = 1 THEN <<>> ELSE <<",", "SP">>
                   ELSE IF given[k] = CrdWritten(kind)[1] THEN <<"SP">>
                   ELSE IF k = 1 /\ kind = "www-authenticate" THEN <<"SP", "SP">>
                   ELSE <<",", "SP">>
      type  == IF kind = "authentication-info" THEN <<>> ELSE c["auth_type"][1]
  IN  type \o FlattenSeq([k \in DOMAIN given |-> Before(k) \o CrdPair(c, given[k])])

CrdInit ==
  crd = [phase |-> "start", kind |-> "authorization", text |-> <<>>, read |-> CrdRefused]
CrdReads ==
  /\ crd.phase = "start"
  /\ \E v \in CrdValues : \E r \in {CrdParse(v.kind, v.text)} :
       crd' = [phase |-> "read", kind |-> v.kind, text |-> v.text, read |-> r]
CrdWrites ==
  /\ crd.phase = "read" /\ crd.read.ok
  /\ crd.kind = "authentication-info" => CrdGiven(crd.kind, crd.read.value) # <<>>
  /\ crd' = [crd EXCEPT !.phase = "written", !.text = CrdWrite(crd.kind, crd.read.value)]
CrdNext == CrdReads \/ CrdWrites

-----------------------------------------------------------------------------
(* What is written is read as what it was.  Not for an Authorization       *)
(* without a username (its comma is read as part of the type), and not     *)
(* when the last parameter is no longer than the name of a missing one     *)
(* that is tried before (the header is refused).                           *)
CrdLast(kind, c) == Last(CrdGiven(kind, c))
CrdWritable(kind, c) ==
  /\ CrdGiven(kind, c) # <<>>
  /\ kind = "authorization" => c["username"] # <<>>
  /\ \A n \in Range(CrdTried(kind)) :
       (c[n] = <<>> /\ ~CrdIsToken(kind, n)) =>
          CrdChars(CrdPair(c, CrdLast(kind, c)), 1) > Len(n)
CredentialsKept ==
  (crd.phase = "written" /\ CrdWritable(crd.kind, crd.read.value)) =>
     CrdParse(crd.kind, crd.text) = crd.read
=============================================================================
