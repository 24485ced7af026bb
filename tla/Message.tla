------------------------------- MODULE Message -------------------------------
(***************************************************************************)
(* The SIP messages of osipparser2: how one is read from a text            *)
(* (osip_message_parse.c), written (osip_message_to_str.c), changed,       *)
(* copied, and how the text written last is kept with it.  A value is      *)
(* refused by the parser of its header when it has a "!".                  *)
(***************************************************************************)
EXTENDS Tokens
LOCAL INSTANCE SequencesExt
LOCAL INSTANCE FiniteSetsExt
LOCAL INSTANCE TLC

CONSTANTS MsgTexts,     \* the texts that are received
          MsgValues,    \* values of headers, to be split at their commas
          MsgHeaders,   \* headers the application sets: name and value
          MsgBodies,    \* bodies it attaches
          MsgMaxCalls   \* bound: calls of the application on a message

ASSUME MsgAssumption ==
  /\ \A t \in MsgTexts \cup MsgValues \cup MsgBodies : Len(t) > 0
  /\ \A h \in MsgHeaders : DOMAIN h = {"name", "value"}
  /\ MsgMaxCalls \in Nat

VARIABLE msg

MsgEnds == {"CR", "LF"}
MsgCRLF == <<"CR", "LF">>

-----------------------------------------------------------------------------
(* The message *)
MsgTable == <<"via", "record-route", "route", "from", "to", "call-id", "cseq", "contact",
  "authorization", "www-authenticate", "proxy-authenticate", "proxy-authorization",
  "content-type", "mime-version", "allow", "content-encoding", "call-info", "alert-info",
  "error-info", "accept", "accept-encoding", "accept-language", "authentication-info",
  "proxy-authentication-info">>
MsgFields == Range(MsgTable) \cup {"content-length"}
MsgAlone  == {"from", "to", "call-id", "cseq", "content-type", "mime-version", "content-length"}
MsgBody   == [ct |-> <<>>, headers |-> <<>>, body |-> <<>>]
osip_message_init ==
  [method |-> "null", version |-> "null", uri |-> "null", code |-> "0", reason |-> <<"null">>,
   h |-> [f \in MsgFields |-> <<>>], headers |-> <<>>, bodies |-> <<>>, property |-> 3,
   message |-> <<>>]
MsgDone(m)     == [m |-> m, ok |-> TRUE]
MsgRefused(m)  == [m |-> m, ok |-> FALSE]
MsgChanged(m)  == [m EXCEPT !.property = 2]

(* parser_init: the headers with a parser, those of one letter, and the    *)
(* ones whose errors are ignored                                           *)
MsgShort == [c |-> "content-type", e |-> "content-encoding", f |-> "from", i |-> "call-id",
             l |-> "content-length", m |-> "contact", t |-> "to", v |-> "via"]
osip_message_is_known_header(name) ==
  IF name \in MsgFields THEN name
  ELSE IF name \in DOMAIN MsgShort THEN MsgShort[name] ELSE "unknown"
MsgIgnoredWhenInvalid ==
  MsgFields \ {"content-type", "call-id", "contact", "content-length", "cseq", "from", "to", "via"}

(* Content-Type: type/subtype and parameters; one without value cannot be  *)
(* written.                                                                *)
osip_content_type_parse(v) ==
  LET slash  == strchr(v, 1, "/")
      semi   == strchr(v, 1, ";")
      end    == IF semi = 0 THEN Len(v) + 1 ELSE semi
      params == TokParams(v, semi)
  IN  IF slash < 2 \/ end - slash < 2 \/ "!" \in Range(v) \/ ~params.ok THEN [ok |-> FALSE]
      ELSE [ok |-> TRUE,
            ct |-> [type |-> osip_clrncpy(v, 1, slash - 1),
                    subtype |-> osip_clrncpy(v, slash + 1, end - 1), params |-> params.params]]
osip_content_type_to_str(ct) ==
  IF \E k \in DOMAIN ct.params : ct.params[k].value = <<>> THEN [ok |-> FALSE]
  ELSE [ok |-> TRUE,
        text |-> ct.type \o <<"/">> \o ct.subtype \o FlattenSeq(
          [k \in DOMAIN ct.params |->
             <<";", "SP">> \o ct.params[k].name \o <<"=">> \o ct.params[k].value[1]])]

-----------------------------------------------------------------------------
(* Setting a header.  A message has one From, To, Call-ID, CSeq,           *)
(* Mime-Version and Content-Length at most, and may have several of the    *)
(* others.                                                                 *)
MsgSetOne(m, f, v) ==
  IF v = <<>> THEN MsgDone(m)
  ELSE IF m.h[f] # <<>> THEN MsgRefused(m)
  ELSE IF "!" \in Range(v) THEN MsgRefused(MsgChanged(m))
  ELSE MsgDone([MsgChanged(m) EXCEPT !.h[f] = <<v>>])
osip_message_set_content_type(m, v) ==
  LET p == osip_content_type_parse(v)
  IN  IF m.h["content-type"] # <<>> THEN MsgRefused(m)
      ELSE IF v = <<>> THEN MsgDone(m)
      ELSE IF ~p.ok THEN MsgRefused(MsgChanged(m))
      ELSE MsgDone([MsgChanged(m) EXCEPT !.h["content-type"] = <<p.ct>>])
MsgSetMany(m, f, v) ==
  IF v = <<>> /\ f # "accept" THEN MsgDone(m)
  ELSE IF "!" \in Range(v) THEN MsgRefused(m)
  ELSE MsgDone([MsgChanged(m) EXCEPT !.h[f] = Append(@, v)])

osip_message_call_method(f, m, v) ==
  LET r == IF f = "content-type" THEN osip_message_set_content_type(m, v)
           ELSE IF f \in MsgAlone THEN MsgSetOne(m, f, v) ELSE MsgSetMany(m, f, v)
  IN  [r EXCEPT !.ok = @ \/ f \in MsgIgnoredWhenInvalid]
MsgHeader(name, v) == [name |-> name, value |-> osip_clrspace(v)]
(* An unknown header goes to the end of the list. *)
osip_message_set_header(m, name, v) ==
  [MsgChanged(m) EXCEPT !.headers = Append(@, MsgHeader(name, v))]
osip_message_set_topheader(m, name, v) ==
  [MsgChanged(m) EXCEPT !.headers = <<MsgHeader(name, v)>> \o @]
osip_message_header_get_byname(m, name) ==
  SelectInSeq(m.headers, LAMBDA h : h.name = name)
osip_message_replace_header(m, name, v) ==
  LET old == osip_message_header_get_byname(m, name)
      kept == IF old = 0 THEN m ELSE [m EXCEPT !.headers = RemoveAt(@, old)]
  IN  osip_message_set_header(kept, name, v)
osip_message_set__header(m, name, v) ==
  LET f == osip_message_is_known_header(name)
  IN  IF f # "unknown" THEN osip_message_call_method(f, m, v)
      ELSE MsgDone(osip_message_set_header(m, name, v))

-----------------------------------------------------------------------------
(* A header may carry several values, separated by the commas that are not *)
(* within quotes: `beg' is where the value starts that ends at `comma' or  *)
(* later, and the quotes are looked for from `ptr'.                        *)
MsgNeverSplit == {"date", "to", "from", "call-id", "cseq", "subject", "expires", "server",
  "user-agent", "www-authenticate", "authentication-info", "proxy-authenticate",
  "proxy-authorization", "proxy-authentication-info", "organization", "authorization"}
MsgLastValue(w, beg) ==
  IF TokAt(w, beg) = "NUL" \/ TokAt(w, beg + 1) = "NUL" THEN <<>>
  ELSE <<osip_clrncpy(w, beg, Len(w))>>

RECURSIVE MsgCommaPast(_, _, _, _)
MsgCommaPast(w, comma, quote1, quote2) ==
  LET past  == IF comma < quote2 THEN strchr(w, quote2 + 1, ",") ELSE comma
      next1 == osip_quote_find(w, quote2 + 1)
      next2 == osip_quote_find(w, next1 + 1)
  IN  IF comma < quote1 THEN comma
      ELSE IF next1 = 0 \/ next2 = 0 THEN past
      ELSE MsgCommaPast(w, past, next1, next2)

RECURSIVE MsgSplitFrom(_, _, _, _)
MsgSplitFrom(w, ptr, comma, beg) ==
  LET quote1 == osip_quote_find(w, ptr)
      quote2 == osip_quote_find(w, quote1 + 1)
      after  == strchr(w, comma + 1, ",")
      next   == IF quote1 = 0 THEN after ELSE MsgCommaPast(w, after, quote1, quote2)
      beyond == strchr(w, quote2 + 1, ",")
      last   == [ok |-> TRUE, values |-> MsgLastValue(w, beg)]
      rest   == IF next = 0 THEN [ok |-> TRUE, values |-> MsgLastValue(w, comma + 1)]
                ELSE MsgSplitFrom(w, next + 1, next, comma + 1)
  IN  IF quote1 # 0 /\ quote2 = 0 THEN [ok |-> FALSE, values |-> <<>>]
      ELSE IF quote1 # 0 /\ quote2 < comma THEN MsgSplitFrom(w, quote2 + 1, comma, beg)
      ELSE IF quote1 # 0 /\ quote1 < comma
           THEN IF beyond = 0 THEN last ELSE MsgSplitFrom(w, quote2 + 1, beyond, beg)
      ELSE IF comma = beg THEN [ok |-> FALSE, values |-> <<>>]
      ELSE [rest EXCEPT !.values = <<osip_clrncpy(w, beg, comma - 1)>> \o @]
MsgSplit(name, w) ==
  IF name \in MsgNeverSplit \/ strchr(w, 1, ",") = 0 THEN [ok |-> TRUE, values |-> <<w>>]
  ELSE MsgSplitFrom(w, 1, strchr(w, 1, ","), 1)

RECURSIVE MsgSetAll(_, _, _)
MsgSetRest(r, name, values) == IF r.ok THEN MsgSetAll(r.m, name, values) ELSE r
MsgSetAll(m, name, values) ==
  IF values = <<>> THEN MsgDone(m)
  ELSE MsgSetRest(osip_message_set__header(m, name, Head(values)), name, Tail(values))
osip_message_set_multiple_header(m, name, w) ==
  LET s == MsgSplit(name, w)
      r == MsgSetAll(m, name, s.values)
  IN  [r EXCEPT !.ok = @ /\ s.ok]

-----------------------------------------------------------------------------
(* The lines of a text.  A line that ends in white space goes on; these    *)
(* ends become blanks before anything else, up to the empty line.          *)
RECURSIVE MsgFold(_, _)
MsgFold(t, i) ==
  LET a == TokAt(t, i)
      b == TokAt(t, i + 1)
      c == TokAt(t, i + 2)
      d == TokAt(t, i + 3)
      over  == \/ "NUL" \in {a, b, c, d} \/ <<a, b, c, d>> = MsgCRLF \o MsgCRLF
               \/ a = "CR" /\ b = "CR"
               \/ a = "LF" /\ b = "LF"
      folds == \/ <<a, b>> = MsgCRLF /\ c \in {"SP", "HT"}
               \/ a \in MsgEnds /\ b \in {"SP", "HT"}
      end   == Min({j \in (i + 2)..(Len(t) + 1) : TokAt(t, j) \notin {"SP", "HT"}})
  IN  IF over THEN t
      ELSE IF folds
           THEN MsgFold([k \in DOMAIN t |-> IF k \in i..(end - 1) THEN "SP" ELSE t[k]], end + 1)
      ELSE MsgFold(t, i + 1)
osip_util_replace_all_lws(t) == MsgFold(t, 1)

(* Where the next line starts: NULL when the line goes on. *)
osip_find_next_crlf(t, i) ==
  LET soh == TokFirst(t, i, MsgEnds \cup {"NUL"})
      eol == IF TokAt(t, soh) = "CR" /\ TokAt(t, soh + 1) = "LF" THEN soh + 1 ELSE soh
  IN  [found |-> TokAt(t, soh) # "NUL",
       end   |-> IF TokAt(t, soh) = "NUL" \/ TokAt(t, eol + 1) \in {"SP", "HT"} THEN 0
                 ELSE eol + 1]

MsgVersions == {"SIP/2.0"}
MsgCodes    == {"180", "200", "486"}   \* bound: codes of answers
MsgAfterEnd(t, i) ==
  IF t[i] = "CR" /\ TokAt(t, i + 1) = "LF" THEN i + 2 ELSE i + 1

osip_message_startline_parsereq(m, t, i) ==
  LET p2 == strchr(t, i, "SP")
      p1 == strchr(t, p2 + 2, "SP")
      hp == p1 + 2
      ok == /\ p2 # 0 /\ p2 # i /\ TokAt(t, p2 + 1) # "NUL" /\ TokAt(t, p2 + 2) # "NUL"
            /\ p1 # 0 /\ "!" \notin Range(SubSeq(t, p2, p1))
            /\ TokAt(t, p1 + 1) \in MsgVersions /\ TokAt(t, hp) \in MsgEnds
  IN  IF ~ok THEN [m |-> m, ok |-> FALSE, next |-> i]
      ELSE [m |-> [m EXCEPT !.method = t[i], !.uri = t[p2 + 1], !.version = t[p1 + 1]],
            ok |-> TRUE, next |-> MsgAfterEnd(t, hp)]
osip_message_startline_parseresp(m, t, i) ==
  LET code   == strchr(t, i, "SP")
      reason == strchr(t, code + 1, "SP")
      hp     == TokFirst(t, reason + 1, MsgEnds \cup {"NUL"})
      named  == [m EXCEPT !.version = t[i]]
      coded  == [named EXCEPT !.code = t[code + 1]]
  IN  IF code = 0 \/ reason = 0 THEN [m |-> m, ok |-> FALSE, next |-> i]
      ELSE IF TokAt(t, code + 1) \notin MsgCodes THEN [m |-> named, ok |-> FALSE, next |-> i]
      ELSE IF TokAt(t, hp) = "NUL" THEN [m |-> coded, ok |-> FALSE, next |-> i]
      ELSE [m |-> [coded EXCEPT !.reason = SubSeq(t, reason + 1, hp - 1)], ok |-> TRUE,
            next |-> MsgAfterEnd(t, hp)]
osip_message_startline_parse(m, t, i) ==
  IF TokAt(t, i) \in MsgVersions THEN osip_message_startline_parseresp(m, t, i)
  ELSE osip_message_startline_parsereq(m, t, i)

RECURSIVE msg_headers_parse(_, _, _, _)
MsgHeadersRest(r, t, next, body) ==
  IF r.ok THEN msg_headers_parse(r.m, t, next, body) ELSE [m |-> r.m, ok |-> FALSE, body |-> body]
MsgHeaderEnd(t, next) == IF t[next - 2] \in MsgEnds THEN next - 2 ELSE next - 1
MsgHeaderParse(m, t, i, line, colon, body) ==
  IF ~line.found THEN [m |-> m, ok |-> FALSE, body |-> body]
  ELSE IF t[i] \in MsgEnds THEN [m |-> m, ok |-> TRUE, body |-> i]
  ELSE IF colon < i + 1 \/ line.end <= colon THEN [m |-> m, ok |-> FALSE, body |-> body]
  ELSE MsgHeadersRest(
         osip_message_set_multiple_header(
           m, t[i], osip_clrncpy(t, colon + 1, MsgHeaderEnd(t, line.end) - 1)),
         t, line.end, body)
msg_headers_parse(m, t, i, body) ==
  IF TokAt(t, i) = "NUL" THEN [m |-> m, ok |-> TRUE, body |-> body]
  ELSE MsgHeaderParse(m, t, i, osip_find_next_crlf(t, i), strchr(t, i, ":"), body)

-----------------------------------------------------------------------------
(* Bodies.  One that is not multipart has the length of Content-Length,    *)
(* which only a session description may do without.  The parts of a        *)
(* multipart one are between boundaries, each with headers of its own.     *)
MsgNumber(n) == <<ToString(n)>>
MsgAtoi(t, v) ==
  LET N == {n \in 0..Len(t) : MsgNumber(n) = v} IN IF N = {} THEN 0 ELSE Min(N)
MsgSetBody(m, body) == [MsgChanged(m) EXCEPT !.bodies = Append(@, body)]

(* where a sequence of tokens is from a position on *)
osip_find_next_occurence(str, t, i) ==
  LET J == {j \in i..(Len(t) - Len(str) + 1) : SubSeq(t, j, j + Len(str) - 1) = str}
  IN  IF J = {} THEN 0 ELSE Min(J)

RECURSIVE osip_body_parse_header(_, _, _)
MsgPartHeaders(r, t, next) ==
  IF ~r.ok THEN [ok |-> FALSE]
  ELSE IF TokAt(t, next) \in MsgEnds THEN [ok |-> TRUE, body |-> r.body, next |-> next]
  ELSE osip_body_parse_header(r.body, t, next)
MsgPartType(body, ct) ==
  IF ct.ok THEN [ok |-> TRUE, body |-> [body EXCEPT !.ct = <<ct.ct>>]] ELSE [ok |-> FALSE]
MsgPartSet(body, name, value) ==
  IF name = "content-type" THEN MsgPartType(body, osip_content_type_parse(value))
  ELSE [ok |-> TRUE, body |-> [body EXCEPT !.headers = Append(@, [name |-> name, value |-> value])]]
MsgPartHeader(body, t, i, line, colon) ==
  IF ~line.found \/ colon < i + 1 \/ line.end - 2 - colon < 2 THEN [ok |-> FALSE]
  ELSE MsgPartHeaders(MsgPartSet(body, t[i], osip_clrncpy(t, colon + 1, line.end - 3)), t, line.end)
osip_body_parse_header(body, t, i) ==
  MsgPartHeader(body, t, i, osip_find_next_crlf(t, i), strchr(t, i, ":"))
MsgAfterHeaders(t, r, start) ==
  IF start > Len(t) THEN [ok |-> FALSE]
  ELSE [ok |-> TRUE, body |-> [r.body EXCEPT !.body = SubSeq(t, start, Len(t))]]
MsgWithBody(t, r) == IF r.ok THEN MsgAfterHeaders(t, r, MsgAfterEnd(t, r.next)) ELSE r
osip_body_parse_mime(t) == MsgWithBody(t, osip_body_parse_header(MsgBody, t, 1))

MsgUnquoted(v) ==
  IF v[1] = "QT" /\ v[Len(v)] = "QT" THEN SubSeq(v, 2, Len(v) - 1) ELSE v
MsgBoundary(ct) ==
  LET B == {k \in DOMAIN ct.params : ct.params[k].name = <<"boundary">>}
  IN  IF B = {} THEN <<>> ELSE ct.params[Min(B)].value

MsgPartBetween(t, begin, end) ==
  LET body == IF t[begin] \in MsgEnds THEN begin + 1 ELSE begin
      last == IF t[end - 1] = "CR" THEN end - 2 ELSE end - 1
  IN  osip_body_parse_mime(SubSeq(t, body, last))
RECURSIVE MsgPartsParse(_, _, _, _)
MsgPartParse(m, t, end, sep, part) ==
  IF ~part.ok THEN MsgRefused(m)
  ELSE IF TokAt(t, end + Len(sep)) = "--" THEN MsgDone(MsgSetBody(m, part.body))
  ELSE MsgPartsParse(MsgSetBody(m, part.body), t, end, sep)
MsgPartsParse(m, t, i, sep) ==
  LET start == osip_find_next_occurence(sep, t, i)
      end   == osip_find_next_occurence(sep, t, start + Len(sep))
  IN  IF start = 0 \/ end = 0 THEN MsgRefused(m)
      ELSE MsgPartParse(m, t, end, sep, MsgPartBetween(t, start + Len(sep) + 1, end))

MsgOneParse(m, t, i) ==
  LET start   == MsgAfterEnd(t, i)
      issdp   == /\ m.h["content-type"][1].type = <<"application">>
                 /\ m.h["content-type"][1].subtype = <<"sdp">>
      strlen  == TokFirst(t, start, {"NUL"}) - start
      sized   == IF m.h["content-length"] # <<>> THEN m
                 ELSE MsgSetOne(m, "content-length", MsgNumber(strlen)).m
      length  == MsgAtoi(t, sized.h["content-length"][1])
  IN  IF t[i] \notin MsgEnds THEN MsgRefused(m)
      ELSE IF start > Len(t) THEN MsgRefused(m)
      ELSE IF m.h["content-length"] = <<>> /\ ~issdp THEN MsgRefused(m)
      ELSE IF Len(t) - start + 1 < length THEN MsgRefused(sized)
      ELSE MsgDone(MsgSetBody(sized, [MsgBody EXCEPT
                                        !.body = SubSeq(t, start, start + length - 1)]))
msg_osip_body_parse(m, t, i) ==
  LET ct == m.h["content-type"][1]
  IN  IF m.h["content-type"] = <<>> THEN MsgDone(m)
      ELSE IF ct.type # <<"multipart">> THEN MsgOneParse(m, t, i)
      ELSE IF MsgBoundary(ct) = <<>> THEN MsgRefused(m)
      ELSE MsgPartsParse(m, t, i, <<"LF", "--">> \o MsgUnquoted(MsgBoundary(ct)[1]))

MsgSized(r) ==
  IF r.ok /\ r.m.h["content-length"] = <<>>
  THEN MsgSetOne(r.m, "content-length", MsgNumber(0)) ELSE r
MsgParseBody(t, heads, b) ==
  IF ~heads.ok THEN MsgRefused(heads.m)
  ELSE IF "NUL" \in {TokAt(t, b), TokAt(t, b + 1), TokAt(t, b + 2)} THEN MsgSized(MsgDone(heads.m))
  ELSE MsgSized(msg_osip_body_parse(heads.m, t, b))
MsgParseHeaders(t, heads) == MsgParseBody(t, heads, heads.body)
MsgParseLines(t, line, sipfrag) ==
  IF ~line.ok /\ ~sipfrag THEN MsgRefused(line.m)
  ELSE MsgParseHeaders(t, msg_headers_parse(line.m, t, line.next, line.next))
MsgParseFolded(t, sipfrag) ==
  MsgParseLines(t, osip_message_startline_parse(osip_message_init, t, 1), sipfrag)
osip_message_parse(buf, sipfrag) ==
  LET first == Min({i \in 1..(Len(buf) + 1) : TokAt(buf, i) \notin MsgEnds})
  IN  MsgParseFolded(osip_util_replace_all_lws(SubSeq(buf, first, Len(buf))), sipfrag)

-----------------------------------------------------------------------------
(* Writing.  A header alone that cannot be written leaves its bare name    *)
(* (the result of strcat_simple_header is overwritten); a body that cannot *)
(* makes the whole message fail.                                           *)
MsgWriteHeader(name, text) == <<name, ":", "SP">> \o text \o MsgCRLF
osip_message_startline_to_str(m) ==
  IF m.method # "null" THEN
     IF m.uri = "null" THEN [ok |-> FALSE]
     ELSE [ok |-> TRUE, text |-> <<m.method, "SP", m.uri, "SP", m.version>>]
  ELSE IF m.code = "0" \/ m.reason = <<"null">> THEN [ok |-> FALSE]
  ELSE [ok |-> TRUE, text |-> <<m.version, "SP", m.code, "SP">> \o m.reason]
strcat_simple_header(m, f) ==
  LET ct == osip_content_type_to_str(m.h[f][1])
  IN  IF m.h[f] = <<>> THEN <<>>
      ELSE IF f # "content-type" THEN MsgWriteHeader(f, m.h[f][1])
      ELSE IF ct.ok THEN MsgWriteHeader(f, ct.text) ELSE <<f, ":", "SP">>
strcat_headers_one_per_line(m, f) ==
  FlattenSeq([k \in DOMAIN m.h[f] |-> MsgWriteHeader(f, m.h[f][k])])
MsgWriteTable(m) ==
  FlattenSeq([k \in DOMAIN MsgTable |->
    IF MsgTable[k] \in MsgAlone THEN strcat_simple_header(m, MsgTable[k])
    ELSE strcat_headers_one_per_line(m, MsgTable[k])])
osip_header_to_str(h) == MsgWriteHeader(h.name, h.value)

osip_body_to_str(body) ==
  LET ct == osip_content_type_to_str(body.ct[1])
      first == IF body.ct = <<>> THEN <<>> ELSE MsgWriteHeader("content-type", ct.text)
      heads == first \o FlattenSeq([k \in DOMAIN body.headers |->
                                      osip_header_to_str(body.headers[k])])
  IN  IF body.body = <<>> THEN [ok |-> FALSE]
      ELSE IF body.ct # <<>> /\ (IF body.ct = <<>> THEN FALSE ELSE ~ct.ok) THEN [ok |-> FALSE]
      ELSE [ok |-> TRUE, text |-> heads \o (IF heads = <<>> THEN <<>> ELSE MsgCRLF) \o body.body]

(* the boundary is written only if there is a Mime-Version *)
MsgSeparator(m) ==
  LET ct == m.h["content-type"][1]
  IN  IF m.h["mime-version"] = <<>> \/ m.h["content-type"] = <<>> THEN <<>>
      ELSE IF ct.type # <<"multipart">> \/ MsgBoundary(ct) = <<>> THEN <<>>
      ELSE MsgCRLF \o <<"--">> \o MsgUnquoted(MsgBoundary(ct)[1])
MsgWriteBodies(m) ==
  LET sep == MsgSeparator(m)
  IN  FlattenSeq([k \in DOMAIN m.bodies |->
        (IF sep = <<>> THEN <<>> ELSE sep \o MsgCRLF) \o osip_body_to_str(m.bodies[k]).text])
      \o (IF sep = <<>> THEN <<>> ELSE sep \o <<"--">> \o MsgCRLF)

MsgWrite(m, sipfrag) ==
  LET line  == osip_message_startline_to_str(m)
      heads == (IF line.ok THEN line.text \o MsgCRLF ELSE <<>>) \o MsgWriteTable(m)
               \o FlattenSeq([k \in DOMAIN m.headers |-> osip_header_to_str(m.headers[k])])
      Sized(tokens) == heads \o <<"content-length", ":", "SP">> \o tokens \o MsgCRLF \o MsgCRLF
      bodies == MsgWriteBodies(m)
  IN  IF ~line.ok /\ ~sipfrag THEN [ok |-> FALSE, text |-> <<>>]
      ELSE IF m.bodies = <<>> THEN
           [ok |-> TRUE, text |-> IF sipfrag THEN heads \o MsgCRLF ELSE Sized(MsgNumber(0))]
      ELSE IF \E k \in DOMAIN m.bodies : ~osip_body_to_str(m.bodies[k]).ok
           THEN [ok |-> FALSE, text |-> <<>>]
      ELSE [ok |-> TRUE,
            text |-> Sized(<<"SP", "SP", "SP", "SP">> \o MsgNumber(Len(bodies))) \o bodies]

(* The text written last is given again while it is up to date. *)
osip_message_to_str(m, sipfrag) ==
  LET w == MsgWrite(m, sipfrag)
  IN  IF m.property = 1 THEN [m |-> m, ok |-> TRUE, text |-> m.message]
      ELSE IF ~w.ok THEN [m |-> [m EXCEPT !.message = <<>>], ok |-> FALSE, text |-> <<>>]
      ELSE [m |-> [m EXCEPT !.property = 1, !.message = w.text], ok |-> TRUE, text |-> w.text]

osip_message_force_update(m) == [m EXCEPT !.property = 2]

(* A copy has the text too, as osip_strdup sees it: what follows a NUL is  *)
(* whatever is in memory after the copy.                                   *)
osip_message_clone(m) ==
  LET end  == TokFirst(m.message, 1, {"NUL"})
      text == [k \in DOMAIN m.message |-> IF k < end THEN m.message[k] ELSE "?"]
  IN  IF \E k \in DOMAIN m.bodies : m.bodies[k].body = <<>> THEN [ok |-> FALSE]
      ELSE [ok |-> TRUE, m |-> [m EXCEPT !.message = text]]

(* The received parameter of the topmost Via of a request. *)
osip_message_fix_last_via_header(m, ip) ==
  IF m.method = "null" \/ m.h["via"] = <<>> THEN m
  ELSE IF ip \in Range(m.h["via"][1]) THEN m
  ELSE [m EXCEPT !.h["via"][1] = @ \o <<";", "received", "=", ip>>]

-----------------------------------------------------------------------------
(* A message is received or made, then the application changes it, writes  *)
(* it and copies it.  `frag' is how it was written last and `changed' that *)
(* it is no more what was written, although it does not know.              *)
MsgInit ==
  msg = [phase |-> "start", m |-> osip_message_init, read |-> <<>>, value |-> <<>>,
         given |-> <<>>, frag |-> FALSE, changed |-> FALSE, calls |-> 0]

MsgSplits ==
  /\ msg.phase = "start"
  /\ \E w \in MsgValues : msg' = [msg EXCEPT !.phase = "split", !.value = w]

MsgReads ==
  /\ msg.phase = "start"
  /\ \E t \in MsgTexts, frag \in BOOLEAN : \E r \in {osip_message_parse(t, frag)} :
       msg' = [msg EXCEPT !.phase = IF r.ok THEN "message" ELSE "refused", !.m = r.m, !.read = t]

(* osip_message_set_method, set_uri, set_version; set_status_code,         *)
(* set_reason_phrase: nothing is remembered of these                       *)
MsgMakes ==
  /\ msg.phase = "start"
  /\ \/ msg' = [msg EXCEPT !.phase = "message", !.m.method = "MESSAGE", !.m.uri = "sip:b",
                           !.m.version = "SIP/2.0"]
     \/ msg' = [msg EXCEPT !.phase = "message", !.m.code = "180", !.m.reason = <<"Ringing">>,
                           !.m.version = "SIP/2.0"]

MsgCall(m, changed) ==
  /\ msg.phase = "message" /\ msg.calls < MsgMaxCalls
  /\ msg' = [msg EXCEPT !.m = m, !.given = <<>>, !.calls = @ + 1,
                        !.changed = (@ \/ changed) /\ m.property = 1]
MsgSets(h) ==
  \/ MsgCall(osip_message_set_multiple_header(msg.m, h.name, h.value).m, FALSE)
  \/ /\ osip_message_is_known_header(h.name) = "unknown"
     /\ \/ MsgCall(osip_message_set_topheader(msg.m, h.name, h.value), FALSE)
        \/ MsgCall(osip_message_replace_header(msg.m, h.name, h.value), FALSE)
MsgAttaches(body) == MsgCall(MsgSetBody(msg.m, [MsgBody EXCEPT !.body = body]), FALSE)
MsgForces ==
  /\ msg.phase = "message" /\ msg.calls < MsgMaxCalls
  /\ msg' = [msg EXCEPT !.m = osip_message_force_update(@), !.given = <<>>, !.changed = FALSE,
                        !.calls = @ + 1]
MsgAssigns ==
  \/ /\ msg.m.code # "0"
     /\ \E code \in MsgCodes \ {msg.m.code} : MsgCall([msg.m EXCEPT !.code = code], TRUE)
  \/ LET m == osip_message_fix_last_via_header(msg.m, "ip")
     IN  m # msg.m /\ MsgCall(m, TRUE)

MsgWrites ==
  \E frag \in BOOLEAN : \E r \in {osip_message_to_str(msg.m, frag)} :
        /\ msg.phase = "message" /\ msg.calls < MsgMaxCalls
        /\ msg' = [msg EXCEPT !.m = r.m, !.given = r.text, !.calls = @ + 1,
                              !.frag = IF msg.m.property = 1 THEN @ ELSE frag]
MsgCopies ==
  LET r == osip_message_clone(msg.m)
  IN  r.ok /\ MsgCall(r.m, FALSE)

MsgNext ==
  \/ MsgSplits \/ MsgReads \/ MsgMakes
  \/ \E h \in MsgHeaders : MsgSets(h)
  \/ \E body \in MsgBodies : MsgAttaches(body)
  \/ MsgForces \/ MsgAssigns \/ MsgWrites \/ MsgCopies

-----------------------------------------------------------------------------
(* A value with quotes in pairs is split at the commas outside quotes,     *)
(* refused when one of the first values is empty, and loses a last value   *)
(* of one character as if it were empty.                                   *)
MsgQuotesBefore(w, i) ==
  Cardinality({q \in 1..(i - 1) : w[q] = "QT" /\ TokBackslashes(w, 1, q) % 2 = 0})
MsgCommas(w) == {i \in DOMAIN w : w[i] = "," /\ MsgQuotesBefore(w, i) % 2 = 0}
MsgReference(w) ==
  LET cuts == TokInOrder({0, Len(w) + 1} \cup MsgCommas(w))
  IN  [k \in 1..(Len(cuts) - 1) |-> SubSeq(w, cuts[k] + 1, cuts[k + 1] - 1)]
MsgSplitRight ==
  LET s     == MsgSplit("contact", msg.value)
      all   == MsgReference(msg.value)
      first == Front(all)
      right == IF first # <<>> /\ Len(Last(all)) < 2 THEN first ELSE all
  IN  (msg.phase = "split" /\ MsgQuotesBefore(msg.value, Len(msg.value) + 1) % 2 = 0)
        => IF <<>> \in Range(first) THEN ~s.ok
           ELSE s.ok /\ s.values = [k \in DOMAIN right |-> osip_clrspace(right[k])]

(* The text a message keeps and the text that is given are what would be  *)
(* written now, unless something was assigned behind its back or the copy  *)
(* lost a part of it.                                                      *)
MsgIntact   == ~msg.changed /\ "?" \notin Range(msg.m.message)
MsgUpToDate ==
  MsgIntact => /\ msg.m.property = 1 => msg.m.message = MsgWrite(msg.m, msg.frag).text
               /\ msg.given # <<>>   => msg.given = MsgWrite(msg.m, msg.frag).text

(* What is written is read as the same message, when it can be: a body     *)
(* with a Content-Type, that does not begin with NUL (which the parser     *)
(* takes for the end), parts only with a boundary and a Mime-Version.      *)
MsgReadable(m) ==
  /\ \A k \in DOMAIN m.h["content-type"] : osip_content_type_to_str(m.h["content-type"][k]).ok
  /\ m.bodies # <<>> =>
       /\ m.h["content-type"] # <<>> /\ m.bodies[1].body[1] # "NUL"
       /\ IF MsgSeparator(m) = <<>>
          THEN m.h["content-type"][1].type # <<"multipart">> /\ Len(m.bodies) = 1
          ELSE \A k \in DOMAIN m.bodies : m.bodies[k].ct # <<>> \/ m.bodies[k].headers # <<>>
MsgContent(m) == <<m.method, m.version, m.uri, m.code, m.reason, m.headers, m.bodies,
                   [f \in MsgFields \ {"content-length"} |-> m.h[f]]>>
MsgReadsBack ==
  (MsgIntact /\ msg.m.property = 1 /\ ~msg.frag /\ MsgReadable(msg.m)) =>
     \E r \in {osip_message_parse(msg.m.message, FALSE)} :
       r.ok /\ MsgContent(r.m) = MsgContent(msg.m)

(* A body that is not multipart is taken as it is in the text, white space *)
(* at the start of its lines included.                                     *)
MsgBodyTaken ==
  LET gap  == osip_find_next_occurence(MsgCRLF \o MsgCRLF, msg.read, 1)
      body == msg.m.bodies[1].body
  IN  (msg.phase = "message" /\ gap # 0 /\ Len(msg.m.bodies) = 1 /\ msg.calls = 0
        /\ TokAt(msg.read, gap - 1) \notin TokBlanks
        /\ msg.m.h["content-type"][1].type # <<"multipart">>)
        => body = SubSeq(msg.read, gap + 4, gap + 3 + Len(body))
MessagesKept == MsgSplitRight /\ MsgUpToDate /\ MsgReadsBack /\ MsgBodyTaken
=============================================================================
