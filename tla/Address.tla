------------------------------- MODULE Address -------------------------------
(***************************************************************************)
(* What the headers that say who, where and which call are made of: SIP    *)
(* URIs (osip_uri.c), From, To and Contact (osip_from.c, osip_contact.c),  *)
(* Via (osip_via.c), Call-ID and CSeq, with two lists of elements          *)
(* (Accept-Encoding, Call-Info).  Each has a parser, a printer and, some,  *)
(* a comparison by which transactions and dialogs are found.  Words have   *)
(* one character unless AdrLong says otherwise; a part that may be missing *)
(* (NULL) is <<>>, or a sequence with the part.                            *)
(***************************************************************************)
EXTENDS Tokens
LOCAL INSTANCE SequencesExt
LOCAL INSTANCE FiniteSetsExt

CONSTANT AdrValues      \* the values of headers: their kind and their text
AdrKinds == {"uri", "from", "contact", "via", "call-id", "cseq",
             "accept-encoding", "call-info"}
ASSUME AdrAssumption == \A v \in AdrValues : v.kind \in AdrKinds /\ Len(v.text) > 0

VARIABLE adr

AdrRefused == [ok |-> FALSE]
AdrRead(value) == [ok |-> TRUE, value |-> value]

(* Escapes: a character that is not a word and that the part does not      *)
(* admit is written with "%"; reading stops at a "%" that escapes nothing. *)
AdrMarks == {"@", ":", ";", "?", "=", "&", ",", "/", "[", "]", "<", ">", "%", "QT", "BS", "SP"}
AdrEscape(c) == "%" \o c
AdrEscapes   == {AdrEscape(c) : c \in AdrMarks}
AdrLong(c)   == IF c \in AdrEscapes \cup {"sip", "tel"} THEN 3 ELSE 1
AdrLength(t) == MapThenSumSet(LAMBDA i : AdrLong(t[i]), DOMAIN t)
AdrUserKeepsColon == {"&", "=", ",", ";", "?", "/", ":"}
userinfo_def == {"&", "=", ",", ";", "?", "/"}
password_def == {"&", "=", ","}
uri_param_def == {"[", "]", "/", ":", "&"}
header_param_def == {"[", "]", "/", "?", ":"}
osip_uri_escape(t, def) ==
  [i \in DOMAIN t |-> IF t[i] \in AdrMarks \ def THEN AdrEscape(t[i]) ELSE t[i]]
osip_uri_unescape(t) ==
  [i \in 1..(TokFirst(t, 1, {"%"}) - 1) |->
     IF t[i] \in AdrEscapes THEN CHOOSE c \in AdrMarks : AdrEscape(c) = t[i] ELSE t[i]]

-----------------------------------------------------------------------------
(* URIs *)
osip_uri_param_set(name, value) ==
  [name  |-> osip_clrspace(osip_uri_unescape(name)),
   value |-> [k \in DOMAIN value |-> osip_clrspace(osip_uri_unescape(value[k]))]]

(* What is before the first wrong header, or parameter, is kept. *)
RECURSIVE osip_uri_parse_headers(_, _)
osip_uri_parse_headers(t, h) ==
  LET equal == strchr(t, h, "=")
      and   == strchr(t, h + 1, "&")
      end   == IF and = 0 THEN Len(t) + 1 ELSE and
  IN  IF equal = 0 \/ (and # 0 /\ and - equal < 2) THEN <<>>
      ELSE <<osip_uri_param_set(SubSeq(t, h + 1, equal - 1), <<SubSeq(t, equal + 1, end - 1)>>)>>
           \o (IF and = 0 THEN <<>> ELSE osip_uri_parse_headers(t, and))
RECURSIVE osip_uri_parse_params(_, _)
osip_uri_parse_params(t, p) ==
  LET equal == next_separator(t, p + 1, "=", ";")
      comma == strchr(t, p + 1, ";")
      end   == IF comma = 0 THEN Len(t) + 1 ELSE comma
      named == IF equal = 0 THEN end ELSE equal
      value == IF equal = 0 THEN <<>> ELSE <<SubSeq(t, equal + 1, end - 1)>>
  IN  IF named - p < 2 \/ value = <<<<>>>> THEN <<>>
      ELSE <<osip_uri_param_set(SubSeq(t, p + 1, named - 1), value)>>
           \o (IF comma = 0 THEN <<>> ELSE osip_uri_parse_params(t, comma))

osip_uri_init == [scheme |-> <<>>, username |-> <<>>, password |-> <<>>, host |-> <<>>,
                  port |-> <<>>, params |-> <<>>, headers |-> <<>>, string |-> <<>>]

(* The user: what is between the scheme and the first "@". *)
AdrParseUser(t, u, colon, at) ==
  LET sep == next_separator(t, colon + 1, ":", "@")
      end == IF sep = 0 THEN at ELSE sep
  IN  IF at \in {0, colon + 1} THEN AdrRead(u)
      ELSE IF (sep # 0 /\ at - sep < 2) \/ end - colon < 2 THEN AdrRefused
      ELSE AdrRead([u EXCEPT
             !.username = <<osip_uri_unescape(SubSeq(t, colon + 1, end - 1))>>,
             !.password = IF sep = 0 THEN <<>> ELSE <<osip_uri_unescape(SubSeq(t, sep + 1, at - 1))>>])

(* The host is between `host' and the parameters, the port after the last  *)
(* ":" of it that is not within brackets.                                  *)
AdrParsePort(t, host, params) ==
  Max({p \in host..(params - 1) : p = host \/ t[p] \in {"]", ":"}})
AdrParseHost(t, u, host, port, colon) ==
  LET closed == Max({p \in host..port : p = host \/ TokAt(t, p) = "]"})
      ipv6   == TokAt(t, closed) = "]"
      end    == IF ipv6 THEN closed ELSE port
      start  == IF ipv6 THEN Min({p \in host..closed : p = closed \/ t[p] = "["}) ELSE host
  IN  IF end - start < 2 THEN AdrRefused
      ELSE AdrRead([u EXCEPT !.host = osip_clrncpy(t, start + 1, end - 1), !.port = colon])
AdrParsePlace(t, u, host, params, port) ==
  LET given == t[port] = ":" /\ port # host
  IN  IF ~given THEN AdrParseHost(t, u, host, params, <<>>)
      ELSE IF params - port < 2 \/ params - port > 8 THEN AdrRefused
      ELSE AdrParseHost(t, u, host, port, <<osip_clrncpy(t, port + 1, params - 1)>>)
AdrParseRest(t, u, host) ==
  LET mark == strchr(t, host, "?")
      semi == strchr(t, host, ";")
      headers == IF mark = 0 THEN Len(t) + 1 ELSE mark
      params  == IF semi = 0 THEN headers ELSE semi
      whole   == [u EXCEPT
        !.headers = IF mark = 0 THEN <<>> ELSE osip_uri_parse_headers(t, mark),
        !.params  = IF semi = 0 THEN <<>>
                    ELSE osip_uri_parse_params(SubSeq(t, 1, headers - 1), semi)]
  IN  IF headers <= semi THEN AdrRefused
      ELSE AdrParsePlace(t, whole, host, params, AdrParsePort(t, host, params))
AdrParseSip(t, user, host) ==
  IF user.ok THEN AdrParseRest(t, user.value, host) ELSE AdrRefused
osip_uri_parse(t) ==
  LET colon  == strchr(t, 1, ":")
      at     == strchr(t, 1, "@")
      scheme == SubSeq(t, 1, colon - 1)
      u      == [osip_uri_init EXCEPT !.scheme = scheme]
      rest   == SubSeq(t, colon + 1, Len(t))
  IN  IF colon = 0 \/ AdrLength(scheme) < 2 \/ "SP" \in Range(scheme) THEN AdrRefused
      ELSE IF scheme[1] = "sip"
           THEN AdrParseSip(t, AdrParseUser(t, u, colon, at), IF at = 0 THEN colon ELSE at)
      ELSE IF AdrLength(rest) < 2 THEN AdrRefused
      ELSE AdrRead([u EXCEPT !.string = <<rest>>])

(* What is written of a part that may be missing. *)
AdrGiven(before, part, after) ==
  FlattenSeq([k \in DOMAIN part |-> before \o part[k] \o after])
AdrWriteParams(params) ==
  FlattenSeq([k \in DOMAIN params |->
    <<";">> \o params[k].name \o AdrGiven(<<"=">>, params[k].value, <<>>)])
AdrEscapeAll(params, def) ==
  [k \in DOMAIN params |->
     [name  |-> osip_uri_escape(params[k].name, def),
      value |-> [v \in DOMAIN params[k].value |-> osip_uri_escape(params[k].value[v], def)]]]
AdrWriteHeaders(headers) ==
  FlattenSeq([k \in DOMAIN headers |->
    <<IF k = 1 THEN "?" ELSE "&">> \o headers[k].name \o <<"=">> \o headers[k].value[1]])
osip_uri_to_str(u) ==
  LET user == [k \in DOMAIN u.username |-> osip_uri_escape(u.username[k], userinfo_def)]
      pass == [k \in DOMAIN u.password \cap DOMAIN user |-> osip_uri_escape(u.password[k], password_def)]
      host == IF ":" \in Range(u.host) THEN <<"[">> \o u.host \o <<"]">> ELSE u.host
  IN  IF u.string # <<>> THEN u.scheme \o <<":">> \o u.string[1]
      ELSE u.scheme \o <<":">> \o AdrGiven(<<>>, user, AdrGiven(<<":">>, pass, <<>>) \o <<"@">>)
           \o host \o AdrGiven(<<":">>, u.port, <<>>)
           \o AdrWriteParams(AdrEscapeAll(u.params, uri_param_def))
           \o AdrWriteHeaders(AdrEscapeAll(u.headers, header_param_def))

-----------------------------------------------------------------------------
(* From, To and Contact: a name to display, quoted or a token, a URI and   *)
(* parameters.                                                             *)
osip_from_init == [displayname |-> <<>>, url |-> <<>>, params |-> <<>>]
AdrFromRest(from, uri, gen) ==
  IF ~gen.ok \/ ~uri.ok THEN AdrRefused
  ELSE AdrRead([from EXCEPT !.url = <<uri.value>>, !.params = gen.params])
(* The text of the URI ends before ">", else before the first ";" that is  *)
(* after the user, else with the NUL, that counts as a character.          *)
AdrFromUrl(t, from, url) ==
  LET close == strchr(t, url, ">")
      at    == strchr(t, url, "@")
      semi  == strchr(t, Max({at, url}), ";")
      gen   == IF close = 0 THEN semi ELSE strchr(t, close, ";")
      bare  == close = 0 /\ gen = 0
      text  == SubSeq(t, url, IF bare THEN Len(t) ELSE IF close = 0 THEN gen - 1 ELSE close - 1)
  IN  IF AdrLength(text) + (IF bare THEN 1 ELSE 0) < 6 THEN AdrRefused
      ELSE AdrFromRest(from, osip_uri_parse(text), TokParams(t, gen))
osip_from_parse(t) ==
  LET quote  == strchr(t, 1, "QT")
      angle  == strchr(t, 1, "<")
      first  == osip_quote_find(t, 1)
      second == osip_quote_find(t, first + 1)
      after  == strchr(t, second + 1, "<")
      quoted == quote # 0 /\ quote < angle
  IN  IF angle # 0 /\ strchr(t, angle, ">") = 0 THEN AdrRefused
      ELSE IF quoted /\ (first = 0 \/ second = 0 \/ first > angle \/ after = 0) THEN AdrRefused
      ELSE AdrFromUrl(t, [osip_from_init EXCEPT !.displayname =
                            IF angle < 2 THEN <<>>
                            ELSE IF quoted THEN <<SubSeq(t, first, second)>>
                            ELSE <<osip_clrncpy(t, 1, angle - 1)>>],
                      IF quoted THEN after + 1 ELSE angle + 1)
osip_from_to_str(f) ==
  AdrGiven(<<>>, f.displayname, <<"SP">>) \o <<"<">> \o osip_uri_to_str(f.url[1]) \o <<">">>
    \o AdrWriteParams(f.params)

(* The same party: the tags are compared if both have one. *)
AdrTag(f) ==
  LET T == {k \in DOMAIN f.params : f.params[k].name[1] = "tag"}
  IN  IF T = {} THEN <<>> ELSE f.params[Min(T)].value
AdrDiffer(a, b) == a # <<>> /\ b # <<>> /\ a # b
osip_from_compare(a, b) ==
  /\ a.url # <<>> /\ b.url # <<>>
  /\ IF a.url[1].string # <<>> /\ b.url[1].string # <<>>
     THEN a.url[1].string = b.url[1].string
     ELSE /\ a.url[1].string = b.url[1].string /\ a.url[1].host = b.url[1].host
          /\ ~AdrDiffer(a.url[1].username, b.url[1].username)
          /\ ~AdrDiffer(AdrTag(a), AdrTag(b))

osip_contact_parse(t) ==
  IF t[1] = "*" THEN AdrRead([osip_from_init EXCEPT !.displayname = <<t>>])
  ELSE osip_from_parse(t)
osip_contact_to_str(c) ==
  IF c.displayname # <<>> /\ c.displayname[1][1] = "*" THEN <<"*">> ELSE osip_from_to_str(c)

-----------------------------------------------------------------------------
(* Via: the text before "/" is not looked at.  A comment begins before the *)
(* "(": the character there belongs to it.  One blank that ends the text   *)
(* makes the code look past the NUL: taken as a refusal.                   *)
AdrViaHost(t, via, host, params) ==
  LET open   == strchr(t, host, "[")
      ipv6   == open # 0 /\ open < params
      close  == strchr(t, open, "]")
      colon  == strchr(t, IF ipv6 THEN close ELSE host, ":")
      given  == colon # 0 /\ colon < params
      from   == IF ipv6 THEN open ELSE host
      to     == IF ipv6 THEN close ELSE IF given THEN colon ELSE params
  IN  IF ipv6 /\ (close = 0 \/ close > params) THEN AdrRefused
      ELSE IF to - from < 2 \/ (given /\ params - colon < 2) THEN AdrRefused
      ELSE AdrRead([via EXCEPT !.host = osip_clrncpy(t, from + 1, to - 1),
                               !.port = IF given THEN <<osip_clrncpy(t, colon + 1, params - 1)>>
                                        ELSE <<>>])
AdrViaParams(t, via, host, comment) ==
  LET semi == strchr(t, host, ";")
      gen  == IF semi # 0 /\ semi < comment THEN TokParams(SubSeq(t, 1, comment - 1), semi)
              ELSE [ok |-> TRUE, params |-> <<>>]
  IN  IF ~gen.ok THEN AdrRefused
      ELSE AdrViaHost(t, [via EXCEPT !.params = gen.params], host,
                      IF semi = 0 THEN comment ELSE semi)
AdrViaComment(t, via, host) ==
  LET open  == strchr(t, host, "(")
      close == strchr(t, host, ")")
  IN  IF open = 0 THEN AdrViaParams(t, via, host, Len(t) + 1)
      ELSE IF close - open < 2 THEN AdrRefused
      ELSE AdrViaParams(t, [via EXCEPT !.comment = <<SubSeq(t, open + 1, close - 1)>>],
                        host, open - 1)
osip_via_parse(t) ==
  LET version  == strchr(t, 1, "/")
      protocol == strchr(t, version + 1, "/")
      blank    == Min({k \in (protocol + 1)..(Len(t) + 1) : TokAt(t, k) # "SP"})
      host     == strchr(t, IF blank = protocol + 1 THEN blank ELSE blank + 1, "SP")
  IN  IF version = 0 \/ protocol - version < 2 \/ host - protocol < 2 THEN AdrRefused
      ELSE IF blank > protocol + 1 /\ blank >= Len(t) THEN AdrRefused
      ELSE AdrViaComment(t, [version  |-> osip_clrncpy(t, version + 1, protocol - 1),
                             protocol |-> osip_clrncpy(t, protocol + 1, host - 1),
                             host |-> <<>>, port |-> <<>>, params |-> <<>>, comment |-> <<>>],
                         host)
osip_via_to_str(via) ==
  <<"SIP", "/">> \o via.version \o <<"/">> \o via.protocol \o <<"SP">>
    \o (IF ":" \in Range(via.host) THEN <<"[">> \o via.host \o <<"]">> ELSE via.host)
    \o AdrGiven(<<":">>, via.port, <<>>) \o AdrWriteParams(via.params)
    \o AdrGiven(<<"SP", "(">>, via.comment, <<")">>)
osip_via_match(a, b) == osip_via_to_str(a) = osip_via_to_str(b)

-----------------------------------------------------------------------------
(* Call-ID and CSeq *)
osip_call_id_parse(t) ==
  LET at  == strchr(t, 1, "@")
      end == IF at = 0 THEN Len(t) + 1 ELSE at
  IN  IF end = 1 THEN AdrRefused
      ELSE AdrRead([number |-> osip_clrncpy(t, 1, end - 1),
                    host |-> IF at = 0 THEN <<>> ELSE <<osip_clrncpy(t, at + 1, Len(t))>>])
osip_call_id_to_str(c) == c.number \o AdrGiven(<<"@">>, c.host, <<>>)
osip_call_id_match(a, b) == a.number = b.number /\ a.host = b.host
osip_cseq_parse(t) ==
  LET method == strchr(t, 1, "SP")
  IN  IF method < 2 THEN AdrRefused
      ELSE AdrRead([number |-> osip_clrncpy(t, 1, method - 1),
                    method |-> osip_clrncpy(t, method + 1, Len(t))])
osip_cseq_to_str(c) == c.number \o <<"SP">> \o c.method

(* An element and its parameters *)
AdrElement(t, semi) ==
  LET gen == TokParams(t, semi)
      end == IF semi = 0 THEN Len(t) + 1 ELSE semi
  IN  IF ~gen.ok \/ end = 1 THEN AdrRefused
      ELSE AdrRead([element |-> osip_clrncpy(t, 1, end - 1), params |-> gen.params])
osip_accept_encoding_parse(t) == AdrElement(t, strchr(t, 1, ";"))
osip_call_info_parse(t) ==
  LET angle == strchr(t, 1, "<")
      close == strchr(t, angle + 1, ">")
  IN  IF angle = 0 \/ close = 0 THEN AdrRefused ELSE AdrElement(t, strchr(t, close + 1, ";"))
osip_call_info_to_str(c) == c.element \o AdrWriteParams(c.params)

AdrParse(kind, t) ==
  CASE kind = "uri"     -> osip_uri_parse(t)
    [] kind = "from"    -> osip_from_parse(t)
    [] kind = "contact" -> osip_contact_parse(t)
    [] kind = "via"     -> osip_via_parse(t)
    [] kind = "call-id" -> osip_call_id_parse(t)
    [] kind = "cseq"    -> osip_cseq_parse(t)
    [] kind = "call-info" -> osip_call_info_parse(t)
    [] kind = "accept-encoding" -> osip_accept_encoding_parse(t)
AdrWrite(kind, a) ==
  CASE kind = "uri"     -> osip_uri_to_str(a)
    [] kind = "from"    -> osip_from_to_str(a)
    [] kind = "contact" -> osip_contact_to_str(a)
    [] kind = "via"     -> osip_via_to_str(a)
    [] kind = "call-id" -> osip_call_id_to_str(a)
    [] kind = "cseq"    -> osip_cseq_to_str(a)
    [] kind \in {"call-info", "accept-encoding"} -> osip_call_info_to_str(a)
AdrMatch(kind, a, b) ==
  CASE kind = "from"    -> osip_from_compare(a, b)
    [] kind = "via"     -> osip_via_match(a, b)
    [] kind = "call-id" -> osip_call_id_match(a, b)
    [] OTHER            -> a = b

-----------------------------------------------------------------------------
(* A value is read, and what was read is written and read again.           *)
AdrInit == adr = [phase |-> "start", kind |-> "uri", text |-> <<>>, read |-> AdrRefused]
AdrReads ==
  /\ adr.phase = "start"
  /\ \E v \in AdrValues : \E r \in {AdrParse(v.kind, v.text)} :
       adr' = [phase |-> "read", kind |-> v.kind, text |-> v.text, read |-> r]
AdrWrites ==
  /\ adr.phase = "read" /\ adr.read.ok
  /\ adr' = [adr EXCEPT !.phase = "written", !.text = AdrWrite(adr.kind, adr.read.value)]
AdrNext == AdrReads \/ AdrWrites

-----------------------------------------------------------------------------
(* What is written is read as what it was.  Not for a value of which a     *)
(* part is empty (which the parsers refuse, or cannot tell from a missing  *)
(* one), for a host or port with "@" or "]", for a URI of less than six    *)
(* characters (taken without angle brackets only), for what follows a comment. *)
AdrFull(part) == part # <<<<>>>>
AdrFullParams(params) ==
  \A k \in DOMAIN params : params[k].name # <<>> /\ AdrFull(params[k].value)
AdrFullUri(u) ==
  /\ u.string = <<>> => u.host # <<>> /\ {"@", "]"} \cap Range(u.host \o FlattenSeq(u.port)) = {}
  /\ AdrFull(u.username) /\ AdrFull(u.password) /\ AdrFull(u.port)
  /\ AdrFullParams(u.params) /\ AdrFullParams(u.headers)
AdrFullFrom(f) ==
  /\ f.url # <<>> => AdrFullUri(f.url[1]) /\ AdrLength(osip_uri_to_str(f.url[1])) >= 6
  /\ AdrFullParams(f.params)
  /\ f.url = <<>> => f.displayname = <<<<"*">>>>
AdrFullVia(v) ==
  /\ <<>> \notin {v.version, v.protocol, v.host} /\ AdrFull(v.port) /\ AdrFullParams(v.params)
  /\ {"(", "["} \cap Range(v.host) = {}
AdrWritable(kind, a) ==
  CASE kind = "uri"               -> AdrFullUri(a)
    [] kind \in {"from", "contact"} -> AdrFullFrom(a)
    [] kind = "via"               -> AdrFullVia(a)
    [] kind \in {"call-id", "cseq"} -> a.number # <<>>
    [] OTHER -> a.element # <<>> /\ AdrFullParams(a.params)
AddressesKept ==
  (adr.phase = "written" /\ AdrWritable(adr.kind, adr.read.value)) =>
    \E r \in {AdrParse(adr.kind, adr.text)} :
      r = adr.read /\ AdrMatch(adr.kind, adr.read.value, r.value)
=============================================================================
