------------------------------- MODULE MCTexts ------------------------------
(* Texts with the ends of line, foldings, quotes and bodies the parser     *)
(* distinguishes, and all short values of letters, commas, quotes and      *)
(* backslashes.                                                            *)
EXTENDS Message, Address, Credentials

MsgLine(name, value) == <<name, ":", "SP">> \o value \o MsgCRLF
MsgRequest  == <<"INVITE", "SP", "sip:b", "SP", "SIP/2.0", "CR", "LF">>
MsgAnswer   == <<"SIP/2.0", "SP", "200", "SP", "OK", "CR", "LF">>
MsgHeads    == MsgLine("via", <<"SIP/2.0/UDP", "SP", "a">>) \o MsgLine("f", <<"alice">>)
                \o MsgLine("to", <<"bob">>)
MsgFolded   == <<"m", ":", "QT", "x", ",", "y", "QT", "<b>", ",", "CR", "LF", "HT", "<c>", "CR", "LF">>
MsgNul      == <<"x", "NUL", "y">>
MsgSdpType  == MsgLine("c", <<"application", "/", "sdp">>)
MsgMixed    == MsgLine("content-type", <<"multipart", "/", "mixed", ";", "boundary", "=", "QT", "b", "QT">>)
MsgPart(name, value, body) ==
  <<"CR", "LF", "--", "b", "CR", "LF">> \o MsgLine(name, value) \o MsgCRLF \o body
MsgParts    == MsgPart("content-type", <<"text", "/", "plain">>, MsgNul)
               \o MsgPart("x-part", <<"1">>, <<"z">>) \o <<"CR", "LF", "--", "b", "--", "CR", "LF">>

MsgSomeTexts ==
  {MsgRequest \o MsgHeads \o MsgFolded \o MsgCRLF,
   MsgCRLF \o MsgAnswer \o MsgHeads \o MsgLine("subject", <<"a", ",", "b">>)
     \o MsgLine("allow", <<"INVITE", ",", "!">>) \o MsgCRLF,
   MsgRequest \o MsgHeads \o MsgSdpType \o MsgCRLF \o <<"v=0", "CR", "LF", "SP", "s=x", "CR", "LF">>,
   MsgRequest \o MsgHeads \o MsgSdpType \o MsgLine("subject", <<"CR", "LF", "SP">>)
     \o MsgCRLF \o <<"v=0", "CR", "LF", "SP", "s=x">>,
   MsgRequest \o MsgSdpType \o MsgLine("l", <<"2">>) \o MsgCRLF \o MsgNul,
   MsgRequest \o MsgSdpType \o MsgLine("l", <<"9">>) \o MsgCRLF \o MsgNul,
   MsgRequest \o MsgSdpType \o MsgLine("l", <<"0">>) \o MsgCRLF \o MsgNul,
   MsgRequest \o MsgHeads \o MsgLine("mime-version", <<"1.0">>) \o MsgMixed \o MsgCRLF \o MsgParts,
   MsgAnswer \o MsgHeads \o MsgMixed \o MsgCRLF \o MsgParts,
   MsgAnswer \o MsgHeads \o MsgLine("t", <<"carol">>) \o MsgCRLF,
   MsgAnswer \o MsgLine("c", <<"text", "/", "plain", ";", "x">>) \o MsgCRLF,
   MsgAnswer \o MsgLine("c", <<"text", "/", "plain", ";", "x", "=", ";", "y">>) \o MsgCRLF,
   MsgAnswer \o MsgLine("mime-version", <<"1.0">>) \o MsgLine("mime-version", <<"!">>) \o MsgCRLF,
   <<"OPTIONS", "SP", "sip:b", "SP", "SIP/2.0", "LF", "x-one", ":", "1", "LF", "accept", ":", "LF",
     "LF">>,
   <<"contact", ":", "SP", "<b>", "CR", "LF", "CR", "LF">>}

MsgSomeBodies == {<<"x">>, MsgNul}
MsgWords == UNION {[1..n -> {"x", ",", "QT", "BS"}] : n \in 1..6}
MsgSomeHeaders == {[name |-> "x-one", value |-> <<"SP", "2">>],
                   [name |-> "m", value |-> <<"<d>", ",", "SP", "<e>">>],
                   [name |-> "c", value |-> <<"text", "/", "plain">>],
                   [name |-> "call-id", value |-> <<"3">>]}

-----------------------------------------------------------------------------
(* Addresses: all short texts of the characters each parser distinguishes, *)
(* after what every value of the kind begins with.                         *)
AdrWords(n, S) == UNION {[1..k -> S] : k \in 1..n}
AdrOf(kind, T) == {[kind |-> kind, text |-> t] : t \in T}
AdrUri == <<"sip", ":", "a", "@", "b">>
AdrVia == <<"SIP", "/", "2", "/">>

AdrSomeValues ==
  AdrOf("uri", {<<"sip", ":">> \o w :
                  w \in AdrWords(4, {"x", "@", ":", ";", "=", "?", "&", "%:", "]"})
                        \cup AdrWords(4, {"x", "%@", "%", "[", ":", "@"})})
  \cup AdrOf("uri", {<<"tel", ":">> \o w : w \in AdrWords(2, {"1", ";", "@"})})
  \cup AdrOf("uri", AdrWords(3, {"x", "@", "sip", ":", "SP"}))
  \cup AdrOf("from", {w \o <<"<">> \o AdrUri \o <<">", ";", "tag", "=", "1">> :
                        w \in AdrWords(4, {"x", "QT", "BS", "<", "SP"})})
  \cup AdrOf("from", {<<"<">> \o AdrUri \o w : w \in AdrWords(4, {"x", ";", ">", "=", "SP"})})
  \cup AdrOf("from", {AdrUri \o w : w \in AdrWords(4, {"tag", ";", "=", "@", "?", ">"})})
  \cup AdrOf("from", {<<"tel", ":", "1">> \o w : w \in AdrWords(3, {"1", ";", "=", "x"})})
  \cup AdrOf("contact", {<<"*">>, <<"*", "x">>, <<"<", "tel", ":", "1", "2", ">">>})
  \cup AdrOf("via", {AdrVia \o <<"UDP", "SP">> \o w : w \in AdrWords(4, {"a", ":", ";", "=", "[", "]"})})
  \cup AdrOf("via", {AdrVia \o <<"SP", "UDP">> \o w : w \in AdrWords(4, {"a", ":", ";", "(", ")", "SP"})})
  \cup AdrOf("via", AdrWords(5, {"/", "2", "SP"}))
  \cup AdrOf("call-id", AdrWords(4, {"x", "@", "SP"}))
  \cup AdrOf("cseq", AdrWords(4, {"1", "INVITE", "SP"}))
  \cup AdrOf("accept-encoding", AdrWords(4, {"gzip", ";", "q", "=", "SP"}))
  \cup AdrOf("call-info", {<<"<", "u">> \o w : w \in AdrWords(4, {">", ";", "p", "=", ","})})

-----------------------------------------------------------------------------
(* Credentials: two and three parameters in any order: known ones, ones of *)
(* other headers, empty, short, with blanks, with quotes and commas within. *)
CrdPlain(name) == <<name, "=", "QT", "x", "QT">>
CrdSimple == {CrdPlain(n) : n \in {"realm", "username", "cnonce", "nextnonce", "qop", "other"}}
             \cup {<<"nc", "=", "00000001">>, <<"stale", "SP", "=", "true">>}
CrdHard   == {<<"qop", "=", "auth">>, <<"algorithm", "=", "MD5">>, <<"nc", "=", "1">>,
              <<"opaque", "=", "QT", "QT">>, <<"realm", "SP", "=", "QT", "a", ",", "b", "QT">>,
              <<"other", "=", "QT", ",", "QT">>, <<"rspauth", "=", "QT", "BS", "QT", "QT">>,
              <<"realms", "=", "QT", "x", "QT">>, <<"uri", "=", "QT", "u">>, <<"domain">>}
CrdJoin(a, b) == a \o <<",", "SP">> \o b
CrdPairs  == {CrdJoin(a, b) : a, b \in CrdSimple \cup CrdHard}
CrdTexts  == CrdSimple \cup CrdHard \cup CrdPairs
             \cup {CrdJoin(p, c) \o <<"HT", "CR", "SP">> :
                      p \in {CrdJoin(a, b) : a, b \in CrdSimple}, c \in CrdHard}
CrdSomeValues ==
  {[kind |-> k, text |-> <<"Digest", "SP">> \o t] :
     k \in {"www-authenticate", "authorization"}, t \in CrdTexts \ CrdHard}
  \cup {[kind |-> "authentication-info", text |-> t] : t \in CrdTexts}
=============================================================================
