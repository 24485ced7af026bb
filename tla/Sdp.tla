--------------------------------- MODULE Sdp --------------------------------
(***************************************************************************)
(* The session descriptions of osipparser2: the parser and the printer of  *)
(* sdp_message.c and the operations of sdp_accessor.c.  A text is a        *)
(* sequence of lines, a line its letter and a value that stands for the    *)
(* rest: the number of the line, 0 when the parser of that letter refuses  *)
(* it.  A line without `=' is "text", an empty one is "blank".             *)
(***************************************************************************)
EXTENDS Integers, Sequences, FiniteSets
LOCAL INSTANCE SequencesExt
LOCAL INSTANCE FiniteSetsExt

CONSTANTS SdpStarts,     \* the letters of the first lines of the texts
          SdpMaxLines,   \* bound: lines that follow them
          SdpMaxEdits    \* bound: those and calls of the application

ASSUME SdpAssumption ==
  /\ \A start \in SdpStarts : Len(start) > 0 /\ start[1] = "v"
  /\ SdpMaxLines \in Nat /\ SdpMaxEdits \in Nat

VARIABLE sdp

SdpMediaTypes  == {"m", "i", "c", "b", "k", "a"}
SdpOneInMedia  == {"m", "i", "k"}
SdpHeadTypes   == {"v", "o", "s", "i", "u", "e", "p", "c", "b", "z", "k", "a"}
SdpOneInHead   == {"v", "o", "s", "i", "u", "c", "z", "k"}
SdpTypes       == SdpHeadTypes \cup {"t", "r", "m", "text", "blank"}
SdpLine(type, value) == [type |-> type, value |-> value]

(* sdp_message_init, sdp_media_init *)
SdpNoLines(types) == [type \in types |-> <<>>]
SdpNoMessage      == [head |-> SdpNoLines(SdpHeadTypes), times |-> <<>>, medias |-> <<>>]
SdpMedia(value)   == [SdpNoLines(SdpMediaTypes) EXCEPT !["m"] = <<value>>]

-----------------------------------------------------------------------------
(* Where a line goes: what there may be one of is replaced, and what may   *)
(* belong to a media belongs to the last one there is.                     *)
SdpPut(lines, type, value, ones) ==
  [lines EXCEPT ![type] = IF type \in ones THEN <<value>> ELSE Append(@, value)]
SdpToMedia(msg, pos, type, value) ==
  [msg EXCEPT !.medias[pos] = SdpPut(@, type, value, SdpOneInMedia)]
SdpToHead(msg, type, value) ==
  [msg EXCEPT !.head = SdpPut(@, type, value, SdpOneInHead)]

SdpToLast(msg, type, value) ==
  IF msg.medias = <<>> THEN SdpToHead(msg, type, value)
  ELSE SdpToMedia(msg, Len(msg.medias), type, value)
SdpTime(value) == [t |-> value, r |-> <<>>]

(* The parser of a letter looks for the next `=' and at the letter before  *)
(* it, which skips whatever has no `='.                                    *)
SdpNextLine(st) ==
  SelectInSeq(st.rest, LAMBDA line : line.type \notin {"text", "blank"})
SdpValue(st) == st.rest[SdpNextLine(st)].value
SdpParseLine(st, type, msg) ==
  LET n == SdpNextLine(st)
  IN  IF n = 0 THEN [st EXCEPT !.result = "error"]
      ELSE IF st.rest[n].type # type THEN [st EXCEPT !.result = "discard"]
      ELSE IF st.rest[n].value = 0 THEN [st EXCEPT !.result = "error"]
      ELSE [st EXCEPT !.result = "ok", !.msg = msg, !.rest = SubSeq(@, n + 1, Len(@))]
SdpParseHead(st, type) == SdpParseLine(st, type, SdpToHead(st.msg, type, SdpValue(st)))
SdpParseLast(st, type) == SdpParseLine(st, type, SdpToLast(st.msg, type, SdpValue(st)))

sdp_message_parse_v(st) == SdpParseHead(st, "v")
sdp_message_parse_o(st) == SdpParseHead(st, "o")
sdp_message_parse_s(st) == SdpParseHead(st, "s")
sdp_message_parse_i(st) == SdpParseLast(st, "i")
sdp_message_parse_u(st) == SdpParseHead(st, "u")
sdp_message_parse_e(st) == SdpParseHead(st, "e")
sdp_message_parse_p(st) == SdpParseHead(st, "p")
sdp_message_parse_c_first(st) ==
  SdpParseLine(st, "c", IF st.msg.medias = <<>> THEN SdpToHead(st.msg, "c", SdpValue(st))
                        ELSE SdpToMedia(st.msg, 1, "c", SdpValue(st)))
sdp_message_parse_c(st) == SdpParseLast(st, "c")
sdp_message_parse_b(st) == SdpParseLast(st, "b")
sdp_message_parse_t(st) ==
  SdpParseLine(st, "t", [st.msg EXCEPT !.times = Append(@, SdpTime(SdpValue(st)))])
sdp_message_parse_r(st) ==
  SdpParseLine(st, "r", [st.msg EXCEPT !.times[Len(st.msg.times)].r = Append(@, SdpValue(st))])
sdp_message_parse_z(st) == SdpParseHead(st, "z")
sdp_message_parse_k(st) == SdpParseLast(st, "k")
sdp_message_parse_a(st) == SdpParseLast(st, "a")
sdp_message_parse_m(st) ==
  SdpParseLine(st, "m", [st.msg EXCEPT !.medias = Append(@, SdpMedia(SdpValue(st)))])

SdpParse(st, type) ==
  CASE type = "v" -> sdp_message_parse_v(st) [] type = "o" -> sdp_message_parse_o(st)
    [] type = "s" -> sdp_message_parse_s(st) [] type = "i" -> sdp_message_parse_i(st)
    [] type = "u" -> sdp_message_parse_u(st) [] type = "e" -> sdp_message_parse_e(st)
    [] type = "p" -> sdp_message_parse_p(st) [] type = "c" -> sdp_message_parse_c(st)
    [] type = "b" -> sdp_message_parse_b(st) [] type = "t" -> sdp_message_parse_t(st)
    [] type = "r" -> sdp_message_parse_r(st) [] type = "z" -> sdp_message_parse_z(st)
    [] type = "k" -> sdp_message_parse_k(st) [] type = "a" -> sdp_message_parse_a(st)
    [] type = "m" -> sdp_message_parse_m(st)

-----------------------------------------------------------------------------
(* sdp_message_parse reads the types in an order: a type once or as often  *)
(* as it comes; whether it must be there; whether the text may end after   *)
(* it; and whether it decides on another round of its group.               *)
SdpOnce(type)  ==
  [type |-> type, many |-> FALSE, must |-> FALSE, ends |-> FALSE, loops |-> FALSE]
SdpMany(type)  == [SdpOnce(type) EXCEPT !.many = TRUE]
SdpMust(type)  == [SdpOnce(type) EXCEPT !.must = TRUE]
SdpEnds(read)  == [read EXCEPT !.ends = TRUE]
SdpLoops(read) == [SdpEnds(read) EXCEPT !.loops = TRUE]

SdpFirstReads ==
  <<SdpMust("v"), SdpOnce("s"), SdpMust("o"), SdpOnce("s"), SdpOnce("i"), SdpOnce("u"),
    SdpMany("e"), SdpMany("p"), SdpOnce("c"), SdpMany("b"), SdpEnds(SdpMust("t"))>>
SdpTimeReads == <<SdpEnds(SdpMany("r")), SdpLoops(SdpOnce("t"))>>
SdpHeadReads == <<SdpEnds(SdpOnce("z")), SdpEnds(SdpOnce("k")), SdpEnds(SdpMany("a"))>>
SdpMediaReads ==
  <<SdpLoops(SdpOnce("m")), SdpEnds(SdpOnce("i")), SdpEnds(SdpMany("c")),
    SdpEnds(SdpMany("b")), SdpEnds(SdpOnce("k")), SdpEnds(SdpMany("a"))>>

SdpAtEnd(rest) == rest = <<>> \/ rest[1].type = "blank"
SdpReturns(st, ok) == [st EXCEPT !.over = TRUE, !.ok = ok]
SdpRead(st, read) ==
  IF st.result = "error" \/ (read.must /\ st.result # "ok") THEN SdpReturns(st, FALSE)
  ELSE IF read.ends /\ SdpAtEnd(st.rest) THEN SdpReturns(st, TRUE)
  ELSE IF read.loops THEN [st EXCEPT !.more = st.result = "ok"]
  ELSE st

(* The types of a list are read in turn, one that may repeat until another *)
(* comes, and a group in rounds.                                           *)
RECURSIVE SdpReads(_, _, _), SdpReadMany(_, _, _), SdpRounds(_, _), SdpAgain(_, _)
SdpReadMany(st, reads, n) ==
  SdpReads(st, reads, IF reads[n].many /\ st.result = "ok" THEN n ELSE n + 1)
SdpReads(st, reads, n) ==
  IF st.over \/ n > Len(reads) THEN st
  ELSE SdpReadMany(SdpRead(SdpParse(st, reads[n].type), reads[n]), reads, n)
SdpRounds(st, reads) == SdpAgain(SdpReads(st, reads, 1), reads)
SdpAgain(st, reads)  == IF st.over \/ ~st.more THEN st ELSE SdpRounds(st, reads)

SdpAnyText(text) == [msg |-> SdpNoMessage, rest |-> text, result |-> "ok", more |-> TRUE,
                     over |-> FALSE, ok |-> TRUE]
sdp_message_parse(text) ==
  SdpRounds(SdpReads(SdpRounds(SdpReads(SdpAnyText(text), SdpFirstReads, 1), SdpTimeReads),
                     SdpHeadReads, 1), SdpMediaReads)

(* sdp_message_to_str: nothing without a version and an origin. *)
SdpPrinted(lines, order) ==
  FlattenSeq([n \in DOMAIN order |->
    [j \in DOMAIN lines[order[n]] |-> SdpLine(order[n], lines[order[n]][j])]])
sdp_append_time_descr(time) ==
  <<SdpLine("t", time.t)>> \o [j \in DOMAIN time.r |-> SdpLine("r", time.r[j])]
sdp_append_media(media) == SdpPrinted(media, <<"m", "i", "c", "b", "k", "a">>)
sdp_message_to_str(msg) ==
  IF msg.head["v"] = <<>> \/ msg.head["o"] = <<>> THEN <<>>
  ELSE SdpPrinted(msg.head, <<"v", "o", "s", "i", "u", "e", "p", "c", "b">>)
       \o FlattenSeq([n \in DOMAIN msg.times |-> sdp_append_time_descr(msg.times[n])])
       \o SdpPrinted(msg.head, <<"z", "k", "a">>)
       \o FlattenSeq([n \in DOMAIN msg.medias |-> sdp_append_media(msg.medias[n])])

sdp_message_clone(msg) == sdp_message_parse(sdp_message_to_str(msg))

-----------------------------------------------------------------------------
(* A text comes line by line; nothing follows a line that no parser takes, *)
(* such as one that is cut off.                                            *)
SdpInit == \E start \in SdpStarts :
  sdp = [state |-> "text", msg |-> SdpNoMessage, rest |-> <<>>, lines |-> 0, edits |-> 0,
         text |-> [n \in DOMAIN start |-> SdpLine(start[n], n)]]

SdpComes ==
  /\ sdp.state = "text" /\ sdp.lines < SdpMaxLines /\ Last(sdp.text).value # 0
  /\ \E type \in SdpTypes, value \in {0, Len(sdp.text) + 1} :
       /\ type \in {"text", "blank"} => value # 0
       /\ sdp' = [sdp EXCEPT !.text = Append(@, SdpLine(type, value)), !.lines = @ + 1]

SdpParses ==
  /\ sdp.state = "text"
  /\ LET p == sdp_message_parse(sdp.text)
     IN  sdp' = [sdp EXCEPT !.state = IF p.ok THEN "parsed" ELSE "refused",
                            !.msg = IF p.ok THEN p.msg ELSE SdpNoMessage,
                            !.rest = IF p.ok THEN p.rest ELSE <<>>]

-----------------------------------------------------------------------------
(* The calls of the application.  Two attributes have the same name when   *)
(* their values are both even or both odd.                                 *)
SdpName(value)   == value % 2
SdpNew           == Len(sdp.text) + sdp.edits + 1
SdpMay           == /\ sdp.state \in {"parsed", "edited"}
                    /\ sdp.edits + sdp.lines <= SdpMaxEdits
SdpEdited(msg)   == sdp' = [sdp EXCEPT !.state = "edited", !.msg = msg, !.edits = @ + 1]
SdpMediaPos      == DOMAIN sdp.msg.medias

SdpEditedAt(type) ==
  \/ SdpEdited(SdpToHead(sdp.msg, type, SdpNew))
  \/ \E pos \in SdpMediaPos : SdpEdited(SdpToMedia(sdp.msg, pos, type, SdpNew))

sdp_message_set_head ==      \* v, o, s, u and z are set, e and p added
  SdpMay /\ \E type \in {"v", "o", "s", "u", "z", "e", "p"} :
    SdpEdited(SdpToHead(sdp.msg, type, SdpNew))
sdp_message_i_info_set       == SdpMay /\ SdpEditedAt("i")
sdp_message_c_connection_add == SdpMay /\ SdpEditedAt("c")
sdp_message_b_bandwidth_add  == SdpMay /\ SdpEditedAt("b")
sdp_message_k_key_set        == SdpMay /\ SdpEditedAt("k")
sdp_message_a_attribute_add  == SdpMay /\ SdpEditedAt("a")
sdp_message_t_time_descr_add ==
  SdpMay /\ SdpEdited([sdp.msg EXCEPT !.times = Append(@, SdpTime(SdpNew))])
sdp_message_r_repeat_add ==
  SdpMay /\ \E pos \in DOMAIN sdp.msg.times :
    SdpEdited([sdp.msg EXCEPT !.times[pos].r = Append(@, SdpNew)])
sdp_message_m_media_add ==
  SdpMay /\ SdpEdited([sdp.msg EXCEPT !.medias = Append(@, SdpMedia(SdpNew))])

SdpNamed(attributes, name) == SelectSeq(attributes, LAMBDA v : SdpName(v) # name)
sdp_message_a_attribute_del ==
  SdpMay /\ \E name \in {0, 1} :
    \/ SdpEdited([sdp.msg EXCEPT !.head["a"] = SdpNamed(@, name)])
    \/ \E pos \in SdpMediaPos :
         SdpEdited([sdp.msg EXCEPT !.medias[pos]["a"] = SdpNamed(@, name)])

(* For a media the loop that looks for the name is not left when an index  *)
(* is given: the attribute at that index is removed again and again, and   *)
(* the call does not return while others are left.                         *)
sdp_message_a_attribute_del_at_index ==
  SdpMay /\
  \/ \E at \in DOMAIN sdp.msg.head["a"] :
       sdp' = [sdp EXCEPT !.state = "edited", !.msg.head["a"] = RemoveAt(@, at),
                          !.edits = @ + 1]
  \/ \E pos \in SdpMediaPos : \E at \in DOMAIN sdp.msg.medias[pos]["a"] :
       sdp' = [sdp EXCEPT !.state = IF at = 1 THEN "edited" ELSE "hung",
                          !.msg.medias[pos]["a"] = SubSeq(@, 1, at - 1), !.edits = @ + 1]

SdpNext ==
  \/ SdpComes \/ SdpParses
  \/ sdp_message_set_head \/ sdp_message_i_info_set \/ sdp_message_c_connection_add
  \/ sdp_message_b_bandwidth_add \/ sdp_message_k_key_set \/ sdp_message_a_attribute_add
  \/ sdp_message_t_time_descr_add \/ sdp_message_r_repeat_add \/ sdp_message_m_media_add
  \/ sdp_message_a_attribute_del \/ sdp_message_a_attribute_del_at_index

SdpSpec == SdpInit /\ [][SdpNext]_sdp

-----------------------------------------------------------------------------
(* The lines that a parsed text was read up to, and where each belongs.    *)
SdpTaken        == SubSeq(sdp.text, 1, Len(sdp.text) - Len(sdp.rest))
SdpMediaOf(j)   == Cardinality({n \in 1 .. j : SdpTaken[n].type = "m"})
SdpTimeOf(j)    == Cardinality({n \in 1 .. j : SdpTaken[n].type = "t"})
SdpSection(j)   ==
  LET type == SdpTaken[j].type
  IN  CASE type = "t" -> <<sdp.msg.times[SdpTimeOf(j)].t>>
        [] type = "r" -> sdp.msg.times[SdpTimeOf(j)].r
        [] type \in SdpMediaTypes /\ SdpMediaOf(j) > 0 ->
             sdp.msg.medias[SdpMediaOf(j)][type]
        [] OTHER -> sdp.msg.head[type]
SdpReplaced(j) ==
  /\ SdpTaken[j].type \in (IF SdpMediaOf(j) = 0 THEN SdpOneInHead ELSE SdpOneInMedia)
  /\ \E n \in j + 1 .. Len(SdpTaken) :
       SdpTaken[n].type = SdpTaken[j].type /\ SdpMediaOf(n) = SdpMediaOf(j)
SdpNothingMisplaced ==
  sdp.state = "parsed" =>
    \A j \in DOMAIN SdpTaken :
      SdpTaken[j].type \notin {"text", "blank"} =>
        \/ \E n \in DOMAIN SdpSection(j) : SdpSection(j)[n] = j
        \/ SdpReplaced(j)

(* What a text says of a media is in that media and nowhere else, in the   *)
(* order of the text, up to the place where the parser stops; and a        *)
(* message that was read, and changed by the calls of the application, is  *)
(* printed to a text that is read to the same message: sdp_message_clone   *)
(* makes an equal one.                                                     *)
SdpClonesAgree ==
  /\ sdp.state \in {"parsed", "edited"} =>
       LET c == sdp_message_clone(sdp.msg) IN c.ok /\ c.msg = sdp.msg /\ c.rest = <<>>
  /\ SdpNothingMisplaced
=============================================================================
