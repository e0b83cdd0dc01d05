---------------------------- MODULE MailMessage ----------------------------
(***************************************************************************)
(* The stored form of a message and the index entry that points into it:   *)
(* BuildMessage and AnalyseMessage (mailmsg.cpp), the fields DeliverRaw    *)
(* fills in (mail.cpp). Inbox takes both, the message and its entry, for   *)
(* one value each.                                                         *)
(*                                                                         *)
(* A text is a sequence of tokens, each of a number of bytes: the markers  *)
(* that the parser looks for, and values that have none of them inside.    *)
(* Spans are kept in tokens; the entry has them in bytes. The quotes a     *)
(* boundary can be in are left out.                                        *)
(***************************************************************************)
EXTENDS Integers, Sequences, FiniteSetsExt, Functions, PackedField

CONSTANTS
    Fetched,   \* the texts the server can send
    Written,   \* the messages that can be given to Deliver
    Width,     \* the number of bytes of each token
    None       \* no entry, or no spans

CRLF == "\r\n"
Wiimail == "Content-Description: wiimail"
Names == {"From: ", "To: ", "Subject: "}

VARIABLES
    text,    \* the message to deliver
    built,   \* the spans of a message that BuildMessage made
    spans,   \* what AnalyseMessage finds in it
    entry,   \* its entry in the index
    outcome  \* what has become of it

messageVars == <<text, built, spans, entry, outcome>>

-----------------------------------------------------------------------------
(***************************************************************************)
(* Searching a text. Position 0 is npos.                                   *)
(***************************************************************************)
Occurrences(t, needle) ==
    {i \in 1 .. Len(t) - Len(needle) + 1 : SubSeq(t, i, i + Len(needle) - 1) = needle}

Find(t, needle, from) ==
    LET found == {i \in Occurrences(t, needle) : i >= from}
    IN  IF found = {} THEN 0 ELSE Min(found)

RFind(t, needle, to) ==
    LET found == {i \in Occurrences(t, needle) : i <= to}
    IN  IF found = {} THEN 0 ELSE Max(found)

OrEnd(t, at) == IF at = 0 THEN Len(t) + 1 ELSE at

Span(from, to) == [from |-> from, to |-> to]   \* up to and not including "to"
NoSpan == Span(1, 1)

Line(t, from) == Span(from, OrEnd(t, Find(t, <<CRLF>>, from)))

\* The first place the name is at, wherever in a line that is.
FindAnywhere(t, name, end) ==
    LET at == Find(t, <<name>>, 1)
    IN  IF at = 0 \/ at >= end THEN NoSpan ELSE Line(t, at + 1)

\* "Must start a line, or To: would match inside Reply-To: ".
FindHeaderValue(t, name, end) ==
    LET first == Find(t, <<name>>, 1)
        atLine == Find(t, <<CRLF, name>>, 1)
    IN  IF first = 0 \/ first >= end THEN NoSpan
        ELSE IF first = 1 \/ t[first - 1] = CRLF THEN Line(t, first + 1)
        ELSE IF atLine = 0 \/ atLine >= end THEN NoSpan
        ELSE Line(t, atLine + 2)

-----------------------------------------------------------------------------
(***************************************************************************)
(* AnalyseMessage.                                                         *)
(***************************************************************************)
Headers(t, mime) == [name \in Names |-> FindHeaderValue(t, name, mime)]

\* No boundary is an empty one.
Boundary(t, mime) ==
    LET b == Find(t, <<"boundary=">>, 1)
        value == Line(t, b + 1)
    IN  IF b = 0 \/ b >= mime THEN <<>> ELSE SubSeq(t, value.from, value.to - 1)

Delim(boundary) == <<"--">> \o boundary

\* "Prefer the part marked as the message-board body; fall back to the first."
FirstPart(t, delim, mime) == Find(t, delim, mime)

PartOf(t, delim, mime) ==
    LET marked == Find(t, <<Wiimail>>, mime)
    IN  IF marked # 0 THEN RFind(t, delim, marked) ELSE Find(t, delim, mime)

Charset(t, part, end) ==
    LET cs == Find(t, <<"charset=">>, part)
    IN  IF cs = 0 \/ cs >= end THEN NoSpan ELSE Line(t, cs + 1)

Unmarked(t, mime) ==
    [mime |-> mime, headers |-> Headers(t, mime), charset |-> NoSpan,
     body |-> Span(mime, Len(t) + 1)]

Multipart(t, mime, delim) ==
    LET part == PartOf(t, delim, mime)
        end == Find(t, <<CRLF, CRLF>>, part)
    IN  IF part = 0 \/ end = 0 THEN None
        ELSE [mime |-> mime, headers |-> Headers(t, mime),
              charset |-> Charset(t, part, end),
              body |-> Span(end + 2, OrEnd(t, Find(t, delim, end + 2)))]

AnalyseMessage(t) ==
    LET blank == Find(t, <<CRLF, CRLF>>, 1)
        mime == blank + 2
    IN  IF blank = 0 THEN None
        ELSE IF Boundary(t, mime) = <<>> THEN Unmarked(t, mime)
        ELSE Multipart(t, mime, Delim(Boundary(t, mime)))

\* A name one byte into the text: "at - 2" wraps around and compare throws.
Throws(t) ==
    /\ Find(t, <<CRLF, CRLF>>, 1) # 0
    /\ Width[t[1]] = 1
    /\ \E name \in Names : Find(t, <<name>>, 1) = 2

-----------------------------------------------------------------------------
(***************************************************************************)
(* BuildMessage. Deliver gives it the same id and minutes every time, of   *)
(* which the boundary is made.                                             *)
(***************************************************************************)
Own == "wuc2400000000/0"

Before(m) ==   \* up to where the body starts
    <<"From: ">> \o m.from \o <<CRLF, "To: ">> \o m.to \o <<CRLF, "Subject: ">> \o m.subject
        \o <<CRLF, "MIME-Version: 1.0", CRLF>>
        \o (IF m.alt_name = <<>> THEN <<>> ELSE <<"X-Wii-AltName: ", "base64", CRLF>>)
        \o <<"Content-Type: multipart/mixed; ", "boundary=", Own, CRLF, CRLF>>
        \o <<"--", Own, CRLF, "Content-Type: text/plain; ", "charset=", "utf-8", CRLF>>
        \o <<Wiimail, CRLF, CRLF>>

EndsLine(body) == body # <<>> /\ body[Len(body)] = CRLF

Normalised(body) ==
    body \o (IF EndsLine(body) THEN <<>> ELSE <<CRLF>>) \o <<CRLF, CRLF, CRLF>>

BuildMessage(m) == Before(m) \o Normalised(m.body) \o <<"--", Own, "--">>

\* The spans are taken down as the text grows.
SpansWith(m, bodyLength) ==
    LET before == Len(Before(m))
        from == 2
        to == from + Len(m.from) + 2
        subject == to + Len(m.to) + 2
    IN  [mime |-> before - 9,
         headers |-> [name \in Names |->
             CASE name = "From: " -> Span(from, from + Len(m.from))
               [] name = "To: " -> Span(to, to + Len(m.to))
               [] name = "Subject: " -> Span(subject, subject + Len(m.subject))],
         charset |-> Span(before - 4, before - 3),
         body |-> Span(before + 1, before + 1 + bodyLength)]

\* The body is measured before its line ends are put right.
MeasuredFirst(m) == SpansWith(m, Len(m.body))
BuiltSpans(m) == SpansWith(m, Len(Normalised(m.body)))

-----------------------------------------------------------------------------
(***************************************************************************)
(* The entry.                                                              *)
(***************************************************************************)
Bytes(t, from, to) == FoldFunctionOnSet(+, 0, [i \in DOMAIN t |-> Width[t[i]]], from .. to - 1)

Offset(t, span) == Bytes(t, 1, span.from)
Length(t, span) == Bytes(t, span.from, span.to)

Pack(t, span) == PackField(Offset(t, span), Length(t, span))

EntryOf(t, s) ==
    [msg_size |-> Bytes(t, 1, Len(t) + 1),
     header_length |-> Bytes(t, 1, s.mime),
     packed |-> [name \in Names |-> Pack(t, s.headers[name])],
     packed_charset |-> Pack(t, s.charset),
     message_offset |-> Offset(t, s.body),
     message_length |-> Length(t, s.body)]

-----------------------------------------------------------------------------
MessageInit ==
    /\ \/ text \in Fetched /\ built = None
       \/ \E m \in Written : text = BuildMessage(m) /\ built = BuiltSpans(m)
    /\ spans = None /\ entry = None /\ outcome = "pending"

\* DeliverRaw: "could not make sense of the message".
Refuse ==
    /\ outcome = "pending"
    /\ ~Throws(text) /\ AnalyseMessage(text) = None
    /\ outcome' = "refused"
    /\ UNCHANGED <<text, built, spans, entry>>

\* JobEntry has no handler: an exception that leaves AnalyseMessage aborts the console.
Abort ==
    /\ outcome = "pending"
    /\ Throws(text)
    /\ outcome' = "aborted"
    /\ UNCHANGED <<text, built, spans, entry>>

Index ==
    /\ outcome = "pending"
    /\ ~Throws(text) /\ AnalyseMessage(text) # None
    /\ spans' = AnalyseMessage(text)
    /\ entry' = EntryOf(text, spans')
    /\ outcome' = "indexed"
    /\ UNCHANGED <<text, built>>

MessageNext == Refuse \/ Abort \/ Index

MessageSpec == MessageInit /\ [][MessageNext]_messageVars

-----------------------------------------------------------------------------
(***************************************************************************)
(* What the message board relies on, said of the lines and parts of the    *)
(* text.                                                                   *)
(***************************************************************************)
HeadEnd(t) == Find(t, <<CRLF, CRLF>>, 1)

LinesOf(t, name) ==
    {i \in 1 .. HeadEnd(t) : t[i] = name /\ (i = 1 \/ t[i - 1] = CRLF)}

\* Where the first header of that name has its value.
ValueOf(t, name) ==
    IF LinesOf(t, name) = {} THEN NoSpan
    ELSE LET from == Min(LinesOf(t, name)) + 1
         IN  Span(from, Min({i \in from .. HeadEnd(t) : t[i] = CRLF}))

\* "Each one landed on exactly the right bytes": the packed fields of an entry, taken
\* apart again, have the values of the From, To and Subject lines of the header, or
\* nothing if it has no such line.
FieldsPointAtValues ==
    entry # None =>
        \A name \in Names :
            LET value == ValueOf(text, name)
            IN  /\ PackedOffset(entry.packed[name]) = Offset(text, value)
                /\ PackedLength(entry.packed[name]) = Length(text, value)

PartsOf(t, delim) == {i \in Occurrences(t, delim) : i >= HeadEnd(t) + 2}

BlankAfter(t, i) == Find(t, <<CRLF, CRLF>>, i)

\* The part that is shown: the first with the mark among its own headers, or the first.
Shown(t, delim) ==
    LET marked == {i \in PartsOf(t, delim) :
                      \E k \in i .. BlankAfter(t, i) : t[k] = Wiimail}
    IN  Min(IF marked = {} THEN PartsOf(t, delim) ELSE marked)

\* From the end of its headers up to the next part or the end of the text.
BodyOf(t) ==
    LET boundary == Boundary(t, HeadEnd(t) + 2)
        shown == Shown(t, Delim(boundary))
        later == {i \in PartsOf(t, Delim(boundary)) : i > shown}
    IN  IF boundary = <<>> THEN Span(HeadEnd(t) + 2, Len(t) + 1)
        ELSE Span(BlankAfter(t, shown) + 2, IF later = {} THEN Len(t) + 1 ELSE Min(later))

\* The entry points at that body: no header, no other part and nothing behind the text
\* is shown, and nothing of it is missing.
BodyIsThePart ==
    entry # None =>
        /\ entry.message_offset = Offset(text, BodyOf(text))
        /\ entry.message_length = Length(text, BodyOf(text))

\* "Anything we build must parse back to the same spans, since fetched mail is indexed
\* by parsing rather than by construction": it is never refused, does not end the
\* process, and what is found in it is what was put there.
ParsesBack ==
    built # None =>
        /\ outcome \in {"pending", "indexed"}
        /\ outcome = "indexed" => spans = built
=============================================================================
