--------------------------- MODULE MCMailMessage ---------------------------
(***************************************************************************)
(* MailMessage for texts of up to three header lines and two parts, and    *)
(* for messages whose fields are empty, short and as long as fits.         *)
(***************************************************************************)
EXTENDS MailMessage

v == "value"
wide == "the longest"
over == "one byte more"

MCWidth ==
    [k \in {"?", v, wide, over, CRLF, Wiimail, Own, "From: ", "To: ", "Subject: ", "Reply-", "--",
            "b", "boundary=", "charset=", "utf-8", "base64", "MIME-Version: 1.0",
            "X-Wii-AltName: ", "Content-Type: multipart/mixed; ",
            "Content-Type: text/plain; "} |->
        CASE k = "?" -> 1 [] k = wide -> Lengths - 1 [] k = over -> Lengths [] k \in {CRLF, "--"} -> 2 [] OTHER -> 5]

HeaderLines == {
    <<"From: ", v>>, <<"To: ", v>>, <<"Reply-", "To: ", v>>, <<"?", "To: ", v>>, <<"Subject: ">>,
    <<"Subject: ", wide>>, <<"boundary=", "b">>}

Heads == {l \o <<CRLF>> : l \in {<<>>} \cup
    {a \o <<CRLF>> \o b \o c : a \in HeaderLines,
                               b \in {<<>>} \cup {h \o <<CRLF>> : h \in HeaderLines},
                               c \in {<<>>} \cup {h \o <<CRLF>> : h \in HeaderLines}}}

Parts == {
    <<"--", "b", CRLF, "charset=", "utf-8", CRLF, CRLF, v, CRLF>>,
    <<"--", "b", CRLF, "charset=", "utf-8", CRLF, Wiimail, CRLF, CRLF, v, CRLF>>,
    <<"--", "b", CRLF, CRLF>>}

\* A text may end with the last delimiter, without it, or inside a part.
Ends == {<<"--", "b", "--">>, <<>>, <<"--", "b", CRLF, v>>}

Bodies == {<<>>, <<v, CRLF, CRLF>>} \cup
    {p \o q \o e : p \in Parts, q \in {<<>>} \cup Parts, e \in Ends} \cup Ends

MCFetched == {h \o b : h \in Heads, b \in Bodies}

Values == {<<>>, <<v>>, <<wide>>}

MCWritten ==
    [from : Values, to : Values, subject : Values, alt_name : {<<>>, <<v>>},
     body : {<<>>, <<v>>, <<v, CRLF>>, <<v, CRLF, CRLF, v>>, <<"charset=", CRLF>>}]

\* A subject that is longer than fits, one that looks like a boundary, and a body
\* that has the boundary in it.
Awkward ==
    [from |-> <<v>>, to |-> <<v>>, subject |-> <<over>>, alt_name |-> <<>>, body |-> <<v>>]
LongSubject == {Awkward}
NoTexts == {}
SubjectWithBoundary == {[Awkward EXCEPT !.subject = <<"boundary=", v>>]}
BodyWithBoundary == {[Awkward EXCEPT !.subject = <<v>>, !.body = <<v, CRLF, "--", Own, CRLF>>]}
\* No To line, but one that mentions it, and a body that starts with the name.
QuotingBody == {<<"Reply-", "To: ", v, CRLF, CRLF, "To: ", wide, CRLF>>}
\* A part without the mark among its headers that has it in its text, and one that has it.
MarkInText == {<<"boundary=", "b", CRLF, CRLF, "--", "b", CRLF, CRLF, Wiimail, CRLF,
                 "--", "b", CRLF, Wiimail, CRLF, CRLF, v, CRLF, "--", "b", "--">>}
=============================================================================
