------------------------------ MODULE Transfer ------------------------------
(***************************************************************************)
(* One HTTP exchange after another (net.cpp) and what is made of the       *)
(* answers: mail sent, mail fetched after a check (mailfetch.cpp), content *)
(* downloaded and unwrapped (wc24dec.cpp). Outbox, Inbox and               *)
(* ContainerUpdate take an exchange for a single step; this is its inside, *)
(* with the server at the other end of the connection.                     *)
(*                                                                         *)
(* A request is two pieces, its head and its body. An answer is a sequence *)
(* of pieces: its head with the status line, then the lines or parts of    *)
(* its body. The client reads pieces until the server closes the           *)
(* connection; there is no other sign of the answer's end.                 *)
(***************************************************************************)
EXTENDS Naturals, Sequences, FiniteSets, SequencesExt

CONSTANTS
    Messages,
    NetFaults   \* what can go wrong between client and server

(***************************************************************************)
(*   "refuse"   a name that does not resolve, a connection that is refused *)
(*   "reset"    the connection breaks and the next call reports it         *)
(*   "cut"      the connection is closed early, as if the answer had ended *)
(*   "error"    an answer with another status, or a cd other than 100      *)
(*   "chunked"  an answer in the chunks that HTTP/1.1 allows               *)
(*   "noKey"    wc24pubk.mod cannot be read                                *)
(***************************************************************************)
ASSUME TransferAssumption ==
    NetFaults \subseteq {"refuse", "reset", "cut", "error", "chunked", "noKey"}

\* The server's box and the console's are finite.
ASSUME MessagesAssumption == IsFiniteSet(Messages)

VARIABLES
    kind,     \* what the exchange is for
    at,       \* where the client is
    up,       \* the pieces of the request the server has
    answer,   \* the server's answer, <<>> until it acts on the request
    put,      \* how many of its pieces have been sent
    got,      \* how many have been read
    conn,     \* the connection, as the server left it
    queue,    \* the outgoing messages of the outbox
    taken,    \* those the server has accepted
    waiting,  \* the incoming messages the server holds
    inHand,   \* those Receive has returned
    torn,     \* those of them that are not whole
    entry,    \* the flags of the task whose content is asked for
    stored,   \* what the exchange, a download, has put into the container
    lost,     \* history: messages that were on a connection when it ended, or in chunks
    unheard   \* history: refused messages whose line a connection closed early kept back

exchange == <<kind, up, answer, put, got, conn, entry>>
mail == <<queue, taken, waiting, inHand, torn>>
hidden == <<lost, unheard>>
vars == <<exchange, at, mail, stored, hidden>>

Entries == [signed : BOOLEAN, encrypted : BOOLEAN]
Plain == [signed |-> FALSE, encrypted |-> FALSE]

Init ==
    /\ kind = "send" /\ at = "idle"
    /\ up = 0 /\ answer = <<>> /\ put = 0 /\ got = 0 /\ conn = "closed"
    /\ queue = {} /\ taken = {}
    /\ waiting = Messages /\ inHand = {} /\ torn = {}
    /\ entry = Plain /\ stored = "nothing"
    /\ lost = {} /\ unheard = {}

CanFail(fault) == fault \in NetFaults

-----------------------------------------------------------------------------
(***************************************************************************)
(* The client's side of a connection.                                      *)
(***************************************************************************)

\* HttpPostMultipart, HttpPostForm twice, HttpGet. Send returns at once if there is
\* nothing to send.
Request(k) ==
    /\ k = "send" => queue # {}
    /\ kind' = k
    /\ entry' \in IF k = "get" THEN Entries ELSE {Plain}
    /\ up' = 0 /\ answer' = <<>> /\ put' = 0 /\ got' = 0 /\ conn' = "closed"
    /\ at' = "connect"

Start ==
    /\ at = "idle"
    /\ \E k \in {"send", "check", "get"} : Request(k)
    /\ stored' = "nothing"
    /\ UNCHANGED <<mail, hidden>>

\* ConnectTo with no DNS server set: the console's resolver, then connect.
Connect ==
    /\ at = "connect"
    /\ conn' = "open"
    /\ at' = "request"
    /\ UNCHANGED <<kind, up, answer, put, got, entry, mail, stored, hidden>>

\* SendAll loops over what send() takes at a time.
SendSome ==
    /\ at = "request"
    /\ conn = "open"
    /\ up' = up + 1
    /\ at' = IF up' = 2 THEN "response" ELSE at
    /\ UNCHANGED <<kind, answer, put, got, conn, entry, mail, stored, hidden>>

\* ReadResponse.
Recv ==
    /\ at = "response"
    /\ got < put
    /\ got' = got + 1
    /\ UNCHANGED <<kind, at, up, answer, put, conn, entry, mail, stored, hidden>>

-----------------------------------------------------------------------------
(***************************************************************************)
(* What is made of the answer. A body of another status, or without its    *)
(* "cd=100", is not looked at any further.                                 *)
(***************************************************************************)
raw == SubSeq(answer, 1, got)
Has(piece) == Contains(raw, <<piece>>)
HasOf(piece, m) == Contains(raw, <<piece, m>>)

Succeeded == Has("200") /\ Has("cd=100")

\* Send: "A missing cd<N> means the server raised no objection".
Accepted == {m \in queue : Succeeded /\ ~HasOf("no", m)}

\* Receive: the body starts with the delimiter of its parts. Each part after the
\* first is a message, up to the next delimiter or to the end of what was read.
LaterParts ==
    {m \in Messages : Succeeded /\ raw[2] = <<"cd=100">>
                          /\ HasOf("begin", m) /\ raw[3] # <<"begin", m>>}
Parts ==
    {m \in Messages : Succeeded /\ raw[2] = <<"cd=100">> /\ HasOf("begin", m)}

\* Check: nothing is waiting if the server says so or does not say.
SaysNothing == Succeeded /\ ~Has("mail.flag")

\* Decode: signed content is behind a header that also has the IV of encrypted
\* content; the key is the title's.
AlwaysDecodes(keyed) == Has("200") /\ (Has("data 1") \/ Has("data 2"))
Decodes(keyed) ==
    /\ Has("200")
    /\ Has("data 1") \/ Has("data 2")
    /\ entry.encrypted => entry.signed /\ keyed

\* The payload that goes into the container.
Payload ==
    IF /\ Has("data 1") /\ Has("data 2") /\ ~Has("chunk")
       /\ entry.encrypted => Has("header and IV")
      THEN "whole" ELSE "damaged"

\* RunFetchMail goes on to receive.cgi unless Check is sure that nothing waits.
AfterCheck ==
    IF SaysNothing THEN at' = "idle" /\ UNCHANGED exchange ELSE Request("receive")

EndOfAnswer ==
    \/ /\ kind = "send"
       /\ queue' = queue \ Accepted
       /\ at' = "idle"
       /\ UNCHANGED <<exchange, taken, waiting, inHand, torn, stored>>
    \/ /\ kind = "check"
       /\ AfterCheck
       /\ UNCHANGED <<mail, stored>>
    \/ /\ kind = "receive"
       /\ inHand' = inHand \cup Parts
       /\ torn' = torn \cup {m \in Parts : ~HasOf("end", m)}
       /\ at' = "idle"
       /\ UNCHANGED <<exchange, queue, taken, waiting, stored>>
    \/ /\ kind = "get"
       /\ \E keyed \in {TRUE} \cup IF CanFail("noKey") THEN {FALSE} ELSE {} :
              stored' = IF Decodes(keyed) THEN Payload ELSE stored
       /\ at' = "idle"
       /\ UNCHANGED <<exchange, mail>>

\* recv() returns 0: the peer has closed, which ends the response.
PeerCloses ==
    /\ at = "response"
    /\ got = put
    /\ conn = "closed"
    /\ EndOfAnswer
    /\ UNCHANGED hidden

\* A failed call ends the exchange; a failed Check does not end RunFetchMail.
Fail ==
    /\ IF kind = "check" THEN Request("receive") ELSE at' = "idle" /\ UNCHANGED exchange
    /\ UNCHANGED <<mail, stored, hidden>>

\* What has been read so far is taken for the answer.
KeepWhatCame ==
    /\ at = "response"
    /\ conn = "reset"
    /\ EndOfAnswer
    /\ UNCHANGED hidden

\* recv() is called again after an error.
TryAgain ==
    /\ at = "response"
    /\ conn = "reset"
    /\ UNCHANGED vars

\* recv() returns less than 0, whatever was read before.
RecvFails ==
    /\ at = "response"
    /\ conn = "reset"
    /\ Fail

ConnectFails ==
    /\ at = "connect"
    /\ CanFail("refuse")
    /\ Fail

SendFails ==
    /\ at = "request"
    /\ conn # "open"
    /\ Fail

Client ==
    \/ Connect \/ ConnectFails \/ SendSome \/ SendFails
    \/ Recv \/ RecvFails \/ PeerCloses

-----------------------------------------------------------------------------
(***************************************************************************)
(* The server. It acts on a request once it has all of it.                 *)
(***************************************************************************)
Lines(names) == [i \in DOMAIN names |-> <<names[i]>>]

Framed(body) ==
    {Lines(<<"200">>) \o body}
        \cup IF CanFail("chunked") THEN {Lines(<<"200", "chunk">>) \o body} ELSE {}

\* A beginning and an end for each message.
BothHalves(ms) ==
    [i \in 1 .. 2 * Len(ms) |-> <<IF i % 2 = 1 THEN "begin" ELSE "end", ms[(i + 1) \div 2]>>]

Answers ==
    \/ /\ kind = "send"
       /\ \E refused \in SUBSET queue : \E order \in SetToSeqs(refused) :
              /\ answer' \in Framed(Lines(<<"cd=100">>) \o [i \in DOMAIN order |-> <<"no", order[i]>>])
              /\ taken' = taken \cup (queue \ refused)
       /\ UNCHANGED waiting
    \/ /\ kind = "check"
       /\ answer' \in Framed(Lines(IF waiting = {} THEN <<"cd=100">> ELSE <<"cd=100", "mail.flag">>))
       /\ UNCHANGED <<taken, waiting>>
    \/ /\ kind = "receive"
       /\ \E ms \in SetToAllKPermutations(waiting) :
              /\ answer' \in Framed(Lines(<<"cd=100">>) \o BothHalves(ms))
              /\ waiting' = waiting \ ToSet(ms)
       /\ UNCHANGED taken
    \/ /\ kind = "get"
       /\ answer' \in Framed(Lines(
              (IF entry.signed THEN <<"header and IV">> ELSE <<>>) \o <<"data 1", "data 2">>))
       /\ UNCHANGED <<taken, waiting>>
    \/ /\ CanFail("error")
       /\ answer' \in {Lines(<<"404", "data 1">>), Lines(<<"200", "cd=250">>)}
       /\ UNCHANGED <<taken, waiting>>

\* What the properties tell of an answer, and of the part of it that has been sent.
MessagesIn(a) == {m \in Messages : Contains(a, <<"begin", m>>)}
InChunks(a) == Contains(a, <<"chunk">>)
Sent == SubSeq(answer, 1, put)
KeptBack ==
    {m \in queue : kind = "send" /\ Contains(answer, <<"no", m>>)
                                 /\ Contains(Sent, <<"cd=100">>) /\ ~Contains(Sent, <<"no", m>>)}

ServerAnswers ==
    /\ conn = "open" /\ up = 2 /\ answer = <<>>
    /\ Answers
    /\ lost' = lost \cup IF InChunks(answer') THEN MessagesIn(answer') ELSE {}
    /\ UNCHANGED <<kind, at, up, put, got, conn, entry, queue, inHand, torn, stored, unheard>>

ServerSends ==
    /\ conn = "open"
    /\ put < Len(answer)
    /\ put' = put + 1
    /\ UNCHANGED <<kind, at, up, answer, got, conn, entry, mail, stored, hidden>>

ServerCloses ==
    /\ conn = "open"
    /\ answer # <<>> /\ put = Len(answer)
    /\ conn' = "closed"
    /\ UNCHANGED <<kind, at, up, answer, put, got, entry, mail, stored, hidden>>

ConnectionBreaks ==
    /\ conn = "open"
    /\ CanFail("reset")
    /\ conn' = "reset"
    /\ lost' = lost \cup MessagesIn(answer)
    /\ UNCHANGED <<kind, at, up, answer, put, got, entry, mail, stored, unheard>>

\* What was sent before will still be read; to the client that is all there is.
ConnectionEndsEarly ==
    /\ conn = "open"
    /\ CanFail("cut")
    /\ conn' = "closed"
    /\ lost' = lost \cup (MessagesIn(answer) \ MessagesIn(Sent))
    /\ unheard' = unheard \cup KeptBack
    /\ UNCHANGED <<kind, at, up, answer, put, got, entry, mail, stored>>

\* A message is written on the message board while the console runs vWii.
ConsoleComposes(m) ==
    /\ at = "idle"
    /\ m \notin queue \cup taken \cup unheard
    /\ queue' = queue \cup {m}
    /\ UNCHANGED <<exchange, at, taken, waiting, inHand, torn, stored, hidden>>

Next ==
    \/ Start \/ Client
    \/ ServerAnswers \/ ServerSends \/ ServerCloses \/ ConnectionBreaks \/ ConnectionEndsEarly
    \/ \E m \in Messages : ConsoleComposes(m)

\* The client's thread is never starved. Nothing is asked of the server.
Spec == Init /\ [][Next]_vars /\ WF_vars(Client)

-----------------------------------------------------------------------------
(***************************************************************************)
(* Properties.                                                             *)
(***************************************************************************)

\* "Messages are only retired from the outbox once the server says it took them":
\* whatever fails when, the console forgets only what the server has, with one
\* exception. ReadResponse takes an answer whose connection is closed early for a whole
\* one, and Send a missing line for a yes: a refused message is forgotten if the
\* connection ends after "cd=100" and before the line that refuses it.
Abstract == INSTANCE AtomicOutbox WITH accepted <- taken \cup unheard

RetiresOnlyTaken == Abstract!Spec

\* Receive takes the last part up to the end of what was read. A torn message goes to
\* the inbox only if the connection was closed early, and then only that part: an answer
\* that breaks off in any other way delivers nothing, and the messages before are whole.
OnlyTheLastIsTorn ==
    [][torn' # torn => /\ conn = "closed" /\ put < Len(answer)
                       /\ \E m \in Messages : torn' \ torn = {m}]_vars

\* The server forgets messages as it sends them, and the client has each of them in
\* hand when it is done, unless it was still on the connection when that ended, or the
\* answer came in chunks, which Receive does not understand: no message that came
\* through is thrown away.
LostOnlyInTransit ==
    \A m \in Messages \ (waiting \cup inHand \cup lost) :
        at # "idle" /\ kind = "receive" /\ Contains(answer, <<"begin", m>>)

\* What a download puts into a container is the whole content, in the clear, or was
\* closed early or in chunks: never an error page, something still encrypted or what
\* came before a reset.
StoresWholeContent ==
    [][stored' # stored /\ stored' = "damaged" =>
           conn = "closed" /\ (put < Len(answer) \/ InChunks(answer))]_vars

\* There is no timeout, so that a server that keeps the connection open and says
\* nothing is waited for; any other is done with.
WaitsOnlyForSilence ==
    at = "response" ~> at # "response" \/ [](conn = "open")

-----------------------------------------------------------------------------
\* What an early close breaks: no message is forgotten that the server does not have,
\* and none is delivered torn.
NothingIsUnheard == unheard \subseteq queue
NothingTornIsDelivered == torn = {}
=============================================================================
