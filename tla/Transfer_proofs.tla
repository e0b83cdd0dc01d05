--------------------------- MODULE Transfer_proofs ---------------------------
(***************************************************************************)
(* Theorems about Transfer, for any finite set of messages: what the       *)
(* client makes of an answer, wherever the connection breaks.              *)
(***************************************************************************)
EXTENDS Transfer, FiniteSetTheorems, SequenceTheorems, TLAPS

Names == {"200", "404", "chunk", "cd=100", "cd=250", "mail.flag",
          "header and IV", "data 1", "data 2", "begin", "end", "no"}

Piece == {<<line>> : line \in Names} \cup (Names \X Messages)

-----------------------------------------------------------------------------
(***************************************************************************)
(* Answers as sequences of pieces.                                         *)
(***************************************************************************)

LEMMA SeqOfOne ==
    ASSUME NEW S, NEW x \in S
    PROVE  <<x>> \in Seq(S) /\ Len(<<x>>) = 1 /\ <<x>>[1] = x
  OBVIOUS

LEMMA SeqOfTwo ==
    ASSUME NEW S, NEW x \in S, NEW y \in S
    PROVE  /\ <<x, y>> \in Seq(S) /\ Len(<<x, y>>) = 2
           /\ <<x, y>>[1] = x /\ <<x, y>>[2] = y
  OBVIOUS

\* What the short ones contain.
LEMMA ContainsOfNone ==
    ASSUME NEW S
    PROVE  <<>> \in Seq(S) /\ \A x : ~Contains(<<>>, x)
<1>1. <<>> \in Seq(S) /\ Len(<<>>) = 0
  BY EmptySeq
<1> QED
  BY <1>1 DEF Contains

LEMMA ContainsOfOne ==
    ASSUME NEW S, NEW y \in S
    PROVE  <<y>> \in Seq(S) /\ \A x : Contains(<<y>>, x) <=> x = y
<1> DEFINE one == <<y>>
<1>1. one \in Seq(S) /\ Len(one) = 1 /\ one[1] = y
  BY SeqOfOne
<1> HIDE DEF one
<1>2. 1 \in 1 .. 1 /\ \A i \in 1 .. 1 : i = 1
  OBVIOUS
<1>3. \A x : Contains(one, x) <=> \E i \in 1 .. 1 : one[i] = x
  BY <1>1 DEF Contains
<1>4. \A x : Contains(one, x) <=> x = y
  BY <1>1, <1>2, <1>3, Zenon
<1> QED
  BY <1>1, <1>4 DEF one

LEMMA ContainsOfTwo ==
    ASSUME NEW S, NEW y \in S, NEW z \in S
    PROVE  <<y, z>> \in Seq(S) /\ \A x : Contains(<<y, z>>, x) <=> (x = y \/ x = z)
<1> DEFINE two == <<y, z>>
<1>1. two \in Seq(S) /\ Len(two) = 2 /\ two[1] = y /\ two[2] = z
  BY SeqOfTwo
<1> HIDE DEF two
<1>2. 1 \in 1 .. 2 /\ 2 \in 1 .. 2 /\ \A i \in 1 .. 2 : i = 1 \/ i = 2
  OBVIOUS
<1>3. \A x : Contains(two, x) <=> \E i \in 1 .. 2 : two[i] = x
  BY <1>1 DEF Contains
<1>4. \A x : Contains(two, x) <=> (x = y \/ x = z)
  BY <1>1, <1>2, <1>3, Zenon
<1> QED
  BY <1>1, <1>4 DEF two

\* A piece of a concatenation is a piece of one of its halves.
LEMMA ContainsConcat ==
    ASSUME NEW S, NEW s \in Seq(S), NEW t \in Seq(S), NEW e
    PROVE  Contains(s \o t, e) <=> Contains(s, e) \/ Contains(t, e)
<1>1. /\ Len(s \o t) = Len(s) + Len(t)
      /\ \A i \in 1 .. Len(s) + Len(t) :
             (s \o t)[i] = IF i <= Len(s) THEN s[i] ELSE t[i - Len(s)]
  BY ConcatProperties
<1>2. Len(s) \in Nat /\ Len(t) \in Nat
  OBVIOUS
<1>3. ASSUME Contains(s, e) PROVE Contains(s \o t, e)
  BY <1>1, <1>2, <1>3 DEF Contains
<1>4. ASSUME Contains(t, e) PROVE Contains(s \o t, e)
  <2>1. PICK i \in 1 .. Len(t) : t[i] = e
    BY <1>4 DEF Contains
  <2>2. /\ i + Len(s) \in 1 .. Len(s) + Len(t)
        /\ ~(i + Len(s) <= Len(s))
        /\ i + Len(s) - Len(s) = i
    BY <1>2, <2>1
  <2>3. (s \o t)[i + Len(s)] = e
    BY <1>1, <2>1, <2>2
  <2> QED
    BY <1>1, <2>2, <2>3 DEF Contains
<1>5. ASSUME Contains(s \o t, e) PROVE Contains(s, e) \/ Contains(t, e)
  <2>1. PICK i \in 1 .. Len(s) + Len(t) : (s \o t)[i] = e
    BY <1>1, <1>5 DEF Contains
  <2>2. CASE i <= Len(s)
    BY <1>1, <1>2, <2>1, <2>2 DEF Contains
  <2>3. CASE ~(i <= Len(s))
    <3>1. i - Len(s) \in 1 .. Len(t)
      BY <1>2, <2>1, <2>3
    <3>2. t[i - Len(s)] = e
      BY <1>1, <2>1, <2>3
    <3> QED
      BY <3>1, <3>2 DEF Contains
  <2> QED
    BY <2>2, <2>3
<1> QED
  BY <1>3, <1>4, <1>5

\* Lines have one field each.
LEMMA LinesType ==
    ASSUME NEW names \in Seq(Names)
    PROVE  /\ Lines(names) \in Seq(Piece)
           /\ Len(Lines(names)) = Len(names)
           /\ \A i \in 1 .. Len(names) : Lines(names)[i] = <<names[i]>>
<1>1. DOMAIN names = 1 .. Len(names) /\ Len(names) \in Nat
  BY LenProperties
<1>2. \A i \in 1 .. Len(names) : names[i] \in Names
  BY ElementOfSeq
<1>3. \A i \in 1 .. Len(names) : <<names[i]>> \in Piece
  BY <1>2 DEF Piece
<1> QED
  BY <1>1, <1>3 DEF Lines

LEMMA ContainsLine ==
    ASSUME NEW names \in Seq(Names)
    PROVE  /\ \A i \in 1 .. Len(names) : Contains(Lines(names), <<names[i]>>)
           /\ \A x : (\A i \in 1 .. Len(names) : names[i] # x) => ~Contains(Lines(names), <<x>>)
           /\ \A x, m : ~Contains(Lines(names), <<x, m>>)
<1>1. /\ Len(Lines(names)) = Len(names)
      /\ \A i \in 1 .. Len(names) : Lines(names)[i] = <<names[i]>>
  BY LinesType
<1>2. \A x, y : <<x>> = <<y>> => x = y
  OBVIOUS
<1>3. \A x, y, m : <<x>> # <<y, m>>
  OBVIOUS
<1> QED
  BY <1>1, <1>2, <1>3 DEF Contains

LEMMA TwoLines ==
    ASSUME NEW first \in Names, NEW second \in Names
    PROVE  /\ Lines(<<first, second>>) \in Seq(Piece)
           /\ Lines(<<first, second>>) # <<>>
           /\ Contains(Lines(<<first, second>>), <<first>>)
           /\ Contains(Lines(<<first, second>>), <<second>>)
           /\ \A x : x # first /\ x # second => ~Contains(Lines(<<first, second>>), <<x>>)
           /\ \A x, m : ~Contains(Lines(<<first, second>>), <<x, m>>)
<1> DEFINE names == <<first, second>>
<1>1. names \in Seq(Names) /\ Len(names) = 2 /\ names[1] = first /\ names[2] = second
  BY SeqOfTwo
<1> HIDE DEF names
<1>2. /\ Lines(names) \in Seq(Piece) /\ Len(Lines(names)) = 2
      /\ \A i \in 1 .. 2 : Lines(names)[i] = <<names[i]>>
  BY <1>1, LinesType
<1>3. Lines(names)[1] = <<first>> /\ Lines(names)[2] = <<second>>
  BY <1>1, <1>2
<1>4. \A i \in 1 .. 2 : i = 1 \/ i = 2
  OBVIOUS
<1>5. \A e : Contains(Lines(names), e) <=> e = <<first>> \/ e = <<second>>
  <2>1. \A e : Contains(Lines(names), e) <=> \E i \in 1 .. 2 : Lines(names)[i] = e
    BY <1>2 DEF Contains
  <2>2. 1 \in 1 .. 2 /\ 2 \in 1 .. 2
    OBVIOUS
  <2> QED
    BY <1>3, <1>4, <2>1, <2>2, Zenon
<1>6. \A x, m : <<first>> # <<x, m>> /\ <<second>> # <<x, m>>
  OBVIOUS
<1>7. \A x : (<<x>> = <<first>> => x = first) /\ (<<x>> = <<second>> => x = second)
  OBVIOUS
<1>8. Lines(names) # <<>>
  <2>1. Len(<<>>) = 0
    OBVIOUS
  <2> QED
    BY <1>2, <2>1
<1> QED
  BY <1>2, <1>5, <1>6, <1>7, <1>8 DEF names

\* The end of a message comes right behind its beginning.
PairsAdjacent(a) ==
    \A i \in 1 .. Len(a), m \in Messages :
        a[i] = <<"begin", m>> => i < Len(a) /\ a[i + 1] = <<"end", m>>

\* Lines in front of them leave it so.
LEMMA LeadKeepsPairs ==
    ASSUME NEW lead \in Seq(Piece), NEW b \in Seq(Piece),
           \A x, m : ~Contains(lead, <<x, m>>), PairsAdjacent(b)
    PROVE  PairsAdjacent(lead \o b)
<1> DEFINE a == lead \o b
<1>1. /\ Len(a) = Len(lead) + Len(b)
      /\ \A i \in 1 .. Len(lead) + Len(b) :
             a[i] = IF i <= Len(lead) THEN lead[i] ELSE b[i - Len(lead)]
  BY ConcatProperties
<1>2. Len(lead) \in Nat /\ Len(b) \in Nat
  OBVIOUS
<1> HIDE DEF a
<1>3. ASSUME NEW i \in 1 .. Len(a), NEW m \in Messages, a[i] = <<"begin", m>>
      PROVE  i < Len(a) /\ a[i + 1] = <<"end", m>>
  <2>1. ~(i <= Len(lead))
    <3> SUFFICES ASSUME i <= Len(lead) PROVE FALSE
      OBVIOUS
    <3>1. i \in 1 .. Len(lead) /\ lead[i] = a[i]
      BY <1>1, <1>2
    <3>2. Contains(lead, <<"begin", m>>)
      BY <1>3, <3>1 DEF Contains
    <3> QED
      BY <3>2
  <2> DEFINE k == i - Len(lead)
  <2>2. k \in 1 .. Len(b) /\ a[i] = b[k]
    BY <1>1, <1>2, <2>1
  <2>3. k < Len(b) /\ b[k + 1] = <<"end", m>>
    BY <1>3, <2>2 DEF PairsAdjacent
  <2>4. i + 1 \in 1 .. Len(lead) + Len(b) /\ ~(i + 1 <= Len(lead)) /\ i + 1 - Len(lead) = k + 1
    BY <1>1, <1>2, <2>1, <2>3
  <2> QED
    BY <1>1, <1>2, <2>3, <2>4
<1> QED
  BY <1>3 DEF a, PairsAdjacent

\* What an answer holds besides its head, and where it starts.
LEMMA FramedAnswers ==
    ASSUME NEW body \in Seq(Piece), NEW a \in Framed(body)
    PROVE  /\ a \in Seq(Piece) /\ a # <<>>
           /\ \A x, m : Contains(a, <<x, m>>) <=> Contains(body, <<x, m>>)
           /\ \A e : Contains(body, e) => Contains(a, e)
           /\ Contains(a, <<"200">>)
           /\ PairsAdjacent(body) => PairsAdjacent(a)
           /\ ~InChunks(a) =>
                  /\ \A e : Contains(a, e) => e = <<"200">> \/ Contains(body, e)
                  /\ a[1] = <<"200">>
                  /\ Len(body) > 0 => a[2] = body[1]
<1> DEFINE one == <<"200">>
           two == <<"200", "chunk">>
           plain == Lines(one)
           chunked == Lines(two)
<1>1. one \in Seq(Names) /\ Len(one) = 1 /\ one[1] = "200"
  <2>1. "200" \in Names
    BY DEF Names
  <2> QED
    BY <2>1, SeqOfOne
<1>2. two \in Seq(Names) /\ Len(two) = 2 /\ two[1] = "200" /\ two[2] = "chunk"
  <2>1. "200" \in Names /\ "chunk" \in Names
    BY DEF Names
  <2> QED
    BY <2>1, SeqOfTwo
<1>3. a = plain \o body \/ a = chunked \o body
  BY DEF Framed
<1> HIDE DEF one, two
<1>4. plain \in Seq(Piece) /\ Len(plain) = 1 /\ plain[1] = <<"200">>
  BY <1>1, LinesType
<1>5. chunked \in Seq(Piece) /\ Len(chunked) = 2
  BY <1>2, LinesType
<1>6. Contains(plain, <<"200">>) /\ \A x, m : ~Contains(plain, <<x, m>>)
  BY <1>1, ContainsLine
<1>7. /\ Contains(chunked, <<"200">>) /\ Contains(chunked, <<"chunk">>)
      /\ \A x, m : ~Contains(chunked, <<x, m>>)
  <2>1. Contains(chunked, <<two[1]>>) /\ Contains(chunked, <<two[2]>>)
    BY <1>2, ContainsLine
  <2>2. \A x, m : ~Contains(chunked, <<x, m>>)
    BY <1>2, ContainsLine
  <2> QED
    BY <1>2, <2>1, <2>2
<1>8. \A e : Contains(plain, e) => e = <<"200">>
  BY <1>4 DEF Contains
<1> HIDE DEF plain, chunked
<1>9. CASE a = plain \o body
  <2>1. \A e : Contains(plain \o body, e) <=> Contains(plain, e) \/ Contains(body, e)
    BY <1>4, ContainsConcat
  <2>2. /\ plain \o body \in Seq(Piece) /\ Len(plain \o body) = Len(plain) + Len(body)
        /\ \A i \in 1 .. Len(plain) + Len(body) :
               (plain \o body)[i] = IF i <= Len(plain) THEN plain[i] ELSE body[i - Len(plain)]
    BY <1>4, ConcatProperties
  <2>3. Len(body) \in Nat
    OBVIOUS
  <2>4. a # <<>>
    BY <1>4, <1>9, <2>2, <2>3
  <2>5. a[1] = <<"200">> /\ (Len(body) > 0 => a[2] = body[1])
    BY <1>4, <1>9, <2>2, <2>3
  <2>6. PairsAdjacent(body) => PairsAdjacent(a)
    BY <1>4, <1>6, <1>9, LeadKeepsPairs
  <2> QED
    BY <1>6, <1>8, <1>9, <2>1, <2>2, <2>4, <2>5, <2>6
<1>10. CASE a = chunked \o body
  <2>1. \A e : Contains(chunked \o body, e) <=> Contains(chunked, e) \/ Contains(body, e)
    BY <1>5, ContainsConcat
  <2>2. chunked \o body \in Seq(Piece) /\ Len(chunked \o body) = Len(chunked) + Len(body)
    BY <1>5, ConcatProperties
  <2>3. Len(body) \in Nat
    OBVIOUS
  <2>4. a # <<>>
    BY <1>5, <1>10, <2>2, <2>3
  <2>5. PairsAdjacent(body) => PairsAdjacent(a)
    BY <1>5, <1>7, <1>10, LeadKeepsPairs
  <2>6. InChunks(a)
    BY <1>7, <1>10, <2>1 DEF InChunks
  <2> QED
    BY <1>7, <1>10, <2>1, <2>2, <2>4, <2>5, <2>6
<1> QED
  BY <1>3, <1>9, <1>10

\* Each of the messages has both its halves in the body.
LEMMA HalvesComeInPairs ==
    ASSUME NEW ms \in Seq(Messages)
    PROVE  /\ BothHalves(ms) \in Seq(Piece)
           /\ PairsAdjacent(BothHalves(ms))
           /\ \A m \in ToSet(ms) : Contains(BothHalves(ms), <<"begin", m>>)
           /\ \A x : ~Contains(BothHalves(ms), <<x>>)
<1> DEFINE b == BothHalves(ms)
           half(i) == <<IF i % 2 = 1 THEN "begin" ELSE "end", ms[(i + 1) \div 2]>>
<1>1. Len(ms) \in Nat /\ DOMAIN ms = 1 .. Len(ms) /\ \A k \in 1 .. Len(ms) : ms[k] \in Messages
  BY LenProperties, ElementOfSeq
<1>2. \A i \in 1 .. 2 * Len(ms) : (i + 1) \div 2 \in 1 .. Len(ms)
  BY <1>1
<1>3. \A i \in 1 .. 2 * Len(ms) : half(i) \in Piece
  <2>1. \A s \in Names : \A m \in Messages : <<s, m>> \in Piece
    BY DEF Piece
  <2>2. "begin" \in Names /\ "end" \in Names
    BY DEF Names
  <2> QED
    BY <1>1, <1>2, <2>1, <2>2
<1>4. b = [i \in 1 .. 2 * Len(ms) |-> half(i)]
  BY DEF BothHalves
<1> HIDE DEF half
<1>5. 2 * Len(ms) \in Nat
  BY <1>1
<1>6. b \in Seq(Piece) /\ Len(b) = 2 * Len(ms) /\ \A i \in 1 .. 2 * Len(ms) : b[i] = half(i)
  BY <1>3, <1>4, <1>5
<1> HIDE DEF b
<1>7. ASSUME NEW i \in 1 .. Len(b), NEW m \in Messages, b[i] = <<"begin", m>>
      PROVE  i < Len(b) /\ b[i + 1] = <<"end", m>>
  <2>1. i \in 1 .. 2 * Len(ms) /\ half(i) = <<"begin", m>>
    BY <1>6, <1>7
  <2>2. i % 2 = 1 /\ ms[(i + 1) \div 2] = m
    BY <2>1 DEF half
  <2>3. /\ i + 1 \in 1 .. 2 * Len(ms)
        /\ (i + 1) % 2 # 1
        /\ (i + 1 + 1) \div 2 = (i + 1) \div 2
    BY <1>1, <2>1, <2>2
  <2>4. half(i + 1) = <<"end", m>>
    BY <2>2, <2>3 DEF half
  <2> QED
    BY <1>5, <1>6, <2>1, <2>3, <2>4
<1>8. ASSUME NEW m \in ToSet(ms) PROVE Contains(b, <<"begin", m>>)
  <2>1. PICK k \in 1 .. Len(ms) : ms[k] = m
    BY <1>1 DEF ToSet
  <2>2. /\ 2 * k - 1 \in 1 .. 2 * Len(ms)
        /\ (2 * k - 1) % 2 = 1
        /\ (2 * k - 1 + 1) \div 2 = k
    BY <1>1
  <2>3. half(2 * k - 1) = <<"begin", m>>
    BY <2>1, <2>2 DEF half
  <2> QED
    BY <1>6, <2>2, <2>3 DEF Contains
<1>9. ASSUME NEW x PROVE ~Contains(b, <<x>>)
  <2>1. \A y, m : <<x>> # <<y, m>>
    OBVIOUS
  <2>2. \A i \in 1 .. 2 * Len(ms) : b[i] # <<x>>
    BY <1>6, <2>1 DEF half
  <2> QED
    BY <1>6, <2>2 DEF Contains
<1> QED
  BY <1>6, <1>7, <1>8, <1>9 DEF b, PairsAdjacent

\* An order of a finite set lists all of it.
LEMMA OrdersAreComplete ==
    ASSUME NEW S, IsFiniteSet(S), NEW order \in SetToSeqs(S)
    PROVE  order \in Seq(S) /\ \A m \in S : \E i \in DOMAIN order : order[i] = m
<1> DEFINE c == Cardinality(S)
<1>1. c \in Nat
  BY FS_CardinalityType
<1>2. /\ order \in [1 .. c -> S]
      /\ \A i, j \in 1 .. c : i # j => order[i] # order[j]
  BY DEF SetToSeqs
<1>3. IsFiniteSet(1 .. c) /\ Cardinality(1 .. c) = c
  BY <1>1, FS_Interval
<1>4. order \in Injection(1 .. c, S)
  BY <1>2 DEF Injection, IsInjective
<1>5. order \in Surjection(1 .. c, S)
  BY <1>3, <1>4, FS_Injection
<1>6. \A m \in S : \E i \in 1 .. c : order[i] = m
  BY <1>5 DEF Surjection
<1> QED
  BY <1>1, <1>2, <1>6

-----------------------------------------------------------------------------
(***************************************************************************)
(* What the server's answers say, whatever part of them gets through.      *)
(***************************************************************************)
Succeeds(a) == Contains(a, <<"200">>) /\ Contains(a, <<"cd=100">>)

\* What the server did not take has a line of its own in the answer.
ObjectionsAreListed(a, sent, accepted) ==
    \A m \in sent \ accepted : Succeeds(a) => Contains(a, <<"no", m>>)

\* An answer with messages in it is one that Receive looks at, unless it is in chunks.
PartsAreFound(a) ==
    \A m \in Messages :
        Contains(a, <<"begin", m>>) => a[1] = <<"200">> /\ a[2] = <<"cd=100">>

IsContent(a) == Contains(a, <<"200">>) /\ (Contains(a, <<"data 1">>) \/ Contains(a, <<"data 2">>))

ContentIsWhole(a, signed) ==
    IsContent(a) =>
        /\ Contains(a, <<"data 1">>) /\ Contains(a, <<"data 2">>)
        /\ signed => Contains(a, <<"header and IV">>)

\* Another status or another cd: there is nothing in it for any of the callers.
LEMMA ErrorsAreEmpty ==
    ASSUME NEW a \in {Lines(<<"404", "data 1">>), Lines(<<"200", "cd=250">>)}
    PROVE  /\ a \in Seq(Piece) /\ a # <<>>
           /\ ~Succeeds(a) /\ ~IsContent(a)
           /\ \A x, m : ~Contains(a, <<x, m>>)
<1> DEFINE missing == Lines(<<"404", "data 1">>)
           refused == Lines(<<"200", "cd=250">>)
<1>1. "404" \in Names /\ "data 1" \in Names /\ "200" \in Names /\ "cd=250" \in Names
  BY DEF Names
<1>2. /\ missing \in Seq(Piece) /\ missing # <<>>
      /\ ~Contains(missing, <<"200">>)
      /\ \A x, m : ~Contains(missing, <<x, m>>)
  BY <1>1, TwoLines
<1>3. /\ refused \in Seq(Piece) /\ refused # <<>>
      /\ ~Contains(refused, <<"cd=100">>)
      /\ ~Contains(refused, <<"data 1">>) /\ ~Contains(refused, <<"data 2">>)
      /\ \A x, m : ~Contains(refused, <<x, m>>)
  BY <1>1, TwoLines
<1>4. a = missing \/ a = refused
  OBVIOUS
<1> HIDE DEF missing, refused
<1>5. CASE a = missing
  BY <1>2, <1>5 DEF Succeeds, IsContent
<1>6. CASE a = refused
  BY <1>3, <1>6 DEF Succeeds, IsContent
<1> QED
  BY <1>4, <1>5, <1>6

\* The first line of an answer of the mail server.
LEMMA SuccessLine ==
    /\ Lines(<<"cd=100">>) \in Seq(Piece)
    /\ Len(Lines(<<"cd=100">>)) = 1
    /\ Lines(<<"cd=100">>)[1] = <<"cd=100">>
    /\ Contains(Lines(<<"cd=100">>), <<"cd=100">>)
    /\ \A x, m : ~Contains(Lines(<<"cd=100">>), <<x, m>>)
<1> DEFINE one == <<"cd=100">>
<1>1. "cd=100" \in Names
  BY DEF Names
<1>2. one \in Seq(Names) /\ Len(one) = 1 /\ one[1] = "cd=100"
  BY <1>1, SeqOfOne
<1> HIDE DEF one
<1>3. Lines(one) \in Seq(Piece) /\ Len(Lines(one)) = 1 /\ Lines(one)[1] = <<"cd=100">>
  BY <1>2, LinesType
<1>4. Contains(Lines(one), <<"cd=100">>)
  BY <1>2, ContainsLine
<1>5. \A x, m : ~Contains(Lines(one), <<x, m>>)
  BY <1>2, ContainsLine
<1> QED
  BY <1>3, <1>4, <1>5 DEF one

\* A body of the mail server is its first line and what follows.
LEMMA MailAnswers ==
    ASSUME NEW rest \in Seq(Piece), NEW a \in Framed(Lines(<<"cd=100">>) \o rest)
    PROVE  /\ a \in Seq(Piece) /\ a # <<>>
           /\ Succeeds(a)
           /\ \A x, m : Contains(a, <<x, m>>) <=> Contains(rest, <<x, m>>)
           /\ PairsAdjacent(rest) => PairsAdjacent(a)
           /\ ~InChunks(a) => a[1] = <<"200">> /\ a[2] = <<"cd=100">>
<1> DEFINE first == Lines(<<"cd=100">>)
           body == first \o rest
<1>1. /\ first \in Seq(Piece) /\ Len(first) = 1 /\ first[1] = <<"cd=100">>
      /\ Contains(first, <<"cd=100">>) /\ \A x, m : ~Contains(first, <<x, m>>)
  BY SuccessLine
<1> HIDE DEF first
<1>2. \A e : Contains(body, e) <=> Contains(first, e) \/ Contains(rest, e)
  BY <1>1, ContainsConcat
<1>3. /\ body \in Seq(Piece) /\ Len(body) = Len(first) + Len(rest)
      /\ \A i \in 1 .. Len(first) + Len(rest) :
             body[i] = IF i <= Len(first) THEN first[i] ELSE rest[i - Len(first)]
  BY <1>1, ConcatProperties
<1>4. Len(rest) \in Nat
  OBVIOUS
<1>5. Len(body) > 0 /\ body[1] = <<"cd=100">>
  BY <1>1, <1>3, <1>4
<1>6. a \in Framed(body)
  BY DEF first
<1> HIDE DEF body
<1>7. /\ a \in Seq(Piece) /\ a # <<>>
      /\ \A x, m : Contains(a, <<x, m>>) <=> Contains(body, <<x, m>>)
      /\ \A e : Contains(body, e) => Contains(a, e)
      /\ Contains(a, <<"200">>)
      /\ PairsAdjacent(body) => PairsAdjacent(a)
      /\ ~InChunks(a) => a[1] = <<"200">> /\ (Len(body) > 0 => a[2] = body[1])
  BY <1>3, <1>6, FramedAnswers
<1>8. Succeeds(a)
  BY <1>1, <1>2, <1>7 DEF Succeeds
<1>9. PairsAdjacent(rest) => PairsAdjacent(body)
  BY <1>1, LeadKeepsPairs DEF body
<1> QED
  BY <1>1, <1>2, <1>5, <1>7, <1>8, <1>9

\* Content comes in two parts behind the header that its task says it has.
LEMMA ContentAnswers ==
    ASSUME NEW signed \in BOOLEAN,
           NEW a \in Framed(Lines((IF signed THEN <<"header and IV">> ELSE <<>>)
                                      \o <<"data 1", "data 2">>))
    PROVE  /\ a \in Seq(Piece) /\ a # <<>>
           /\ ContentIsWhole(a, signed)
<1> DEFINE header == IF signed THEN <<"header and IV">> ELSE <<>>
           data == <<"data 1", "data 2">>
           names == header \o data
           body == Lines(names)
<1>1. "header and IV" \in Names /\ "data 1" \in Names /\ "data 2" \in Names
  BY DEF Names
<1>2. /\ header \in Seq(Names)
      /\ \A x : Contains(header, x) <=> signed /\ x = "header and IV"
  <2>1. CASE signed
    BY <1>1, <2>1, ContainsOfOne
  <2>2. CASE ~signed
    BY <2>2, ContainsOfNone
  <2> QED
    BY <2>1, <2>2
<1>3. /\ data \in Seq(Names)
      /\ \A x : Contains(data, x) <=> (x = "data 1" \/ x = "data 2")
  BY <1>1, ContainsOfTwo
<1>4. a \in Framed(body)
  OBVIOUS
<1> HIDE DEF header, data
<1>5. /\ names \in Seq(Names)
      /\ \A x : Contains(names, x) <=> Contains(header, x) \/ Contains(data, x)
  <2>1. names \in Seq(Names)
    BY <1>2, <1>3, ConcatProperties
  <2> QED
    BY <1>2, <1>3, <2>1, ContainsConcat
<1> HIDE DEF names
<1>6. /\ body \in Seq(Piece)
      /\ \A x : Contains(body, <<x>>) <=> Contains(names, x)
  <2>1. body \in Seq(Piece)
    BY <1>5, LinesType
  <2>2. /\ \A i \in 1 .. Len(names) : Contains(body, <<names[i]>>)
        /\ \A x : (\A i \in 1 .. Len(names) : names[i] # x) => ~Contains(body, <<x>>)
    BY <1>5, ContainsLine
  <2> QED
    BY <2>1, <2>2 DEF Contains
<1> HIDE DEF body
<1>7. /\ a \in Seq(Piece) /\ a # <<>>
      /\ \A e : Contains(body, e) => Contains(a, e)
  BY <1>4, <1>6, FramedAnswers
<1>8. Contains(a, <<"data 1">>) /\ Contains(a, <<"data 2">>)
  BY <1>3, <1>5, <1>6, <1>7
<1>9. signed => Contains(a, <<"header and IV">>)
  BY <1>2, <1>5, <1>6, <1>7
<1> QED
  BY <1>7, <1>8, <1>9 DEF ContentIsWhole

-----------------------------------------------------------------------------
(***************************************************************************)
(* The invariant.                                                          *)
(***************************************************************************)
TypeInv ==
    /\ kind \in {"send", "check", "receive", "get"}
    /\ at \in {"idle", "connect", "request", "response"}
    /\ up \in Nat /\ put \in Nat /\ got \in Nat
    /\ conn \in {"open", "closed", "reset"}
    /\ answer \in Seq(Piece) /\ put <= Len(answer)
    /\ queue \in SUBSET Messages /\ taken \in SUBSET Messages
    /\ waiting \in SUBSET Messages /\ inHand \in SUBSET Messages
    /\ entry \in Entries

\* The server answers a request it has all of, and the client reads once it has sent all.
InPhase ==
    /\ at \in {"connect", "request"} => up < 2 /\ answer = <<>>
    /\ conn = "open" => at \in {"request", "response"}

\* What a connection that is closed kept back is on the records.
ClosedIsAccountedFor ==
    at = "response" /\ conn = "closed" =>
        KeptBack \subseteq unheard /\ MessagesIn(answer) \ MessagesIn(Sent) \subseteq lost

\* An answer with messages: whole ones, where Receive looks for them.
MailIsSound(a, gone) ==
    /\ PairsAdjacent(a)
    /\ InChunks(a) => MessagesIn(a) \subseteq gone
    /\ ~InChunks(a) => PartsAreFound(a)

\* What an answer says is true as long as the exchange lasts.
AnswersAreSound ==
    at = "response" /\ answer # <<>> =>
        /\ kind = "send" => ObjectionsAreListed(answer, queue, taken)
        /\ kind = "receive" => MailIsSound(answer, lost)
        /\ kind = "get" /\ ~InChunks(answer) => ContentIsWhole(answer, entry.signed)

IInv == TypeInv /\ InPhase /\ ClosedIsAccountedFor /\ AnswersAreSound

\* The part of an answer that has been sent.
LEMMA SentPart ==
    ASSUME TypeInv
    PROVE  /\ \A e : Contains(Sent, e) <=> \E i \in 1 .. put : answer[i] = e
           /\ \A i \in 1 .. put : Sent[i] = answer[i]
           /\ \A e : Contains(Sent, e) => Contains(answer, e)
           /\ put = Len(answer) => Sent = answer
<1>1. answer \in Seq(Piece) /\ put \in Nat /\ put <= Len(answer) /\ Len(answer) \in Nat
  BY DEF TypeInv
<1>2. Len(Sent) = put /\ \A i \in 1 .. put : Sent[i] = answer[i]
  BY <1>1 DEF Sent
<1>3. \A e : Contains(Sent, e) <=> \E i \in 1 .. put : answer[i] = e
  BY <1>2 DEF Contains
<1>4. \A i \in 1 .. put : i \in 1 .. Len(answer)
  BY <1>1
<1>5. \A e : Contains(Sent, e) => Contains(answer, e)
  BY <1>3, <1>4 DEF Contains
<1>6. put = Len(answer) => Sent = answer
  BY <1>1, SubSeqFull DEF Sent
<1> QED
  BY <1>2, <1>3, <1>5, <1>6

\* The server's answer to each kind of request.
LEMMA AnswersSayWhatWasDone ==
    ASSUME TypeInv, Answers
    PROVE  /\ answer' \in Seq(Piece) /\ answer' # <<>>
           /\ taken' \in SUBSET Messages /\ waiting' \in SUBSET Messages
           /\ kind = "send" => ObjectionsAreListed(answer', queue, taken')
           /\ kind = "receive" =>
                  PairsAdjacent(answer') /\ (~InChunks(answer') => PartsAreFound(answer'))
           /\ kind = "get" /\ ~InChunks(answer') => ContentIsWhole(answer', entry.signed)
           /\ \A m \in waiting \ waiting' : kind = "receive" /\ Contains(answer', <<"begin", m>>)
           /\ taken \subseteq taken' /\ taken' \subseteq taken \cup queue
<1> USE DEF TypeInv
<1>1. CASE /\ kind = "send"
           /\ \E refused \in SUBSET queue : \E order \in SetToSeqs(refused) :
                  /\ answer' \in Framed(Lines(<<"cd=100">>) \o [i \in DOMAIN order |-> <<"no", order[i]>>])
                  /\ taken' = taken \cup (queue \ refused)
           /\ UNCHANGED waiting
  <2>0. PICK refused \in SUBSET queue : \E order \in SetToSeqs(refused) :
            /\ answer' \in Framed(Lines(<<"cd=100">>) \o [i \in DOMAIN order |-> <<"no", order[i]>>])
            /\ taken' = taken \cup (queue \ refused)
    BY <1>1
  <2>1. PICK order \in SetToSeqs(refused) :
            /\ answer' \in Framed(Lines(<<"cd=100">>) \o [i \in DOMAIN order |-> <<"no", order[i]>>])
            /\ taken' = taken \cup (queue \ refused)
    BY <2>0
  <2> DEFINE rest == [i \in DOMAIN order |-> <<"no", order[i]>>]
  <2>2. IsFiniteSet(refused)
    BY MessagesAssumption, FS_Subset
  <2>3. order \in Seq(refused) /\ \A m \in refused : \E i \in DOMAIN order : order[i] = m
    BY <2>2, OrdersAreComplete
  <2>4. Len(order) \in Nat /\ DOMAIN order = 1 .. Len(order) /\ \A i \in 1 .. Len(order) : order[i] \in Messages
    BY <2>3, LenProperties, ElementOfSeq
  <2>5. \A m \in Messages : <<"no", m>> \in Piece
    BY DEF Piece, Names
  <2>6. /\ rest \in Seq(Piece) /\ Len(rest) = Len(order)
        /\ \A i \in 1 .. Len(order) : rest[i] = <<"no", order[i]>>
    BY <2>4, <2>5
  <2> HIDE DEF rest
  <2>7. \A m \in refused : Contains(rest, <<"no", m>>)
    BY <2>3, <2>4, <2>6 DEF Contains
  <2>8. answer' \in Framed(Lines(<<"cd=100">>) \o rest)
    BY <2>1 DEF rest
  <2>9. /\ answer' \in Seq(Piece) /\ answer' # <<>>
        /\ \A x, m : Contains(answer', <<x, m>>) <=> Contains(rest, <<x, m>>)
    BY <2>6, <2>8, MailAnswers
  <2>10. ObjectionsAreListed(answer', queue, taken')
    BY <2>1, <2>7, <2>9 DEF ObjectionsAreListed
  <2> QED
    BY <1>1, <2>1, <2>9, <2>10
<1>2. CASE /\ kind = "check"
           /\ answer' \in Framed(Lines(IF waiting = {} THEN <<"cd=100">> ELSE <<"cd=100", "mail.flag">>))
           /\ UNCHANGED <<taken, waiting>>
  <2>1. "cd=100" \in Names /\ "mail.flag" \in Names
    BY DEF Names
  <2>2. Lines(<<"cd=100">>) \in Seq(Piece) /\ Lines(<<"cd=100", "mail.flag">>) \in Seq(Piece)
    BY <2>1, SuccessLine, TwoLines
  <2>3. PICK body \in Seq(Piece) : answer' \in Framed(body)
    BY <1>2, <2>2
  <2>4. answer' \in Seq(Piece) /\ answer' # <<>>
    BY <2>3, FramedAnswers
  <2> QED
    BY <1>2, <2>4
<1>3. CASE /\ kind = "receive"
           /\ \E ms \in SetToAllKPermutations(waiting) :
                  /\ answer' \in Framed(Lines(<<"cd=100">>) \o BothHalves(ms))
                  /\ waiting' = waiting \ ToSet(ms)
           /\ UNCHANGED taken
  <2>1. PICK ms \in SetToAllKPermutations(waiting) :
            /\ answer' \in Framed(Lines(<<"cd=100">>) \o BothHalves(ms))
            /\ waiting' = waiting \ ToSet(ms)
    BY <1>3
  <2>2. PICK S \in SUBSET waiting : ms \in SetToSeqs(S)
    BY DEF SetToAllKPermutations
  <2>3. ms \in Seq(Messages)
    <3>1. IsFiniteSet(S)
      BY MessagesAssumption, FS_Subset
    <3>2. ms \in Seq(S)
      BY <2>2, <3>1, OrdersAreComplete
    <3> QED
      BY <3>2, SeqMonotonic
  <2> DEFINE rest == BothHalves(ms)
  <2>4. /\ rest \in Seq(Piece) /\ PairsAdjacent(rest)
        /\ \A m \in ToSet(ms) : Contains(rest, <<"begin", m>>)
    BY <2>3, HalvesComeInPairs
  <2>5. answer' \in Framed(Lines(<<"cd=100">>) \o rest)
    BY <2>1
  <2> HIDE DEF rest
  <2>6. /\ answer' \in Seq(Piece) /\ answer' # <<>>
        /\ \A x, m : Contains(answer', <<x, m>>) <=> Contains(rest, <<x, m>>)
        /\ PairsAdjacent(answer')
        /\ ~InChunks(answer') => answer'[1] = <<"200">> /\ answer'[2] = <<"cd=100">>
    BY <2>4, <2>5, MailAnswers
  <2>7. ~InChunks(answer') => PartsAreFound(answer')
    BY <2>6 DEF PartsAreFound
  <2>8. \A m \in waiting \ waiting' : Contains(answer', <<"begin", m>>)
    BY <2>1, <2>4, <2>6
  <2> QED
    BY <1>3, <2>1, <2>6, <2>7, <2>8
<1>4. CASE /\ kind = "get"
           /\ answer' \in Framed(Lines(
                  (IF entry.signed THEN <<"header and IV">> ELSE <<>>) \o <<"data 1", "data 2">>))
           /\ UNCHANGED <<taken, waiting>>
  <2>1. entry.signed \in BOOLEAN
    BY DEF Entries
  <2>2. answer' \in Seq(Piece) /\ answer' # <<>> /\ ContentIsWhole(answer', entry.signed)
    BY <1>4, <2>1, ContentAnswers
  <2> QED
    BY <1>4, <2>2
<1>5. CASE /\ CanFail("error")
           /\ answer' \in {Lines(<<"404", "data 1">>), Lines(<<"200", "cd=250">>)}
           /\ UNCHANGED <<taken, waiting>>
  <2>1. /\ answer' \in Seq(Piece) /\ answer' # <<>>
        /\ ~Succeeds(answer') /\ ~IsContent(answer')
        /\ \A x, m : ~Contains(answer', <<x, m>>)
    BY <1>5, ErrorsAreEmpty
  <2>2. PairsAdjacent(answer')
    BY <2>1 DEF PairsAdjacent, Contains
  <2> QED
    BY <1>5, <2>1, <2>2 DEF ObjectionsAreListed, PartsAreFound, ContentIsWhole
<1> QED
  BY <1>1, <1>2, <1>3, <1>4, <1>5 DEF Answers

\* The client asks for one thing after another.
LEMMA RequestPreserves ==
    ASSUME IInv, NEW k \in {"send", "check", "receive", "get"}, Request(k),
           UNCHANGED <<queue, taken, waiting, inHand>>
    PROVE  IInv'
<1>1. <<>> \in Seq(Piece) /\ Len(<<>>) = 0
  OBVIOUS
<1>2. entry' \in Entries
  <2>1. Plain \in Entries
    BY DEF Plain, Entries
  <2>2. entry' \in Entries \/ entry' \in {Plain}
    BY DEF Request
  <2> QED
    BY <2>1, <2>2
<1> QED
  BY <1>1, <1>2 DEF IInv, TypeInv, InPhase, ClosedIsAccountedFor, AnswersAreSound, Request

\* Going back to idle leaves nothing to be said of the answer.
LEMMA IdlePreserves ==
    ASSUME IInv, at' = "idle", UNCHANGED exchange, conn # "open",
           UNCHANGED <<taken, waiting>>, queue' \in SUBSET Messages, inHand' \in SUBSET Messages
    PROVE  IInv'
  BY DEF IInv, TypeInv, InPhase, ClosedIsAccountedFor, AnswersAreSound, exchange

LEMMA InitEstablishes == Init => IInv
<1>1. <<>> \in Seq(Piece) /\ Len(<<>>) = 0
  OBVIOUS
<1>2. Plain \in Entries
  BY DEF Plain, Entries
<1> QED
  BY <1>1, <1>2 DEF Init, IInv, TypeInv, InPhase, ClosedIsAccountedFor, AnswersAreSound

LEMMA FailPreserves ==
    ASSUME IInv, Fail, conn # "open"
    PROVE  IInv'
<1>1. CASE kind = "check"
  BY <1>1, RequestPreserves DEF Fail, mail
<1>2. CASE kind # "check"
  BY <1>2, IdlePreserves DEF Fail, mail, IInv, TypeInv
<1> QED
  BY <1>1, <1>2

\* All that was sent has been read when the client takes the answer for complete.
LEMMA EndIsRead ==
    ASSUME PeerCloses
    PROVE  raw = Sent /\ at = "response" /\ conn = "closed"
  BY DEF PeerCloses, raw, Sent

LEMMA PeerClosesPreserves ==
    ASSUME IInv, PeerCloses
    PROVE  IInv'
<1>1. conn # "open"
  BY DEF PeerCloses
<1>2. CASE at' = "idle" /\ UNCHANGED exchange
  <2>1. UNCHANGED <<taken, waiting>> /\ queue' \in SUBSET Messages /\ inHand' \in SUBSET Messages
    BY DEF PeerCloses, EndOfAnswer, AfterCheck, mail, IInv, TypeInv, Accepted, Parts
  <2> QED
    BY <1>1, <1>2, <2>1, IdlePreserves
<1>3. CASE Request("receive") /\ UNCHANGED mail
  BY <1>3, RequestPreserves DEF mail
<1> QED
  BY <1>2, <1>3 DEF PeerCloses, EndOfAnswer, AfterCheck

LEMMA ServerAnswersPreserves ==
    ASSUME IInv, ServerAnswers
    PROVE  IInv' /\ at = "response"
<1>1. at = "response" /\ conn = "open" /\ answer = <<>> /\ Answers
  BY DEF ServerAnswers, IInv, TypeInv, InPhase
<1>2. UNCHANGED <<kind, at, up, put, got, conn, entry, queue, inHand, torn, stored, unheard>>
  BY DEF ServerAnswers
<1>3. /\ answer' \in Seq(Piece) /\ answer' # <<>>
      /\ taken' \in SUBSET Messages /\ waiting' \in SUBSET Messages
      /\ kind = "send" => ObjectionsAreListed(answer', queue, taken')
      /\ kind = "receive" => PairsAdjacent(answer') /\ (~InChunks(answer') => PartsAreFound(answer'))
      /\ kind = "get" /\ ~InChunks(answer') => ContentIsWhole(answer', entry.signed)
  BY <1>1, AnswersSayWhatWasDone DEF IInv
<1>4. TypeInv'
  <2>1. Len(answer') \in Nat
    BY <1>3
  <2>2. put = 0
    BY <1>1 DEF IInv, TypeInv
  <2> QED
    BY <1>2, <1>3, <2>1, <2>2 DEF IInv, TypeInv
<1>5. InPhase' /\ ClosedIsAccountedFor'
  BY <1>1, <1>2 DEF IInv, InPhase, ClosedIsAccountedFor
<1>6. InChunks(answer') => MessagesIn(answer') \subseteq lost'
  BY DEF ServerAnswers
<1>7. AnswersAreSound'
  <2>1. ObjectionsAreListed(answer, queue, taken)' <=> ObjectionsAreListed(answer', queue, taken')
    BY <1>2 DEF ObjectionsAreListed, Succeeds
  <2>2. MailIsSound(answer, lost)' <=> MailIsSound(answer', lost')
    BY DEF MailIsSound, PairsAdjacent, InChunks, MessagesIn, PartsAreFound
  <2>3. ContentIsWhole(answer, entry.signed)' <=> ContentIsWhole(answer', entry.signed)
    BY <1>2 DEF ContentIsWhole, IsContent
  <2>4. InChunks(answer)' <=> InChunks(answer')
    BY DEF InChunks
  <2>5. kind = "receive" => MailIsSound(answer', lost')
    BY <1>3, <1>6 DEF MailIsSound
  <2> QED
    BY <1>2, <1>3, <2>1, <2>2, <2>3, <2>4, <2>5 DEF AnswersAreSound
<1> QED
  BY <1>1, <1>4, <1>5, <1>7 DEF IInv

\* The connection comes to its end, one way or another.
LEMMA EndPreserves ==
    ASSUME IInv, conn' # "open", lost \subseteq lost',
           UNCHANGED <<kind, at, up, answer, put, got, entry, mail, stored>>,
           conn' = "closed" =>
               KeptBack \subseteq unheard' /\ MessagesIn(answer) \ MessagesIn(Sent) \subseteq lost',
           conn' \in {"closed", "reset"}
    PROVE  IInv'
<1>1. TypeInv' /\ InPhase'
  BY DEF IInv, TypeInv, InPhase, mail
<1>2. ClosedIsAccountedFor'
  <2>1. KeptBack' = KeptBack /\ Sent' = Sent
    BY DEF KeptBack, Sent, mail
  <2> QED
    BY <2>1 DEF ClosedIsAccountedFor
<1>3. AnswersAreSound'
  <2>1. MailIsSound(answer, lost) => MailIsSound(answer, lost')
    BY DEF MailIsSound
  <2>2. answer' = answer /\ entry' = entry /\ kind' = kind /\ at' = at /\ queue' = queue /\ taken' = taken
    BY DEF mail
  <2>3. MailIsSound(answer, lost)' <=> MailIsSound(answer, lost')
    BY <2>2 DEF MailIsSound, PairsAdjacent, InChunks, MessagesIn, PartsAreFound
  <2>4. ObjectionsAreListed(answer, queue, taken)' <=> ObjectionsAreListed(answer, queue, taken)
    BY <2>2
  <2>5. ContentIsWhole(answer, entry.signed)' <=> ContentIsWhole(answer, entry.signed)
    BY <2>2
  <2> QED
    BY <2>1, <2>2, <2>3, <2>4, <2>5 DEF IInv, AnswersAreSound
<1> QED
  BY <1>1, <1>2, <1>3 DEF IInv

LEMMA ServerSendsPreserves ==
    ASSUME IInv, ServerSends
    PROVE  IInv'
<1>1. put < Len(answer) /\ put' = put + 1 /\ conn = "open"
  BY DEF ServerSends
<1>2. UNCHANGED <<kind, at, up, answer, got, conn, entry, mail, stored, hidden>>
  BY DEF ServerSends
<1>3. TypeInv'
  <2>1. put \in Nat /\ Len(answer) \in Nat
    BY DEF IInv, TypeInv
  <2>2. put' \in Nat /\ put' <= Len(answer)
    BY <1>1, <2>1
  <2> QED
    BY <1>2, <2>2 DEF IInv, TypeInv, mail
<1>4. InPhase' /\ ClosedIsAccountedFor'
  BY <1>1, <1>2 DEF IInv, InPhase, ClosedIsAccountedFor
<1>5. AnswersAreSound'
  BY <1>2 DEF IInv, AnswersAreSound, mail, hidden
<1> QED
  BY <1>3, <1>4, <1>5 DEF IInv

LEMMA NextPreserves ==
    ASSUME IInv, [Next]_vars
    PROVE  IInv'
<1> USE DEF IInv
<1>1. CASE Start
  <2>1. PICK k \in {"send", "check", "get"} : Request(k)
    BY <1>1 DEF Start
  <2> QED
    BY <1>1, <2>1, RequestPreserves DEF Start, mail
<1>2. CASE Connect
  BY <1>2 DEF Connect, mail, TypeInv, InPhase, ClosedIsAccountedFor, AnswersAreSound
<1>3. CASE ConnectFails
  BY <1>3, FailPreserves DEF ConnectFails, InPhase
<1>4. CASE SendSome
  BY <1>4 DEF SendSome, mail, TypeInv, InPhase, ClosedIsAccountedFor, AnswersAreSound
<1>5. CASE SendFails
  BY <1>5, FailPreserves DEF SendFails
<1>6. CASE Recv
  <2>1. UNCHANGED <<kind, at, up, answer, put, conn, entry, mail, stored, hidden>> /\ got' = got + 1
    BY <1>6 DEF Recv
  <2>2. TypeInv' /\ InPhase'
    BY <2>1 DEF TypeInv, InPhase, mail
  <2>3. ClosedIsAccountedFor' /\ AnswersAreSound'
    BY <2>1 DEF ClosedIsAccountedFor, AnswersAreSound, mail, hidden, KeptBack, Sent
  <2> QED
    BY <2>2, <2>3
<1>7. CASE RecvFails
  BY <1>7, FailPreserves DEF RecvFails
<1>8. CASE PeerCloses
  BY <1>8, PeerClosesPreserves
<1>9. CASE ServerAnswers
  BY <1>9, ServerAnswersPreserves
<1>10. CASE ServerSends
  BY <1>10, ServerSendsPreserves
<1>11. CASE ServerCloses
  <2>1. Sent = answer
    BY <1>11, SentPart DEF ServerCloses
  <2>2. KeptBack = {} /\ MessagesIn(answer) \ MessagesIn(Sent) = {}
    BY <2>1 DEF KeptBack
  <2> QED
    BY <1>11, <2>2, EndPreserves DEF ServerCloses, hidden
<1>12. CASE ConnectionBreaks
  BY <1>12, EndPreserves DEF ConnectionBreaks
<1>13. CASE ConnectionEndsEarly
  BY <1>13, EndPreserves DEF ConnectionEndsEarly
<1>14. CASE \E m \in Messages : ConsoleComposes(m)
  BY <1>14 DEF ConsoleComposes, exchange, TypeInv, InPhase, ClosedIsAccountedFor, AnswersAreSound
<1>15. CASE UNCHANGED vars
  BY <1>15 DEF vars, exchange, mail, hidden, TypeInv, InPhase, ClosedIsAccountedFor, AnswersAreSound,
               KeptBack, Sent
<1> QED
  BY <1>1, <1>2, <1>3, <1>4, <1>5, <1>6, <1>7, <1>8, <1>9, <1>10, <1>11, <1>12, <1>13, <1>14, <1>15
     DEF Next, Client

LEMMA Invariance == Spec => []IInv
  BY InitEstablishes, NextPreserves, PTL DEF Spec

-----------------------------------------------------------------------------
(***************************************************************************)
(* The theorems. Any of the faults may occur.                              *)
(***************************************************************************)

\* RetiresOnlyTaken: wherever a connection ends, the console forgets only messages that
\* the server has, or whose refusal an early close kept back.
THEOREM OnlyTakenMailIsRetired == Spec => RetiresOnlyTaken
<1>1. Init => Abstract!Init
  BY DEF Init, Abstract!Init
<1>2. ASSUME IInv, [Next]_vars
      PROVE  [Abstract!Next]_(Abstract!vars)
  <2> SUFFICES ASSUME ~UNCHANGED <<queue, taken \cup unheard>>
               PROVE  Abstract!Next
    BY DEF Abstract!vars
  <2> DEFINE known == taken \cup unheard
  <2>1. CASE PeerCloses
    <3>1. kind = "send" /\ queue' = queue \ Accepted /\ UNCHANGED <<taken, unheard>>
      BY <2>1 DEF PeerCloses, EndOfAnswer, mail, hidden
    <3>2. raw = Sent /\ at = "response" /\ conn = "closed"
      BY <2>1, EndIsRead
    <3>3. ASSUME NEW m \in Accepted PROVE m \in queue /\ m \in known
      <4>1. /\ m \in queue /\ Contains(Sent, <<"200">>) /\ Contains(Sent, <<"cd=100">>)
            /\ ~Contains(Sent, <<"no", m>>)
        BY <3>2 DEF Accepted, Succeeded, Has, HasOf
      <4>2. Contains(answer, <<"200">>) /\ Contains(answer, <<"cd=100">>)
        BY <1>2, <4>1, SentPart DEF IInv
      <4>3. answer # <<>>
        BY <4>2, ContainsOfNone
      <4>4. ObjectionsAreListed(answer, queue, taken) /\ KeptBack \subseteq unheard
        BY <1>2, <3>1, <3>2, <4>3 DEF IInv, AnswersAreSound, ClosedIsAccountedFor
      <4>5. CASE m \notin taken
        <5>1. Contains(answer, <<"no", m>>)
          BY <4>1, <4>2, <4>4, <4>5 DEF ObjectionsAreListed, Succeeds
        <5>2. m \in KeptBack
          BY <3>1, <4>1, <5>1 DEF KeptBack
        <5> QED
          BY <4>1, <4>4, <5>2
      <4> QED
        BY <4>1, <4>5
    <3>4. Accepted \in SUBSET (queue \cap known) /\ known' = known \cup {}
      BY <3>1, <3>3
    <3>5. queue' = (queue \ Accepted) \cup {}
      BY <3>1
    <3>6. Abstract!Transfer
      BY <3>1, <3>4, <3>5 DEF Abstract!Transfer
    <3> QED
      BY <3>6 DEF Abstract!Next
  <2>2. CASE ServerAnswers
    <3>1. queue' = queue /\ unheard' = unheard /\ taken \subseteq taken' /\ taken' \subseteq taken \cup queue
      BY <1>2, <2>2, AnswersSayWhatWasDone DEF ServerAnswers, IInv
    <3>2. known' = known \cup (taken' \cap queue) /\ queue' = (queue \ {}) \cup {}
      BY <3>1
    <3>3. Abstract!Transfer
      BY <3>2 DEF Abstract!Transfer
    <3> QED
      BY <3>3 DEF Abstract!Next
  <2>3. CASE ConnectionEndsEarly
    <3>1. queue' = queue /\ taken' = taken /\ unheard' = unheard \cup KeptBack
      BY <2>3 DEF ConnectionEndsEarly, mail
    <3>2. KeptBack \in SUBSET queue
      BY DEF KeptBack
    <3>3. known' = known \cup KeptBack /\ queue' = (queue \ {}) \cup {}
      BY <3>1
    <3>4. Abstract!Transfer
      BY <3>2, <3>3 DEF Abstract!Transfer
    <3> QED
      BY <3>4 DEF Abstract!Next
  <2>4. CASE \E m \in Messages : ConsoleComposes(m)
    <3>1. PICK m \in Messages : ConsoleComposes(m)
      BY <2>4
    <3>2. m \in Messages \ (queue \cup known) /\ queue' = queue \cup {m} /\ UNCHANGED known
      BY <3>1 DEF ConsoleComposes, hidden
    <3>3. Abstract!Compose
      BY <3>2 DEF Abstract!Compose
    <3> QED
      BY <3>3 DEF Abstract!Next
  <2> QED
    BY <1>2, <2>1, <2>2, <2>3, <2>4
       DEF Next, Client, Start, Connect, ConnectFails, SendSome, SendFails, Recv, RecvFails, Fail,
           ServerSends, ServerCloses, ConnectionBreaks, vars, mail, hidden
<1> QED
  BY <1>1, <1>2, Invariance, PTL DEF Spec, RetiresOnlyTaken, Abstract!Spec

\* OnlyTheLastIsTorn: a message that Receive makes of the body and that has no end is the
\* last of an answer whose connection was closed early.
THEOREM OnlyTheLastPartIsTorn == Spec => OnlyTheLastIsTorn
<1> DEFINE D == {m \in Parts : ~HasOf("end", m)}
<1>1. ASSUME IInv, [Next]_vars
      PROVE  [torn' # torn => /\ conn = "closed" /\ put < Len(answer)
                              /\ \E m \in Messages : torn' \ torn = {m}]_vars
  <2> SUFFICES ASSUME torn' # torn
               PROVE  /\ conn = "closed" /\ put < Len(answer)
                      /\ \E m \in Messages : torn' \ torn = {m}
    OBVIOUS
  <2>1. PeerCloses /\ kind = "receive" /\ torn' = torn \cup D
    BY <1>1
       DEF Next, Client, Start, Connect, ConnectFails, SendSome, SendFails, Recv, RecvFails, Fail,
           PeerCloses, EndOfAnswer, ServerAnswers, ServerSends, ServerCloses, ConnectionBreaks,
           ConnectionEndsEarly, ConsoleComposes, vars, mail
  <2>2. raw = Sent /\ at = "response" /\ conn = "closed"
    BY <2>1, EndIsRead
  <2>3. ASSUME NEW m \in D PROVE m \in Messages /\ answer[put] = <<"begin", m>> /\ put < Len(answer)
    <3>1. m \in Messages /\ Contains(Sent, <<"begin", m>>) /\ ~Contains(Sent, <<"end", m>>)
      BY <2>2 DEF Parts, HasOf
    <3>2. PICK i \in 1 .. put : answer[i] = <<"begin", m>>
      BY <1>1, <3>1, SentPart DEF IInv
    <3>3. answer # <<>> /\ i \in 1 .. Len(answer) /\ put \in Nat /\ Len(answer) \in Nat /\ put <= Len(answer)
      <4>1. put \in Nat /\ Len(answer) \in Nat /\ put <= Len(answer) /\ Len(<<>>) = 0
        BY <1>1 DEF IInv, TypeInv
      <4>2. 0 < Len(answer)
        BY <4>1
      <4> QED
        BY <4>1, <4>2
    <3>4. PairsAdjacent(answer)
      BY <1>1, <2>1, <2>2, <3>3 DEF IInv, AnswersAreSound, MailIsSound
    <3>5. i < Len(answer) /\ answer[i + 1] = <<"end", m>>
      BY <3>1, <3>2, <3>3, <3>4 DEF PairsAdjacent
    <3>6. ~(i + 1 \in 1 .. put)
      BY <1>1, <3>1, <3>5, SentPart DEF IInv
    <3>7. i = put
      BY <3>3, <3>6
    <3> QED
      BY <3>1, <3>2, <3>5, <3>7
  <2>4. PICK m \in D : m \notin torn
    BY <2>1
  <2>5. \A n \in D : n = m
    <3>1. \A n \in D : <<"begin", n>> = <<"begin", m>>
      BY <2>3
    <3> QED
      BY <3>1
  <2>6. torn' \ torn = {m}
    BY <2>1, <2>4, <2>5
  <2> QED
    BY <2>2, <2>3, <2>6
<1> QED
  BY <1>1, Invariance, PTL DEF Spec, OnlyTheLastIsTorn

\* StoresWholeContent: nothing but whole content in the clear gets into a container,
\* unless its connection was closed early or it came in chunks.
THEOREM OnlyWholeContentIsStored == Spec => StoresWholeContent
<1>1. ASSUME IInv, [Next]_vars
      PROVE  [stored' # stored /\ stored' = "damaged" =>
                  conn = "closed" /\ (put < Len(answer) \/ InChunks(answer))]_vars
  <2> SUFFICES ASSUME stored' # stored, stored' = "damaged"
               PROVE  conn = "closed" /\ (put < Len(answer) \/ InChunks(answer))
    OBVIOUS
  <2>1. PeerCloses /\ kind = "get"
    BY <1>1
       DEF Next, Client, Start, Connect, ConnectFails, SendSome, SendFails, Recv, RecvFails, Fail,
           PeerCloses, EndOfAnswer, ServerAnswers, ServerSends, ServerCloses, ConnectionBreaks,
           ConnectionEndsEarly, ConsoleComposes, vars
  <2>2. raw = Sent /\ at = "response" /\ conn = "closed"
    BY <2>1, EndIsRead
  <2>3. ASSUME put = Len(answer), ~InChunks(answer) PROVE FALSE
    <3>1. raw = answer
      BY <1>1, <2>2, <2>3, SentPart DEF IInv
    <3>2. PICK keyed \in BOOLEAN : stored' = IF Decodes(keyed) THEN Payload ELSE stored
      BY <2>1 DEF PeerCloses, EndOfAnswer
    <3>3. Decodes(keyed) /\ Payload = "damaged"
      BY <3>2
    <3>4. IsContent(answer) /\ (entry.encrypted => entry.signed)
      BY <3>1, <3>3 DEF Decodes, Has, IsContent
    <3>5. answer # <<>>
      BY <3>4, ContainsOfNone DEF IsContent
    <3>6. ContentIsWhole(answer, entry.signed)
      BY <1>1, <2>1, <2>2, <2>3, <3>5 DEF IInv, AnswersAreSound
    <3>7. Payload = "whole"
      BY <2>3, <3>1, <3>4, <3>6 DEF Payload, Has, ContentIsWhole, InChunks
    <3> QED
      BY <3>3, <3>7
  <2>4. put < Len(answer) \/ put = Len(answer)
    BY <1>1 DEF IInv, TypeInv
  <2> QED
    BY <2>2, <2>3, <2>4
<1> QED
  BY <1>1, Invariance, PTL DEF Spec, StoresWholeContent

\* Where a message is that the server has handed out and the client does not have yet:
\* in the answer of an exchange whose connection still stands or has come to its end.
OnItsWay ==
    \A m \in Messages \ (waiting \cup inHand \cup lost) :
        /\ at = "response" /\ kind = "receive" /\ conn # "reset"
        /\ Contains(answer, <<"begin", m>>)

\* LostOnlyInTransit: a message is lost only on the connection it was under way on, or
\* in chunks.
THEOREM MailIsLostOnlyInTransit == Spec => []LostOnlyInTransit
<1>1. Init => OnItsWay
  BY DEF Init, OnItsWay
<1>2. ASSUME IInv, OnItsWay, [Next]_vars
      PROVE  OnItsWay'
  <2> SUFFICES ASSUME NEW m \in Messages, m \notin waiting', m \notin inHand', m \notin lost'
               PROVE  /\ at' = "response" /\ kind' = "receive" /\ conn' # "reset"
                      /\ Contains(answer', <<"begin", m>>)
    BY DEF OnItsWay
  <2>1. CASE ServerAnswers
    <3>1. at = "response" /\ conn = "open" /\ Answers /\ answer = <<>>
      BY <1>2, <2>1, ServerAnswersPreserves DEF ServerAnswers
    <3>2. UNCHANGED <<kind, at, conn, inHand>> /\ m \notin lost
      BY <2>1 DEF ServerAnswers
    <3>3. ~Contains(answer, <<"begin", m>>)
      BY <3>1, ContainsOfNone
    <3>4. m \in waiting
      BY <1>2, <3>2, <3>3 DEF OnItsWay
    <3>5. kind = "receive" /\ Contains(answer', <<"begin", m>>)
      BY <1>2, <3>1, <3>4, AnswersSayWhatWasDone DEF IInv
    <3> QED
      BY <3>1, <3>2, <3>5
  <2>2. CASE ~ServerAnswers
    <3>1. m \notin waiting
      BY <1>2, <2>2
         DEF Next, Client, Start, Connect, ConnectFails, SendSome, SendFails, Recv, RecvFails, Fail,
             PeerCloses, EndOfAnswer, ServerSends, ServerCloses, ConnectionBreaks,
             ConnectionEndsEarly, ConsoleComposes, vars, mail
    <3>2. m \notin inHand /\ m \notin lost
      BY <1>2, <2>2
         DEF Next, Client, Start, Connect, ConnectFails, SendSome, SendFails, Recv, RecvFails, Fail,
             PeerCloses, EndOfAnswer, ServerSends, ServerCloses, ConnectionBreaks,
             ConnectionEndsEarly, ConsoleComposes, vars, mail, hidden
    <3>3. /\ at = "response" /\ kind = "receive" /\ conn # "reset"
          /\ Contains(answer, <<"begin", m>>)
      BY <1>2, <3>1, <3>2 DEF OnItsWay
    <3>4. ~PeerCloses
      <4> SUFFICES ASSUME PeerCloses PROVE FALSE
        OBVIOUS
      <4>1. raw = Sent /\ conn = "closed" /\ answer # <<>>
        BY <3>3, EndIsRead, ContainsOfNone
      <4>2. Contains(Sent, <<"begin", m>>)
        BY <1>2, <3>2, <3>3, <4>1 DEF IInv, ClosedIsAccountedFor, MessagesIn
      <4>3. PartsAreFound(answer)
        BY <1>2, <3>2, <3>3, <4>1 DEF IInv, AnswersAreSound, MailIsSound, MessagesIn
      <4>4. answer[1] = <<"200">> /\ answer[2] = <<"cd=100">>
        BY <3>3, <4>3 DEF PartsAreFound
      <4>5. PICK i \in 1 .. put : answer[i] = <<"begin", m>>
        BY <1>2, <4>2, SentPart DEF IInv
      <4>6. i # 1 /\ i # 2
        BY <4>4, <4>5
      <4>7. 1 \in 1 .. put /\ 2 \in 1 .. put
        BY <1>2, <4>5, <4>6 DEF IInv, TypeInv
      <4>8. Contains(Sent, <<"200">>) /\ Contains(Sent, <<"cd=100">>) /\ Sent[2] = <<"cd=100">>
        BY <1>2, <4>4, <4>7, SentPart DEF IInv
      <4>9. m \in Parts
        BY <4>1, <4>2, <4>8 DEF Parts, Succeeded, Has, HasOf
      <4>10. inHand' = inHand \cup Parts
        BY <3>3 DEF PeerCloses, EndOfAnswer
      <4> QED
        BY <4>9, <4>10
    <3>5. ~ConnectionBreaks
      BY <3>3 DEF ConnectionBreaks, MessagesIn
    <3>6. UNCHANGED <<at, kind, answer>>
      BY <1>2, <2>2, <3>3, <3>4, <3>5
         DEF Next, Client, Start, Connect, ConnectFails, SendSome, SendFails, Recv, RecvFails,
             ServerSends, ServerCloses, ConnectionEndsEarly, ConsoleComposes, vars, exchange
    <3>7. conn' # "reset"
      BY <1>2, <2>2, <3>3, <3>4, <3>5
         DEF Next, Client, Start, Connect, ConnectFails, SendSome, SendFails, Recv, RecvFails,
             ServerSends, ServerCloses, ConnectionEndsEarly, ConsoleComposes, vars, exchange
    <3> QED
      BY <3>3, <3>6, <3>7
  <2> QED
    BY <2>1, <2>2
<1>3. OnItsWay => LostOnlyInTransit
  BY DEF OnItsWay, LostOnlyInTransit
<1> QED
  BY <1>1, <1>2, <1>3, Invariance, PTL DEF Spec
=============================================================================
