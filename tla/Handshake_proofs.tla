-------------------------- MODULE Handshake_proofs --------------------------
(***************************************************************************)
(* The safety of the opening handshake, for any requests of any clients    *)
(* and any headers that an application adds to its own.                    *)
(***************************************************************************)
EXTENDS Handshake, FiniteSetTheorems, WellFoundedInduction, TLAPS

-----------------------------------------------------------------------------
(* Headers.                                                                *)
LEMMA Smallest ==
  ASSUME NEW n \in Nat, NEW T \in SUBSET (1..n), T # {}
  PROVE  \E x \in T : \A y \in T : x <= y
<1> DEFINE R == StrictSubsetOrdering(1..n)
           U == {1..i : i \in T}
<1>1. IsWellFoundedOn(R, SUBSET (1..n))
  <2>1. IsFiniteSet(1..n)
    BY FS_Interval
  <2>2. FiniteSubsetsOf(1..n) = SUBSET (1..n)
    BY <2>1, FS_FiniteSubsetsOfFinite
  <2>3. QED
    BY <2>2, FS_StrictSubsetOrderingWellFounded
<1>2. U \subseteq SUBSET (1..n) /\ U # {}
  <2>1. \A i \in T : 1..i \subseteq 1..n
    OBVIOUS
  <2>2. QED
    BY <2>1
<1>3. \E X \in U : \A Y \in U : <<Y, X>> \notin R
  <2> HIDE DEF R, U
  <2>1. QED
    BY <1>1, <1>2, WFMin
<1>4. PICK x \in T : \A y \in T : <<1..y, 1..x>> \notin R
  BY <1>3
<1>5. ASSUME NEW y \in T PROVE x <= y
  <2>1. x \in 1..n /\ y \in 1..n
    OBVIOUS
  <2>2. SUFFICES ASSUME y < x PROVE FALSE
    BY <2>1
  <2>3. 1..y \subseteq 1..x /\ x \in 1..x /\ x \notin 1..y
    BY <2>1, <2>2
  <2>4. 1..x \in SUBSET (1..n) /\ 1..y \in SUBSET (1..n) /\ 1..y # 1..x
    BY <2>1, <2>3
  <2>5. QED
    BY <1>4, <2>3, <2>4 DEF StrictSubsetOrdering
<1>6. QED
  BY <1>5

(* The first header of a name is the one that counts.                      *)
LEMMA HeaderFirst ==
  ASSUME NEW hs \in Seq(HeaderType), NEW name, NEW i \in 1..Len(hs),
         hs[i].name = name, \A j \in 1..i-1 : hs[j].name # name
  PROVE  Header(hs, name) = IF hs[i].text THEN <<hs[i].value>> ELSE <<>>
<1> DEFINE named == {j \in DOMAIN hs : hs[j].name = name}
           first == CHOOSE j \in named : \A l \in named : j <= l
<1>1. i \in named /\ \A l \in named : i <= l
  OBVIOUS
<1>2. \A j \in named : (\A l \in named : j <= l) => j = i
  BY <1>1
<1>3. first = i
  <2> HIDE DEF named
  <2>1. QED
    BY <1>1, <1>2
<1>4. Header(hs, name) = IF named # {} /\ hs[first].text THEN <<hs[first].value>> ELSE <<>>
  BY DEF Header
<1>5. QED
  BY <1>1, <1>3, <1>4

LEMMA HeaderValue ==
  ASSUME NEW hs \in Seq(HeaderType), NEW name, Header(hs, name) # <<>>
  PROVE  Header(hs, name)[1] \in Seq(Chars)
<1> DEFINE named == {j \in DOMAIN hs : hs[j].name = name}
<1>1. CASE named = {}
  BY <1>1 DEF Header
<1>2. CASE named # {}
  <2>0. Len(hs) \in Nat /\ named \in SUBSET (1..Len(hs))
    OBVIOUS
  <2>1. PICK i \in named : \A l \in named : i <= l
    <3> HIDE DEF named
    <3>1. QED
      BY <1>2, <2>0, Smallest
  <2>2. i \in 1..Len(hs) /\ hs[i].name = name /\ \A j \in 1..i-1 : hs[j].name # name
    BY <2>1
  <2>3. Header(hs, name) = IF hs[i].text THEN <<hs[i].value>> ELSE <<>>
    BY <2>2, HeaderFirst
  <2>4. hs[i].value \in Seq(Chars)
    <3>1. hs[i] \in HeaderType
      BY <2>2
    <3>2. QED
      BY <3>1 DEF HeaderType
  <2>5. QED
    BY <2>3, <2>4
<1>3. QED
  BY <1>1, <1>2

LEMMA NoHeaders == \A name : Header(<<>>, name) = <<>>
BY DEF Header

(* What build_request writes is a proper request with the client's key.    *)
LEMMA OwnProper ==
  ASSUME NEW k \in Seq(Chars), NEW added \in Seq(HeaderType)
  PROVE  LET hs == Ordered(Own(k), added)
         IN hs \in Seq(HeaderType) /\ hs # <<>> /\ Header(hs, "key") = <<k>> /\ Proper(hs)
<1> DEFINE own == Own(k)
           hs == Ordered(own, added)
           n == IF builder.host = "none" THEN 0 ELSE 1
<1>1. /\ own \in Seq(HeaderType) /\ Len(own) = n + 4
      /\ own[n+1] = Line("upgrade", <<"w", "s">>)
      /\ own[n+2] = Line("connection", <<"U", "p">>)
      /\ own[n+3] = Line("key", k)
      /\ own[n+4] = Line("version", <<"1", "3">>)
      /\ n = 1 => own[1] = Line("host", <<>>)
  <2> DEFINE l1 == Line("upgrade", <<"w", "s">>)
             l2 == Line("connection", <<"U", "p">>)
             l3 == Line("key", k)
             l4 == Line("version", <<"1", "3">>)
             l0 == Line("host", <<>>)
  <2>1. {l0, l1, l2, l3, l4} \subseteq HeaderType
    <3>1. \A name \in Names, v \in Seq(Chars) : Line(name, v) \in HeaderType
      BY DEF Line, HeaderType
    <3>2. \A C : <<>> \in Seq(C) /\ \A a, b \in C : <<a, b>> \in Seq(C)
      OBVIOUS
    <3>3. <<"w", "s">> \in Seq(Chars)
      BY <3>2, HandshakeAssumption
    <3>4. <<"U", "p">> \in Seq(Chars)
      BY <3>2, HandshakeAssumption
    <3>5. <<"1", "3">> \in Seq(Chars)
      BY <3>2, HandshakeAssumption
    <3>6. l0 \in HeaderType
      BY <3>1, <3>2, HandshakeAssumption
    <3>7. l1 \in HeaderType
      BY <3>1, <3>3, HandshakeAssumption
    <3>8. l2 \in HeaderType
      BY <3>1, <3>4, HandshakeAssumption
    <3>9. l3 \in HeaderType
      BY <3>1, HandshakeAssumption
    <3>10. l4 \in HeaderType
      BY <3>1, <3>5, HandshakeAssumption
    <3>11. QED
      BY <3>6, <3>7, <3>8, <3>9, <3>10
  <2>2. own = (IF builder.host = "none" THEN <<>> ELSE <<l0>>) \o <<l1, l2, l3, l4>>
    BY DEF Own
  <2> HIDE DEF l0, l1, l2, l3, l4, own
  <2>3. CASE builder.host = "none"
    <3>1. own = <<l1, l2, l3, l4>>
      BY <2>2, <2>3
    <3>2. QED
      BY <2>1, <2>3, <3>1 DEF l0, l1, l2, l3, l4
  <2>4. CASE builder.host # "none"
    <3>1. own = <<l0>> \o <<l1, l2, l3, l4>>
      BY <2>2, <2>4
    <3>2. /\ own \in Seq(HeaderType) /\ Len(own) = 5
          /\ own[1] = l0 /\ own[2] = l1 /\ own[3] = l2 /\ own[4] = l3 /\ own[5] = l4
      BY <2>1, <3>1
    <3>3. QED
      BY <2>4, <3>2 DEF l0, l1, l2, l3, l4
  <2>5. QED
    BY <2>3, <2>4
<1>2. n \in {0, 1}
  OBVIOUS
<1> HIDE DEF n, own
<1>3. hs \in Seq(HeaderType) /\ Len(hs) >= n + 4 /\ \A i \in 1..n+4 : hs[i] = own[i]
  BY <1>1, <1>2 DEF Ordered
<1> HIDE DEF hs
<1>4. /\ hs[n+1] = Line("upgrade", <<"w", "s">>)
      /\ hs[n+2] = Line("connection", <<"U", "p">>)
      /\ hs[n+3] = Line("key", k)
      /\ hs[n+4] = Line("version", <<"1", "3">>)
      /\ n = 1 => hs[1] = Line("host", <<>>)
  BY <1>1, <1>2, <1>3
<1>5. /\ {n+1, n+2, n+3, n+4} \subseteq 1..Len(hs)
      /\ \A j \in 1..n+3 : j \in {n+1, n+2, n+3} \/ (n = 1 /\ j = 1)
  BY <1>2, <1>3
<1>6. Header(hs, "upgrade") = <<<<"w", "s">>>>
  <2>1. n+1 \in 1..Len(hs) /\ hs[n+1].name = "upgrade" /\ hs[n+1].text /\ hs[n+1].value = <<"w", "s">>
    BY <1>4, <1>5 DEF Line
  <2>3. \A v : hs[n+1].value = v => <<hs[n+1].value>> = <<v>>
    OBVIOUS
  <2>2. \A j \in 1..(n+1)-1 : hs[j].name # "upgrade"
    BY <1>2, <1>4 DEF Line
  <2>4. QED
    BY <1>3, <2>1, <2>2, <2>3, HeaderFirst
<1>7. Header(hs, "connection") = <<<<"U", "p">>>>
  <2>1. n+2 \in 1..Len(hs) /\ hs[n+2].name = "connection" /\ hs[n+2].text /\ hs[n+2].value = <<"U", "p">>
    BY <1>4, <1>5 DEF Line
  <2>3. \A v : hs[n+2].value = v => <<hs[n+2].value>> = <<v>>
    OBVIOUS
  <2>2. \A j \in 1..(n+2)-1 : hs[j].name # "connection"
    BY <1>2, <1>4 DEF Line
  <2>4. QED
    BY <1>3, <2>1, <2>2, <2>3, HeaderFirst
<1>8. Header(hs, "key") = <<k>>
  <2>1. n+3 \in 1..Len(hs) /\ hs[n+3].name = "key" /\ hs[n+3].text /\ hs[n+3].value = k
    BY <1>4, <1>5 DEF Line
  <2>3. \A v : hs[n+3].value = v => <<hs[n+3].value>> = <<v>>
    OBVIOUS
  <2>2. \A j \in 1..(n+3)-1 : hs[j].name # "key"
    BY <1>2, <1>4 DEF Line
  <2>4. QED
    BY <1>3, <2>1, <2>2, <2>3, HeaderFirst
<1>9. Header(hs, "version") = <<<<"1", "3">>>>
  <2>1. n+4 \in 1..Len(hs) /\ hs[n+4].name = "version" /\ hs[n+4].text /\ hs[n+4].value = <<"1", "3">>
    BY <1>4, <1>5 DEF Line
  <2>3. \A v : hs[n+4].value = v => <<hs[n+4].value>> = <<v>>
    OBVIOUS
  <2>2. \A j \in 1..(n+4)-1 : hs[j].name # "version"
    <3>1. \A j \in 1..(n+4)-1 : j \in {n+1, n+2, n+3} \/ (n = 1 /\ j = 1)
      BY <1>2
    <3>2. /\ hs[n+1].name = "upgrade" /\ hs[n+2].name = "connection" /\ hs[n+3].name = "key"
          /\ n = 1 => hs[1].name = "host"
      BY <1>4 DEF Line
    <3>3. QED
      BY <3>1, <3>2
  <2>4. QED
    BY <1>3, <2>1, <2>2, <2>3, HeaderFirst
<1>10. Contains(<<"U", "p">>, Upgrade)
  BY DEF Contains, Upgrade, EqIgnoreCase
<1>11. Proper(hs)
  <2>1. \A s : Is(<<s>>, s)
    BY DEF Is, EqIgnoreCase
  <2>2. Header(hs, "connection")[1] = <<"U", "p">>
    BY <1>7
  <2>3. Is(Header(hs, "upgrade"), Websocket)
    BY <1>6, <2>1 DEF Websocket
  <2>4. Is(Header(hs, "version"), Version13)
    BY <1>9, <2>1 DEF Version13
  <2>5. Header(hs, "connection") # <<>> /\ Header(hs, "key") # <<>>
    <3>1. \A v : <<v>> # <<>>
      OBVIOUS
    <3>2. QED
      BY <1>7, <1>8, <3>1
  <2>6. QED
    BY <1>10, <2>2, <2>3, <2>4, <2>5 DEF Proper
<1>12. QED
  BY <1>3, <1>8, <1>11, <1>2 DEF hs, own

-----------------------------------------------------------------------------
(* contains_ignore_ascii_case.                                             *)
LEMMA MatchAt ==
  ASSUME NEW s \in Seq(Chars), NEW i \in 0..Len(s)-2
  PROVE  EqIgnoreCase(SubSeq(s, i+1, i+Len(Upgrade)), Upgrade)
           <=> Lower(s[i+1]) = Lower("U") /\ Lower(s[i+2]) = Lower("p")
<1> DEFINE t == SubSeq(s, i+1, i+2)
<1>1. Len(t) = 2 /\ t[1] = s[i+1] /\ t[2] = s[i+2]
  OBVIOUS
<1>2. Len(Upgrade) = 2 /\ Upgrade[1] = "U" /\ Upgrade[2] = "p"
  BY DEF Upgrade
<1> HIDE DEF t
<1>3. EqIgnoreCase(t, Upgrade) <=> Lower(t[1]) = Lower("U") /\ Lower(t[2]) = Lower("p")
  BY <1>1, <1>2 DEF EqIgnoreCase
<1>4. QED
  BY <1>1, <1>2, <1>3 DEF t

LEMMA ContainsAt ==
  ASSUME NEW s \in Seq(Chars)
  PROVE  Contains(s, Upgrade)
           <=> \E i \in 0..Len(s)-2 : Lower(s[i+1]) = Lower("U") /\ Lower(s[i+2]) = Lower("p")
<1>1. Len(Upgrade) = 2
  BY DEF Upgrade
<1>2. QED
  BY <1>1, MatchAt DEF Contains

(* The needle is where it was if it is not at the front.                   *)
LEMMA SearchTail ==
  ASSUME NEW s \in Seq(Chars), Len(s) >= 2,
         ~EqIgnoreCase(SubSeq(s, 1, Len(Upgrade)), Upgrade)
  PROVE  Tail(s) \in Seq(Chars) /\ (Contains(Tail(s), Upgrade) <=> Contains(s, Upgrade))
<1> DEFINE Here(i) == Lower(s[i+1]) = Lower("U") /\ Lower(s[i+2]) = Lower("p")
           There(i) == Lower(Tail(s)[i+1]) = Lower("U") /\ Lower(Tail(s)[i+2]) = Lower("p")
<1>1. /\ Tail(s) \in Seq(Chars) /\ Len(Tail(s)) = Len(s) - 1
      /\ \A i \in 1..Len(s)-1 : Tail(s)[i] = s[i+1]
  OBVIOUS
<1>2. ~Here(0)
  <2>1. 0 \in 0..Len(s)-2
    OBVIOUS
  <2>2. EqIgnoreCase(SubSeq(s, 0+1, 0+Len(Upgrade)), Upgrade) <=> Here(0)
    BY <2>1, MatchAt
  <2>3. Len(Upgrade) \in Nat
    BY DEF Upgrade
  <2>4. QED
    BY <2>2, <2>3
<1>3. \A i \in 0..Len(s)-3 : There(i) <=> Here(i+1)
  BY <1>1
<1>4. Contains(s, Upgrade) <=> \E i \in 0..Len(s)-2 : Here(i)
  BY ContainsAt
<1>5. Contains(Tail(s), Upgrade) <=> \E i \in 0..Len(s)-3 : There(i)
  <2>1. Len(Tail(s)) - 2 = Len(s) - 3
    BY <1>1
  <2>2. QED
    BY <1>1, <2>1, ContainsAt
<1> HIDE DEF Here, There
<1>6. (\E i \in 0..Len(s)-2 : Here(i)) <=> \E i \in 0..Len(s)-3 : Here(i+1)
  <2>1. ASSUME NEW i \in 0..Len(s)-2, Here(i) PROVE \E j \in 0..Len(s)-3 : Here(j+1)
    <3>1. i # 0
      BY <1>2, <2>1
    <3>2. i-1 \in 0..Len(s)-3 /\ (i-1)+1 = i
      BY <3>1
    <3>3. QED
      BY <2>1, <3>2
  <2>2. \A i \in 0..Len(s)-3 : i+1 \in 0..Len(s)-2
    OBVIOUS
  <2>3. QED
    BY <2>1, <2>2
<1>7. QED
  BY <1>1, <1>3, <1>4, <1>5, <1>6

-----------------------------------------------------------------------------
(* The server: what it has found of the request, and how the task, the     *)
(* response and the hand-over stand to each other.                         *)
Parsed ==
  /\ pc \in {"search", "version", "respond"} =>
       Is(Field("upgrade"), Websocket) /\ Field("connection") # <<>>
  /\ pc = "search" =>
       /\ haystack \in Seq(Chars)
       /\ Contains(haystack, Upgrade) <=> Contains(Field("connection")[1], Upgrade)
  /\ pc \in {"version", "respond"} => Contains(Field("connection")[1], Upgrade)
  /\ pc = "respond" => Proper(request)
  /\ pc = "returned" =>
       IF Proper(request)
         THEN response.status = 101 /\ response.accept = WsAccept(Field("key")[1])
         ELSE response.status = 400

Tasks ==
  /\ task \in {"none", "spawned", "serving", "failed"}
  /\ task # "none" <=> pc = "respond" \/ (pc = "returned" /\ response.status = 101)
  /\ written => pc = "returned"
  /\ upgrade = "ok" => written /\ response.status = 101
  /\ written /\ response.status # 101 => upgrade = "err"
  /\ upgrade = "err" => lost \/ (written /\ response.status # 101)
  /\ task = "serving" => upgrade = "ok"
  /\ task = "failed" => upgrade = "err"

ServerInv == request \in Seq(HeaderType) /\ Parsed /\ Tasks

LEMMA BadStep ==
  ASSUME ServerInv, pc \in {"parse", "search", "version"}, BadRequest,
         ~Proper(request), UNCHANGED <<request, hyper>>
  PROVE  ServerInv'
<1>1. Parsed'
  BY DEF BadRequest, Parsed, Proper, Header, Field
<1>2. Tasks'
  BY DEF ServerInv, Tasks, BadRequest, hyper
<1>3. QED
  BY <1>1, <1>2, SMTT(30) DEF ServerInv

LEMMA ParseStep ==
  ASSUME ServerInv, ParseUpgrade \/ SearchOn \/ Found \/ NotFound \/ ParseRest
  PROVE  ServerInv'
<1> USE DEF Field
<1>1. request' = request /\ request \in Seq(HeaderType)
  BY DEF ServerInv, ParseUpgrade, SearchOn, Found, NotFound, ParseRest
<1>2. CASE ParseUpgrade
  <2>1. CASE Is(Field("upgrade"), Websocket) /\ Field("connection") # <<>>
    <3>1. Field("connection")[1] \in Seq(Chars)
      BY <1>1, <2>1, HeaderValue
    <3>2. Parsed'
      BY <1>1, <1>2, <2>1, <3>1 DEF ParseUpgrade, Parsed
    <3>3. Tasks'
      BY <1>2, <2>1 DEF ServerInv, Tasks, ParseUpgrade, hyper
    <3>4. QED
      BY <1>1, <3>2, <3>3 DEF ServerInv
  <2>2. CASE ~(Is(Field("upgrade"), Websocket) /\ Field("connection") # <<>>)
    BY <1>2, <2>2, BadStep DEF ParseUpgrade, Proper
  <2>3. QED
    BY <2>1, <2>2
<1>3. CASE SearchOn
  <2>1. haystack \in Seq(Chars) /\ Len(haystack) >= 2
    BY <1>3 DEF ServerInv, Parsed, SearchOn, TooShort, Upgrade
  <2>2. haystack' \in Seq(Chars) /\ (Contains(haystack', Upgrade) <=> Contains(haystack, Upgrade))
    BY <1>3, <2>1, SearchTail DEF SearchOn, AtFront
  <2>3. Parsed'
    BY <1>1, <1>3, <2>2 DEF ServerInv, SearchOn, Parsed
  <2>4. Tasks'
    BY <1>3 DEF ServerInv, Tasks, SearchOn, hyper
  <2>5. QED
    BY <1>1, <2>3, <2>4 DEF ServerInv
<1>4. CASE Found
  <2>1. haystack \in Seq(Chars) /\ Len(haystack) >= 2
    BY <1>4 DEF ServerInv, Parsed, Found, TooShort, Upgrade
  <2>2. Contains(haystack, Upgrade)
    <3>1. 0 \in 0..Len(haystack)-Len(Upgrade) /\ 0+1 = 1 /\ 0+Len(Upgrade) = Len(Upgrade)
      BY <2>1 DEF Upgrade
    <3>2. EqIgnoreCase(SubSeq(haystack, 0+1, 0+Len(Upgrade)), Upgrade)
      BY <1>4, <3>1 DEF Found, AtFront
    <3>3. QED
      BY <3>1, <3>2 DEF Contains
  <2>3. Parsed'
    BY <1>1, <1>4, <2>2 DEF ServerInv, Found, Parsed
  <2>4. Tasks'
    BY <1>4 DEF ServerInv, Tasks, Found, hyper
  <2>5. QED
    BY <1>1, <2>3, <2>4 DEF ServerInv
<1>5. CASE NotFound
  <2>1. haystack \in Seq(Chars) /\ Len(haystack) < 2
    BY <1>5 DEF ServerInv, Parsed, NotFound, TooShort, Upgrade
  <2>2. ~Contains(haystack, Upgrade)
    BY <2>1, ContainsAt
  <2>3. ~Proper(request)
    BY <1>5, <2>2 DEF ServerInv, Parsed, NotFound, Proper
  <2>4. QED
    BY <1>5, <2>3, BadStep DEF NotFound
<1>6. CASE ParseRest
  <2>1. CASE Is(Field("version"), Version13) /\ Field("key") # <<>>
    <3>1. Proper(request)
      BY <1>6, <2>1 DEF ServerInv, Parsed, ParseRest, Proper
    <3>2. Parsed'
      BY <1>1, <1>6, <2>1, <3>1 DEF ServerInv, ParseRest, Parsed
    <3>3. Tasks'
      BY <1>6, <2>1 DEF ServerInv, Tasks, ParseRest, Spawn, hyper
    <3>4. QED
      BY <1>1, <3>2, <3>3 DEF ServerInv
  <2>2. CASE ~(Is(Field("version"), Version13) /\ Field("key") # <<>>)
    BY <1>6, <2>2, BadStep DEF ParseRest, Proper
  <2>3. QED
    BY <2>1, <2>2
<1>7. QED
  BY <1>2, <1>3, <1>4, <1>5, <1>6

LEMMA ServerStep ==
  ASSUME ServerInv, ServerNext
  PROVE  ServerInv'
<1>1. CASE Respond
  <2>1. Parsed'
    BY <1>1 DEF ServerInv, Parsed, Respond, AcceptHeader, Field
  <2>2. Tasks'
    BY <1>1 DEF ServerInv, Tasks, Respond, hyper
  <2>3. QED
    BY <1>1, <2>1, <2>2 DEF ServerInv, Respond
<1>2. CASE Task \/ Hyper \/ Lose
  <2>1. UNCHANGED <<request, pc, haystack, response>>
    BY <1>2 DEF Task, Serve, GiveUp, Hyper, WriteResponse, HandOver, Lose, handler
  <2>2. Parsed'
    BY <2>1 DEF ServerInv, Parsed, Field
  <2>3. Tasks'
    <3>1. Tasks /\ pc' = pc /\ response' = response
      BY <2>1 DEF ServerInv
    <3>2. CASE Serve
      BY <3>1, <3>2 DEF Tasks, Serve, hyper
    <3>3. CASE GiveUp
      BY <3>1, <3>3 DEF Tasks, GiveUp, hyper
    <3>4. CASE WriteResponse
      <4>1. CASE response.status = 101
        BY <3>1, <3>4, <4>1 DEF Tasks, WriteResponse, handler
      <4>2. CASE response.status # 101
        BY <3>1, <3>4, <4>2 DEF Tasks, WriteResponse, handler
      <4>3. QED
        BY <4>1, <4>2
    <3>5. CASE HandOver
      BY <3>1, <3>5 DEF Tasks, HandOver, handler
    <3>6. CASE Lose
      <4>1. CASE upgrade = "pending"
        BY <3>1, <3>6, <4>1 DEF Tasks, Lose, handler
      <4>2. CASE upgrade # "pending"
        BY <3>1, <3>6, <4>2 DEF Tasks, Lose, handler
      <4>3. QED
        BY <4>1, <4>2
    <3>7. QED
      BY <1>2, <3>2, <3>3, <3>4, <3>5, <3>6 DEF Task, Hyper
  <2>4. QED
    BY <2>1, <2>2, <2>3 DEF ServerInv
<1>3. QED
  BY <1>1, <1>2, ParseStep DEF ServerNext, Handle

-----------------------------------------------------------------------------
(* The client: its builder, what it has written, and the two ends          *)
(* together.                                                               *)
BuilderType ==
  [scheme : {"none", "ws", "wss"}, host : {"none", "name", "address"},
   connector : {"none", "plain", "tls"}, async_connector : {"none", "plain", "tls"},
   headers : Seq(HeaderType)]

LEMMA BuilderSet ==
  ASSUME NEW b \in BuilderType
  PROVE  /\ b.headers \in Seq(HeaderType)
         /\ \A c \in {"plain", "tls"} : /\ [b EXCEPT !["connector"] = c] \in BuilderType
                                        /\ [b EXCEPT !["async_connector"] = c] \in BuilderType
         /\ \A hs \in Seq(HeaderType) : [b EXCEPT !["headers"] = hs] \in BuilderType
BY DEF BuilderType

ClientInv ==
  /\ builder \in BuilderType
  /\ sent \in Seq(HeaderType)
  /\ key = Header(sent, "key")
  /\ at \in {"build", "resolve", "dial", "wrap", "write"} => sent = <<>>
  /\ call # "none" /\ sent # <<>> => Proper(sent)

Joint ==
  /\ pc # "accept" => request = sent /\ sent # <<>>
  /\ at = "connected" => written /\ Validate(response)
  /\ at = "refused" => written /\ ~Validate(response)

IInv == ServerInv /\ ClientInv /\ Joint

LEMMA InitInv == ASSUME Init PROVE IInv
<1>1. <<>> \in Seq(HeaderType)
  OBVIOUS
<1>2. ServerInv
  BY <1>1 DEF Init, ServerInit, ServerInv, Parsed, Tasks, NoResponse
<1>3. Taken \in BuilderType
  BY <1>1 DEF Taken, BuilderType
<1>4. CASE BuilderInit
  <2>1. builder \in BuilderType
    <3>1. PICK s \in {"ws", "wss"}, h \in {"name", "address", "none"} :
            builder = [Taken EXCEPT !.scheme = s, !.host = h]
      BY <1>4 DEF BuilderInit
    <3>2. builder = [scheme |-> s, host |-> h, connector |-> "none",
                     async_connector |-> "none", headers |-> <<>>]
      BY <3>1 DEF Taken
    <3>3. s \in {"none", "ws", "wss"} /\ h \in {"none", "name", "address"}
      BY <3>1
    <3>4. QED
      BY <1>1, <3>2, <3>3 DEF BuilderType
  <2>2. sent = <<>> /\ key = <<>> /\ call = "none" /\ at = "build" /\ pc = "accept"
    BY <1>4 DEF Init, BuilderInit, ServerInit
  <2>3. QED
    BY <1>1, <1>2, <2>1, <2>2, NoHeaders DEF IInv, ClientInv, Joint
<1>5. CASE ForeignInit
  <2>1. /\ builder = Taken /\ sent \in ForeignRequests /\ key = Header(sent, "key")
        /\ call = "none" /\ at = "await" /\ pc = "accept"
    BY <1>5 DEF Init, ForeignInit, ServerInit
  <2>2. sent \in Seq(HeaderType)
    BY <2>1, HandshakeAssumption
  <2>3. QED
    BY <1>2, <1>3, <2>1, <2>2 DEF IInv, ClientInv, Joint
<1>6. QED
  BY <1>4, <1>5 DEF Init

LEMMA StopStep ==
  ASSUME IInv, NEW how \in {"failed", "panicked"}, Stop(how), UNCHANGED server
  PROVE  IInv'
<1>1. Taken \in BuilderType
  BY DEF Taken, BuilderType
<1>2. UNCHANGED <<request, pc, haystack, response, task, written, upgrade, lost>>
  BY DEF server, handler, hyper
<1>3. ServerInv'
  BY <1>2 DEF IInv, ServerInv, Parsed, Tasks, Field
<1>4. builder' = Taken /\ at' = how /\ UNCHANGED <<call, key, sent>>
  BY DEF Stop, Connected
<1>5. ClientInv' /\ Joint'
  BY <1>1, <1>2, <1>4 DEF IInv, ClientInv, Joint
<1>6. QED
  BY <1>3, <1>5 DEF IInv

LEMMA ClientStep ==
  ASSUME IInv, Client
  PROVE  IInv'
<1>1. UNCHANGED <<request, pc, haystack, response, task, written, upgrade, lost>>
  BY DEF Client, server, handler, hyper
<1>2. ServerInv'
  BY <1>1 DEF IInv, ServerInv, Parsed, Tasks, Field
<1>3. ASSUME builder' \in BuilderType, UNCHANGED <<key, sent>>,
             at \in {"build", "resolve", "dial", "wrap"},
             at' \in {"build", "resolve", "dial", "wrap", "write"}
      PROVE  IInv'
  <2>1. sent = <<>>
    BY <1>3 DEF IInv, ClientInv
  <2>2. ClientInv' /\ Joint'
    BY <1>1, <1>3, <2>1 DEF IInv, ClientInv, Joint
  <2>3. QED
    BY <1>2, <2>2 DEF IInv
<1>4. builder \in BuilderType
  BY DEF IInv, ClientInv
<1>5. ASSUME NEW c \in {"plain", "tls"}, SetConnector(c) \/ SetAsyncConnector(c)
      PROVE  IInv'
  <2>1. builder' \in BuilderType
    BY <1>4, <1>5, BuilderSet DEF SetConnector, SetAsyncConnector, Set
  <2>2. QED
    BY <1>3, <1>5, <2>1 DEF SetConnector, SetAsyncConnector, Set, Connected
<1>6. ASSUME NEW h \in AddedHeaders, AddHeader(h)
      PROVE  IInv'
  <2>1. Append(builder.headers, h) \in Seq(HeaderType)
    <3>1. h \in HeaderType
      BY HandshakeAssumption
    <3>2. builder.headers \in Seq(HeaderType)
      BY <1>4, BuilderSet
    <3>3. QED
      BY <3>1, <3>2
  <2>2. builder' \in BuilderType
    BY <1>4, <1>6, <2>1, BuilderSet DEF AddHeader, Set
  <2>3. QED
    BY <1>3, <1>6, <2>2 DEF AddHeader, Set, Connected
<1>7. ASSUME NEW m, Call(m)
      PROVE  IInv'
  BY <1>3, <1>4, <1>7 DEF Call
<1>8. ASSUME Resolve \/ Dial \/ ConfigFails \/ Wrap
      PROVE  IInv'
  <2>1. UNCHANGED server
    BY DEF Client
  <2>2. CASE \E how \in {"failed", "panicked"} : Stop(how)
    BY <2>1, <2>2, StopStep
  <2>3. CASE ~\E how \in {"failed", "panicked"} : Stop(how)
    BY <1>3, <1>4, <1>8, <2>3 DEF Resolve, Dial, ConfigFails, Wrap, Connected
  <2>4. QED
    BY <2>2, <2>3
<1>9. ASSUME NEW k \in Keys, WriteRequest(k)
      PROVE  IInv'
  <2>1. CASE Stop("failed")
    BY <2>1, StopStep DEF Client
  <2>2. CASE ~Stop("failed")
    <3>1. /\ at = "write" /\ at' = "await" /\ builder' = Taken
          /\ key' = <<k>> /\ sent' = Ordered(Own(k), builder.headers)
      BY <1>9, <2>2 DEF WriteRequest
    <3>2. k \in Seq(Chars) /\ builder.headers \in Seq(HeaderType)
      BY <1>4, BuilderSet, HandshakeAssumption
    <3>3. sent' \in Seq(HeaderType) /\ Header(sent', "key") = <<k>> /\ Proper(sent')
      BY <3>1, <3>2, OwnProper
    <3>4. Taken \in BuilderType
      BY DEF Taken, BuilderType
    <3>5. ClientInv'
      BY <3>1, <3>3, <3>4 DEF ClientInv
    <3>6. sent = <<>> /\ pc = "accept"
      BY <3>1 DEF IInv, ClientInv, Joint
    <3>7. Joint'
      BY <1>1, <3>1, <3>6 DEF Joint
    <3>8. QED
      BY <1>2, <3>5, <3>7 DEF IInv
  <2>3. QED
    BY <2>1, <2>2
<1>10. QED
  BY <1>5, <1>6, <1>7, <1>8, <1>9 DEF Client, ClientNext, Connecting

LEMMA ServerJoint ==
  ASSUME IInv, Server \/ Arrive
  PROVE  IInv'
<1>1. UNCHANGED <<backend, builder, call, at, stream, key, sent>> /\ sent # <<>>
  BY DEF Server, Arrive, clientVars, Connected
<1>2. ClientInv'
  BY <1>1 DEF IInv, ClientInv
<1>3. CASE Server
  <2>1. ServerInv'
    BY <1>3, ServerStep DEF IInv, Server
  <2>2. pc # "accept" \/ pc' = pc
    BY <1>3 DEF Server, ServerNext, Handle, ParseUpgrade, SearchOn, Found, NotFound, ParseRest,
         Respond, Task, Serve, GiveUp, Hyper, WriteResponse, HandOver, Lose, handler
  <2>3. UNCHANGED request
    BY <1>3 DEF Server, ServerNext, Handle, ParseUpgrade, SearchOn, Found, NotFound, ParseRest,
         Respond, Task, Serve, GiveUp, Hyper, WriteResponse, HandOver, Lose
  <2>4. written => written' /\ UNCHANGED response
    <3>1. written => pc = "returned"
      BY DEF IInv, ServerInv, Tasks
    <3>2. QED
      BY <1>3, <3>1 DEF Server, ServerNext, Handle, ParseUpgrade, SearchOn, Found, NotFound,
         ParseRest, Respond, Task, Serve, GiveUp, Hyper, WriteResponse, HandOver, Lose, handler, hyper
  <2>5. Joint'
    BY <1>1, <2>2, <2>3, <2>4 DEF IInv, Joint, Validate
  <2>6. QED
    BY <1>2, <2>1, <2>5 DEF IInv
<1>4. CASE Arrive
  <2>1. /\ pc = "accept" /\ request' = sent /\ pc' = "parse"
        /\ UNCHANGED <<haystack, response, task, written, upgrade, lost>>
    BY <1>4 DEF Arrive, ReceiveRequest, hyper
  <2>2. ServerInv'
    BY <2>1 DEF IInv, ClientInv, ServerInv, Parsed, Tasks
  <2>3. ~written
    BY <2>1 DEF IInv, ServerInv, Tasks
  <2>4. Joint'
    BY <1>1, <2>1, <2>3 DEF IInv, Joint
  <2>5. QED
    BY <1>2, <2>2, <2>4 DEF IInv
<1>5. QED
  BY <1>3, <1>4

LEMMA AnswerStep ==
  ASSUME IInv, ClientReads \/ ClientSeesLoss
  PROVE  IInv'
<1>1. /\ at = "await" /\ UNCHANGED <<builder, call, key, sent>>
      /\ UNCHANGED <<request, pc, haystack, response, task, written, upgrade, lost>>
  BY DEF ClientReads, ClientSeesLoss, Answer, Connected, server, handler, hyper
<1>2. ServerInv'
  BY <1>1 DEF IInv, ServerInv, Parsed, Tasks, Field
<1>3. at' \in {"connected", "refused", "failed"}
  BY DEF ClientReads, ClientSeesLoss, Answer
<1>4. ClientInv'
  BY <1>1, <1>3 DEF IInv, ClientInv
<1>5. /\ at' = "connected" => written /\ Validate(response)
      /\ at' = "refused" => written /\ ~Validate(response)
  BY DEF ClientReads, ClientSeesLoss, Answer
<1>6. Joint'
  BY <1>1, <1>5 DEF IInv, Joint, Validate
<1>7. QED
  BY <1>2, <1>4, <1>6 DEF IInv

(* The invariant holds at both ends, for any request that may be sent: the *)
(* theorems below follow from it.                                          *)
THEOREM HandshakeInv == Spec => []IInv
<1>1. Init => IInv
  BY InitInv
<1>2. IInv /\ [Next]_vars => IInv'
  <2> SUFFICES ASSUME IInv, [Next]_vars PROVE IInv'
    OBVIOUS
  <2>1. CASE UNCHANGED vars
    BY <2>1 DEF vars, server, handler, hyper, clientVars, Connected, IInv, ServerInv, Parsed,
         Tasks, Field, ClientInv, Joint, Validate
  <2>2. CASE Next
    BY <2>2, ClientStep, ServerJoint, AnswerStep DEF Next
  <2>3. QED
    BY <2>1, <2>2
<1>3. QED
  BY <1>1, <1>2, PTL DEF Spec

(* The answer is 101 exactly for a proper request: the search finds        *)
(* "Upgrade" wherever it is in a Connection header of any length.          *)
THEOREM AcceptsExactlyHolds == Spec => []AcceptsExactly
<1>1. IInv => AcceptsExactly
  BY DEF IInv, ServerInv, Parsed, AcceptsExactly
<1>2. QED
  BY <1>1, HandshakeInv, PTL

(* on_client runs only for a client that was, or will be, content with the *)
(* answer.                                                                 *)
THEOREM ServesAcceptedHolds == Spec => []ServesAccepted
<1>1. IInv => ServesAccepted
  <2> SUFFICES ASSUME IInv, task = "serving" PROVE written /\ Validate(response) /\ at # "refused"
    BY DEF ServesAccepted
  <2>1. written /\ response.status = 101 /\ pc = "returned"
    BY DEF IInv, ServerInv, Tasks
  <2>2. Proper(request) /\ response.accept = WsAccept(Header(sent, "key")[1])
    BY <2>1 DEF IInv, ServerInv, Parsed, Joint, Field
  <2>3. Validate(response)
    BY <2>1, <2>2 DEF IInv, ClientInv, Joint, Proper, Validate
  <2>4. QED
    BY <2>1, <2>3 DEF IInv, Joint
<1>2. QED
  BY <1>1, HandshakeInv, PTL

(* A client that is connected has a task that serves it, or the connection *)
(* was lost.                                                               *)
THEOREM ConnectedIsServedHolds == Spec => []ConnectedIsServed
<1>1. IInv => ConnectedIsServed
  <2> SUFFICES ASSUME IInv, at = "connected"
               PROVE  task \in {"spawned", "serving"} \/ (task = "failed" /\ lost)
    BY DEF ConnectedIsServed
  <2>1. written /\ response.status = 101 /\ pc = "returned"
    BY DEF IInv, ServerInv, Joint, Validate, Tasks
  <2>2. QED
    BY <2>1 DEF IInv, ServerInv, Tasks
<1>2. QED
  BY <1>1, HandshakeInv, PTL

(* The request of ClientBuilder is accepted, with whatever headers the     *)
(* application adds, any number of them, and so is the answer to it.       *)
THEOREM OwnRequestAcceptedHolds == Spec => []OwnRequestAccepted
<1>1. IInv => OwnRequestAccepted
  <2> SUFFICES ASSUME IInv, call # "none"
               PROVE  at # "refused" /\ (pc = "returned" => response.status = 101)
    BY DEF OwnRequestAccepted
  <2>1. pc = "returned" => /\ Proper(sent) /\ response.status = 101
                           /\ response.accept = WsAccept(Header(sent, "key")[1])
    BY DEF IInv, ServerInv, Parsed, ClientInv, Joint, Field
  <2>2. pc = "returned" => Validate(response)
    BY <2>1 DEF IInv, ClientInv, Proper, Validate
  <2>3. at = "refused" => pc = "returned" /\ ~Validate(response)
    BY DEF IInv, ServerInv, Tasks, Joint
  <2>4. QED
    BY <2>1, <2>2, <2>3
<1>2. QED
  BY <1>1, HandshakeInv, PTL
=============================================================================
