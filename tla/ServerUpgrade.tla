---------------------------- MODULE ServerUpgrade ----------------------------
(***************************************************************************)
(* The server's side of the opening handshake on one connection:           *)
(* server_upgrade of hyper-websocket-lite with ClientRequest::parse        *)
(* (upgrade.rs).  hyper (external) parses the request, calls               *)
(* server_upgrade, writes the response, and then hands the connection      *)
(* over.  Handshake puts a client at the other end.                        *)
(*                                                                         *)
(* A request is the sequence of its headers; a value is a sequence of      *)
(* characters, text if HeaderValue::to_str accepts it.  "websocket" is     *)
(* shortened to "ws", "Upgrade" to "Up".  A definition named for what goes *)
(* wrong (TooShortEarly, SpawnForgotten) is a faulty variant of the one    *)
(* after it.                                                               *)
(***************************************************************************)
EXTENDS Sequences, Integers

VARIABLES
  request,       (* the headers of the client's request                     *)
  pc,            (* where server_upgrade is                                 *)
  haystack,      (* the argument of contains_ignore_ascii_case              *)
  response,      (* the response returned: its status and accept header     *)
  task,          (* the task spawned: on_client runs while it is "serving"  *)
  written,       (* whether hyper has written the response                  *)
  upgrade,       (* what upgrade::on(request) gives                         *)
  lost           (* whether the connection was lost                         *)

handler == <<pc, haystack, response, task>>
hyper == <<written, upgrade, lost>>

NoResponse == [status |-> 0, accept |-> <<>>]

ServerInit ==
  /\ request = <<>>
  /\ pc = "accept"
  /\ haystack = <<>>
  /\ response = NoResponse
  /\ task = "none"
  /\ written = FALSE /\ upgrade = "pending" /\ lost = FALSE

(* hyper calls server_upgrade with the request it parsed.                  *)
ReceiveRequest(headers) ==
  /\ pc = "accept" /\ ~lost
  /\ request' = headers
  /\ pc' = "parse"
  /\ UNCHANGED <<haystack, response, task, hyper>>

(* request.headers().get(name): the first of that name, as an Option, <<>> *)
(* or <<value>>.                                                           *)
Header(headers, name) ==
  LET named == {i \in DOMAIN headers : headers[i].name = name}
      first == CHOOSE i \in named : \A j \in named : i <= j
  IN IF named # {} /\ headers[first].text THEN <<headers[first].value>> ELSE <<>>

Field(name) == Header(request, name)

-----------------------------------------------------------------------------
(* eq_ignore_ascii_case.                                                   *)
LowerOf == [U |-> "u", P |-> "p", W |-> "w", S |-> "s"]
Lower(ch) == IF ch \in DOMAIN LowerOf THEN LowerOf[ch] ELSE ch
EqIgnoreCase(a, b) == Len(a) = Len(b) /\ \A i \in 1..Len(a) : Lower(a[i]) = Lower(b[i])

Websocket == <<"w", "s">>
Upgrade == <<"U", "p">>
Version13 == <<"1", "3">>

(* check_header, and build_ws_accept with the base64 of its digest.        *)
Is(header, expected) == header # <<>> /\ EqIgnoreCase(header[1], expected)
WsAccept(key) == <<"accept", key>>

(* ClientRequest::parse fails.                                             *)
BadRequest ==
  /\ pc' = "returned"
  /\ response' = [status |-> 400, accept |-> <<>>]
  /\ UNCHANGED <<haystack, task>>

ParseUpgrade ==
  /\ pc = "parse"
  /\ IF Is(Field("upgrade"), Websocket) /\ Field("connection") # <<>>
       THEN pc' = "search" /\ haystack' = Field("connection")[1] /\ UNCHANGED <<response, task>>
       ELSE BadRequest
  /\ UNCHANGED <<request, hyper>>

(* contains_ignore_ascii_case: the needle is looked for at the front of    *)
(* what is left, until too little is.                                      *)
TooShortEarly == Len(haystack) <= Len(Upgrade)
TooShort == Len(haystack) < Len(Upgrade)
AtFront == EqIgnoreCase(SubSeq(haystack, 1, Len(Upgrade)), Upgrade)

SearchOn ==
  /\ pc = "search" /\ ~TooShort /\ ~AtFront
  /\ haystack' = Tail(haystack)
  /\ UNCHANGED <<request, pc, response, task, hyper>>

Found ==
  /\ pc = "search" /\ ~TooShort /\ AtFront
  /\ pc' = "version"
  /\ UNCHANGED <<request, haystack, response, task, hyper>>

NotFound ==
  /\ pc = "search" /\ TooShort
  /\ BadRequest
  /\ UNCHANGED <<request, hyper>>

(* The rest of parse.  The task is spawned, and may run, before the        *)
(* response is made.                                                       *)
SpawnForgotten == UNCHANGED task
Spawn == task' = "spawned"

ParseRest ==
  /\ pc = "version"
  /\ IF Is(Field("version"), Version13) /\ Field("key") # <<>>
       THEN pc' = "respond" /\ Spawn /\ UNCHANGED <<haystack, response>>
       ELSE BadRequest
  /\ UNCHANGED <<request, hyper>>

(* Nothing is awaited before the response is returned.                     *)
AcceptForgotten == <<>>
AcceptHeader == WsAccept(Field("key")[1])
UpgradeAwaited == task # "spawned"
NothingAwaited == TRUE

Respond ==
  /\ pc = "respond" /\ NothingAwaited
  /\ pc' = "returned"
  /\ response' = [status |-> 101, accept |-> AcceptHeader]
  /\ UNCHANGED <<request, haystack, task, hyper>>

(* The task: upgrade::on(request).await and what it comes to.              *)
Serve ==
  /\ task = "spawned" /\ upgrade = "ok"
  /\ task' = "serving"
  /\ UNCHANGED <<request, pc, haystack, response, hyper>>

GiveUp ==
  /\ task = "spawned" /\ upgrade = "err"
  /\ task' = "failed"
  /\ UNCHANGED <<request, pc, haystack, response, hyper>>

-----------------------------------------------------------------------------
(* hyper writes the response; a response that switches protocols is        *)
(* followed by the hand-over, and without one, or when the connection is   *)
(* lost, whoever waits for it gets an error.                               *)
WriteResponse ==
  /\ pc = "returned" /\ ~written /\ ~lost
  /\ written' = TRUE
  /\ upgrade' = IF response.status = 101 THEN upgrade ELSE "err"
  /\ UNCHANGED <<request, handler, lost>>

HandOver ==
  /\ written /\ upgrade = "pending" /\ ~lost
  /\ upgrade' = "ok"
  /\ UNCHANGED <<request, handler, written, lost>>

Lose ==
  /\ ~lost
  /\ lost' = TRUE
  /\ upgrade' = IF upgrade = "pending" THEN "err" ELSE upgrade
  /\ UNCHANGED <<request, handler, written>>

Handle == ParseUpgrade \/ SearchOn \/ Found \/ NotFound \/ ParseRest \/ Respond
Hyper == WriteResponse \/ HandOver
Task == Serve \/ GiveUp

ServerNext == Handle \/ Task \/ Hyper \/ Lose

-----------------------------------------------------------------------------
(* s contains t, upper and lower case being the same.                      *)
Contains(s, t) == \E i \in 0..Len(s)-Len(t) : EqIgnoreCase(SubSeq(s, i+1, i+Len(t)), t)

(* The five checks of ClientRequest::parse (upgrade.rs:126-130), with the  *)
(* search for "Upgrade" stated apart from its loop.  They are less than    *)
(* the protocol asks: nothing is said of the method, the version of HTTP,  *)
(* the Host header or the form of the key, "Upgrade" may be a part of      *)
(* another word, and only the first Connection header is looked at.        *)
Proper(headers) ==
  /\ Is(Header(headers, "upgrade"), Websocket)
  /\ Header(headers, "connection") # <<>>
  /\ Contains(Header(headers, "connection")[1], Upgrade)
  /\ Is(Header(headers, "version"), Version13)
  /\ Header(headers, "key") # <<>>

(* The answer is 101 exactly for a request that passes the five checks     *)
(* (upgrade.rs:65-133), in particular for any that has "Upgrade" anywhere  *)
(* in its first Connection header, up to its last letter.                  *)
AcceptsExactly == pc = "returned" => (response.status = 101 <=> Proper(request))

(* A proper request is served unless the connection is lost: the task and  *)
(* the response do not wait for each other (lib.rs:42-52).                 *)
Served == (pc # "accept" /\ Proper(request)) ~> (task = "serving" \/ lost)
=============================================================================
