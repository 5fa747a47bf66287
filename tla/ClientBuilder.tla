---------------------------- MODULE ClientBuilder ----------------------------
(***************************************************************************)
(* ClientBuilder: its settings, the ways to connect, blocking and          *)
(* asynchronous, the choice of a connector and its wrap (ssl.rs), and the  *)
(* request.  What the name server, the network and the TLS library do is   *)
(* a choice of success or failure.  AddedFirst is a faulty variant of      *)
(* Ordered.                                                                *)
(*                                                                         *)
(* Requests are as in ServerUpgrade; path, port and case are left out.     *)
(***************************************************************************)
EXTENDS Sequences, Naturals

CONSTANTS
  AddedHeaders,  (* what the application may pass to add_header             *)
  MaxHeaders,    (* bound on how often it does                              *)
  Keys           (* the keys that make_key may draw, in base64              *)

VARIABLES
  backend,       (* the TLS feature the crate is built with                 *)
  builder,       (* the ClientBuilder; connect takes it                     *)
  call,          (* the method that took it                                 *)
  at,            (* where that method is                                    *)
  stream,        (* what carries the connection                             *)
  key,           (* the key in UpgradeCodec, as an Option                   *)
  sent           (* the request written                                     *)

Connected == <<stream, key, sent>>
clientVars == <<backend, builder, call, at, Connected>>

Backends == {"none", "native_tls", "rustls_webpki_roots", "rustls_native_roots"}
Rustls == {"rustls_webpki_roots", "rustls_native_roots"}
Taken == [scheme |-> "none", host |-> "none", connector |-> "none",
          async_connector |-> "none", headers |-> <<>>]

(* from_url: no URL without a host ("none") resolves.                      *)
BuilderInit ==
  /\ backend \in Backends
  /\ builder \in {[Taken EXCEPT !.scheme = s, !.host = h] :
                    s \in {"ws", "wss"}, h \in {"name", "address", "none"}}
  /\ call = "none" /\ at = "build"
  /\ stream = "none" /\ key = <<>> /\ sent = <<>>

(* The variants of Connector and AsyncConnector.                           *)
Connectors == {"plain"} \cup IF backend = "none" THEN {} ELSE {"tls"}

Set(field, value) ==
  /\ at = "build"
  /\ builder' = [builder EXCEPT ![field] = value]
  /\ UNCHANGED <<backend, call, at, Connected>>

SetConnector(c) == c \in Connectors /\ Set("connector", c)
SetAsyncConnector(c) == c \in Connectors /\ Set("async_connector", c)
AddHeader(h) ==
  /\ Len(builder.headers) < MaxHeaders
  /\ Set("headers", Append(builder.headers, h))

-----------------------------------------------------------------------------
Blocking == {"connect", "connect_insecure", "connect_on"}
Asynchronous == {"async_connect", "async_connect_insecure", "async_connect_on"}

(* connect and its variants: connect_on is given a stream and starts at    *)
(* its request.                                                            *)
Call(m) ==
  /\ at = "build"
  /\ call' = m
  /\ IF m \in {"connect_on", "async_connect_on"}
       THEN at' = "write" /\ stream' = "given"
       ELSE at' = "resolve" /\ UNCHANGED stream
  /\ UNCHANGED <<backend, builder, key, sent>>

(* The ? operator.                                                         *)
Stop(how) ==
  /\ at' = how
  /\ builder' = Taken
  /\ UNCHANGED <<backend, call, Connected>>

Resolve ==
  /\ at = "resolve"
  /\ \/ /\ builder.host # "none"
        /\ at' = "dial"
        /\ UNCHANGED <<backend, builder, call, Connected>>
     \/ Stop("failed")

Dial ==
  /\ at = "dial"
  /\ \/ /\ stream' = "tcp"
        /\ at' = IF call \in {"connect", "async_connect"} THEN "wrap" ELSE "write"
        /\ UNCHANGED <<backend, builder, call, key, sent>>
     \/ Stop("failed")

(* The connector that was set, a new one for wss, or none needed.          *)
Setting == IF call = "connect" THEN builder.connector ELSE builder.async_connector
Default == IF builder.scheme = "wss" /\ backend # "none" THEN "tls" ELSE "plain"
Chosen == IF Setting # "none" THEN Setting ELSE Default

(* new_with_default_tls_config, where it is called and does not succeed.   *)
ConfigFails ==
  /\ at = "wrap" /\ Setting = "none" /\ Default = "tls"
  /\ \/ backend \in {"native_tls", "rustls_native_roots"} /\ Stop("failed")
     \/ backend = "rustls_native_roots" /\ Stop("panicked")

(* wrap: rustls takes no name that is not a domain, and that of a host     *)
(* given by its address is empty.                                          *)
Wrap ==
  /\ at = "wrap"
  /\ \/ /\ Chosen = "tls" /\ backend \in Rustls => builder.host = "name"
        /\ stream' = Chosen
        /\ at' = "write"
        /\ UNCHANGED <<backend, builder, call, key, sent>>
     \/ Chosen = "tls" /\ Stop("failed")

(* build_request.                                                          *)
Line(name, value) == [name |-> name, value |-> value, text |-> TRUE]
Own(k) ==
  (IF builder.host = "none" THEN <<>> ELSE <<Line("host", <<>>)>>)
    \o <<Line("upgrade", <<"w", "s">>), Line("connection", <<"U", "p">>),
         Line("key", k), Line("version", <<"1", "3">>)>>
AddedFirst(own, added) == added \o own
Ordered(own, added) == own \o added

(* connect_on and async_connect_on up to the end of write_all.             *)
WriteRequest(k) ==
  /\ at = "write"
  /\ \/ /\ key' = <<k>>
        /\ sent' = Ordered(Own(k), builder.headers)
        /\ at' = "await"
        /\ builder' = Taken
        /\ UNCHANGED <<backend, call, stream>>
     \/ Stop("failed")

(* The rest of them, with the answer of receive, or of into_future.        *)
Answer(is) ==
  /\ at = "await"
  /\ at' = is
  /\ UNCHANGED <<backend, builder, call, Connected>>

Connecting ==
  \/ Resolve \/ Dial \/ ConfigFails \/ Wrap
  \/ \E k \in Keys : WriteRequest(k)

ClientNext ==
  \/ \E c \in {"plain", "tls"} : SetConnector(c) \/ SetAsyncConnector(c)
  \/ \E h \in AddedHeaders : AddHeader(h)
  \/ \E m \in Blocking \cup Asynchronous : Call(m)
  \/ Connecting
=============================================================================
