------------------------------ MODULE Handshake ------------------------------
(***************************************************************************)
(* The opening handshake from both ends: a client built by ClientBuilder,  *)
(* or a foreign one that sends whatever it likes, and server_upgrade.  The *)
(* connection may be lost at any moment.                                   *)
(***************************************************************************)
EXTENDS ServerUpgrade, ClientBuilder

CONSTANTS
  Names, Chars,      (* the names of headers, the characters of their values *)
  ForeignRequests    (* what other clients may send                         *)

HeaderType == [name : Names, value : Seq(Chars), text : BOOLEAN]

ASSUME HandshakeAssumption ==
  /\ {"host", "upgrade", "connection", "key", "version"} \subseteq Names
  /\ {"w", "s", "U", "p", "1", "3"} \subseteq Chars
  /\ AddedHeaders \subseteq HeaderType
  /\ ForeignRequests \subseteq Seq(HeaderType)
  /\ Keys \subseteq Seq(Chars)

server == <<request, handler, hyper>>
vars == <<server, clientVars>>

(* A foreign client has a request and waits for the answer.                *)
ForeignInit ==
  /\ backend = "none" /\ builder = Taken /\ call = "none"
  /\ at = "await" /\ stream = "given"
  /\ sent \in ForeignRequests /\ key = Header(sent, "key")

Init == ServerInit /\ (BuilderInit \/ ForeignInit)

-----------------------------------------------------------------------------
Client == ClientNext /\ UNCHANGED server
Server == ServerNext /\ sent # <<>> /\ UNCHANGED clientVars
Arrive == sent # <<>> /\ ReceiveRequest(sent) /\ UNCHANGED clientVars

(* validate_server_response returns Ok.  Every other answer here makes it  *)
(* return Err: a digest of this server decodes to the 20 bytes there is    *)
(* room for, so that decode_config_slice does not panic (for the server    *)
(* that sends more see UpgradePanic in SyncClient).                        *)
Validate(resp) ==
  /\ resp.status = 101
  /\ key # <<>> /\ resp.accept = WsAccept(key[1])

ClientReads ==
  /\ written
  /\ Answer(IF Validate(response) THEN "connected" ELSE "refused")
  /\ UNCHANGED server

ClientSeesLoss == lost /\ Answer("failed") /\ UNCHANGED server

Next == Client \/ Server \/ Arrive \/ ClientReads \/ ClientSeesLoss

Spec == Init /\ [][Next]_vars

(* connect runs once it is called, tasks are polled when they can go on,   *)
(* and hyper does its part.                                                *)
FairSpec ==
  /\ Spec
  /\ WF_vars(Connecting /\ UNCHANGED server)
  /\ WF_vars(Arrive)
  /\ WF_vars(Handle /\ UNCHANGED clientVars)
  /\ WF_vars(Task /\ UNCHANGED clientVars)
  /\ WF_vars(Hyper /\ UNCHANGED clientVars)
  /\ WF_vars(ClientReads \/ ClientSeesLoss)

-----------------------------------------------------------------------------
(* The request of this client is one that this server accepts, and the     *)
(* answer one that this client accepts, whatever headers the application   *)
(* added and even if they have the names of its own (client.rs:66-79,      *)
(* lib.rs:32-36).                                                          *)
OwnRequestAccepted ==
  call # "none" => at # "refused" /\ (pc = "returned" => response.status = 101)

(* on_client runs only on a connection on which the 101 was written, and   *)
(* the client at its other end is one that accepts it, although the task   *)
(* is spawned before the response exists (lib.rs:42-52).                   *)
ServesAccepted ==
  task = "serving" => written /\ Validate(response) /\ at # "refused"

(* A client that takes itself to be connected has a task that serves it,   *)
(* or will, or was lost.                                                   *)
ConnectedIsServed ==
  at = "connected" => task \in {"spawned", "serving"} \/ (task = "failed" /\ lost)

(* Every way to connect comes back with a client or an error, if the       *)
(* server is this one: neither end waits for the other (client.rs:150-250, *)
(* lib.rs:42-58).                                                          *)
ConnectReturns == call # "none" ~> at \in {"connected", "refused", "failed", "panicked"}
=============================================================================
