------------------------------ MODULE RconSession ------------------------------
(***************************************************************************)
(* The RCON connection of a Factorio job: FactorioRuntimeCapability opens  *)
(* it in setup, the factorio_call_script tool sends the agent's commands   *)
(* over it, and finalize closes it.  A request carries an id; the client   *)
(* raises when nothing arrives for `timeout' seconds, and stays connected. *)
(*                                                                         *)
(* The game server is external.  It serves the requests of a connection in *)
(* order, each whenever it pleases, and answers an EXECCOMMAND with one    *)
(* RESPONSE_VALUE packet that carries its id.                              *)
(*                                                                         *)
(* A body is the id of the command it answers.  A timeout that strikes     *)
(* inside a packet loses the bytes already read: from then on the stream   *)
(* is `torn' and a read yields an error, a slice of text, or by luck the   *)
(* start of a packet again.                                                *)
(***************************************************************************)
EXTENDS Naturals, Sequences

CONSTANTS
  Nothing,      \* no call pending, no reply yet
  Garbage,      \* a body cut out of the middle of the stream
  Refused,      \* the id -1 of a refused login
  MaxJobs,      \* bound: jobs that run setup, one after the other
  MaxCalls      \* bound: requests sent on one connection

ASSUME RconAssumption ==
  /\ Nothing \notin Nat /\ Garbage \notin Nat /\ Refused \notin Nat
  /\ Nothing # Garbage
  /\ MaxJobs \in Nat /\ MaxCalls \in Nat \ {0, 1}

VARIABLES
  pc,      \* the receive the job is blocked in, or where it stands between them
  jobs,    \* how many jobs have run setup
  id,      \* _request_id of the client
  rcon,    \* does ctx.resources hold the client?
  inbox,   \* requests sent and not yet served
  wire,    \* packets served and not yet read
  peer,    \* is the server's end of the connection open?
  authed,  \* has the server accepted the password on this connection?
  torn,    \* is the stream out of step with the packets?
  reply,   \* what the last send_command of the connection returned
  clean    \* no receive of the connection has failed (history)

vars == <<pc, jobs, id, rcon, inbox, wire, peer, authed, torn, reply, clean>>

AUTH == "auth"                   \* SERVERDATA_AUTH
EXECCOMMAND == "exec"            \* SERVERDATA_EXECCOMMAND
RESPONSE_VALUE == "value"        \* SERVERDATA_RESPONSE_VALUE
AUTH_RESPONSE == "auth_response" \* SERVERDATA_AUTH_RESPONSE

Request(n, type) == [id |-> n, type |-> type]
Requests == [id : Nat, type : {AUTH, EXECCOMMAND}]
Packet(n, type) == [id |-> n, type |-> type]
Packets == [id : Nat \cup {Refused}, type : {RESPONSE_VALUE, AUTH_RESPONSE}]

Init ==
  /\ pc = "none"
  /\ jobs = 0
  /\ id = 0
  /\ rcon = FALSE
  /\ inbox = <<>>
  /\ wire = <<>>
  /\ peer = FALSE
  /\ authed = FALSE
  /\ torn = FALSE
  /\ reply = Nothing
  /\ clean = TRUE

-----------------------------------------------------------------------------
(* The client. *)

\* sendall: the request is on its way, or the connection is found closed.
Send(n, type) == inbox' = Append(inbox, Request(n, type))

\* RCONClient() and connect(): a fresh socket and a fresh id, then the login.
Connect ==
  /\ pc = "none" /\ jobs < MaxJobs
  /\ jobs' = jobs + 1
  /\ id' = 1
  /\ rcon' = FALSE
  /\ reply' = Nothing
  /\ clean' = TRUE
  /\ wire' = <<>> /\ authed' = FALSE /\ torn' = FALSE
  /\ \/ peer' = TRUE /\ inbox' = <<Request(1, AUTH)>> /\ pc' = "auth"
     \/ peer' = FALSE /\ inbox' = <<>> /\ pc' = "failed"

\* send_command up to its first _recv; in `pc' = where' it waits for the reply.
SendCommand(where, onError) ==
  /\ id < MaxCalls
  /\ id' = id + 1
  /\ \/ Send(id + 1, EXECCOMMAND) /\ peer /\ pc' = where /\ UNCHANGED clean
     \/ ~peer /\ pc' = onError /\ clean' = FALSE /\ UNCHANGED inbox

\* The rest of setup: hand the client out, then have the mod reload its scripts.
LoggedIn == rcon' = TRUE /\ SendCommand("reload", "failed")

\* _authenticate reads the login's answer, which an empty value may precede.
RecvAuth ==
  /\ pc \in {"auth", "auth2"} /\ wire # <<>>
  /\ wire' = Tail(wire)
  /\ IF pc = "auth" /\ Head(wire).type = RESPONSE_VALUE
     THEN pc' = "auth2" /\ UNCHANGED <<id, rcon, inbox, clean>>
     ELSE IF Head(wire).type # AUTH_RESPONSE \/ Head(wire).id = Refused
     THEN pc' = "failed" /\ clean' = FALSE /\ UNCHANGED <<id, rcon, inbox>>
     ELSE LoggedIn
  /\ UNCHANGED <<jobs, peer, authed, torn, reply>>

\* factorio_call_script: the tool needs the client in ctx.resources.
Call ==
  /\ pc = "ready" /\ rcon
  /\ SendCommand("call", "ready")
  /\ UNCHANGED <<jobs, rcon, wire, peer, authed, torn, reply>>

Receiving == pc \in {"reload", "call"}

\* _recv gives a packet.  An auth response is skipped; any other body is
\* returned, whether its id is the command's or not.
RecvReply ==
  /\ Receiving /\ wire # <<>> /\ ~torn
  /\ wire' = Tail(wire)
  /\ IF Head(wire).type = AUTH_RESPONSE
     THEN UNCHANGED <<pc, reply>>
     ELSE pc' = "ready" /\ reply' = Head(wire).id
  /\ UNCHANGED <<jobs, id, rcon, inbox, peer, authed, torn, clean>>

AfterError == IF pc = "call" THEN "ready" ELSE "failed"

\* Out of step: a slice of text where a packet should be.  It is refused for its
\* size, or taken for a body; either way bytes are gone.
RecvTorn ==
  /\ Receiving /\ torn
  /\ \E n \in 0..Len(wire) : wire' = SubSeq(wire, n + 1, Len(wire))
  /\ torn' \in BOOLEAN
  /\ \/ pc' = "ready" /\ reply' = Garbage /\ UNCHANGED clean
     \/ pc' = AfterError /\ clean' = FALSE /\ UNCHANGED reply
     \/ UNCHANGED <<pc, reply, clean>>
  /\ UNCHANGED <<jobs, id, rcon, inbox, peer, authed>>

\* Mutant: the tool sends a command that timed out once more.
RecvErrorRetry ==
  /\ pc \in {"auth", "auth2", "reload", "call"} /\ wire = <<>>
  /\ IF pc = "call" /\ id < MaxCalls
     THEN SendCommand("call", "ready")
     ELSE pc' = AfterError /\ clean' = FALSE /\ UNCHANGED <<id, inbox>>
  /\ UNCHANGED <<jobs, rcon, wire, peer, authed, torn, reply>>

\* Mutant: the socket has no timeout.
RecvErrorClosed ==
  /\ pc \in {"auth", "auth2", "reload", "call"} /\ wire = <<>> /\ ~peer
  /\ pc' = AfterError
  /\ clean' = FALSE
  /\ UNCHANGED <<jobs, id, rcon, inbox, wire, peer, authed, torn, reply>>

\* Nothing arrives for `timeout' seconds, or the server has closed.  The start of
\* the next answer may have been read by then.  Only the exception is left of it:
\* the socket stays open and the tool reports an error to the agent.
RecvError ==
  /\ pc \in {"auth", "auth2", "reload", "call"} /\ wire = <<>>
  /\ pc' = AfterError
  /\ clean' = FALSE
  /\ \/ UNCHANGED <<inbox, torn>>
     \/ peer /\ inbox # <<>> /\ inbox' = Tail(inbox) /\ torn' = TRUE
  /\ UNCHANGED <<jobs, id, rcon, wire, peer, authed, reply>>

\* finalize: the client leaves ctx.resources and its socket is closed.  Requests
\* not yet served may be served all the same, but nobody reads the answers.
Finalize ==
  /\ pc \in {"ready", "failed"}
  /\ pc' = "none"
  /\ rcon' = FALSE
  /\ UNCHANGED <<jobs, id, inbox, wire, peer, authed, torn, reply, clean>>

-----------------------------------------------------------------------------
(* The game server. *)

ServeAuth ==
  /\ peer /\ inbox # <<>> /\ Head(inbox).type = AUTH
  /\ inbox' = Tail(inbox)
  /\ \E sent \in {wire, Append(wire, Packet(Head(inbox).id, RESPONSE_VALUE))}, ok \in BOOLEAN :
       /\ authed' = ok
       /\ wire' = Append(sent, Packet(IF ok THEN Head(inbox).id ELSE Refused, AUTH_RESPONSE))
  /\ UNCHANGED <<pc, jobs, id, rcon, peer, torn, reply, clean>>

ServeCommand ==
  /\ peer /\ inbox # <<>> /\ Head(inbox).type = EXECCOMMAND
  /\ inbox' = Tail(inbox)
  /\ wire' = Append(wire, Packet(Head(inbox).id, RESPONSE_VALUE))
  /\ UNCHANGED <<pc, jobs, id, rcon, peer, authed, torn, reply, clean>>

\* The server goes down or drops the connection; what it has sent still arrives.
Crash ==
  /\ peer
  /\ peer' = FALSE
  /\ inbox' = <<>>
  /\ UNCHANGED <<pc, jobs, id, rcon, wire, authed, torn, reply, clean>>

Receive == RecvAuth \/ RecvReply \/ RecvTorn \/ RecvError

Next ==
  \/ Connect \/ Call \/ Finalize \/ Receive
  \/ ServeAuth \/ ServeCommand \/ Crash

\* A receive has a deadline, so it does not wait for ever; the server may.
Spec == Init /\ [][Next]_vars /\ WF_vars(Receive)

-----------------------------------------------------------------------------
(* Properties. *)

\* Every variable has its type; reply ids stay in the range of the requests.
TypeOK ==
  /\ pc \in {"none", "auth", "auth2", "reload", "call", "ready", "failed"}
  /\ jobs \in 0..MaxJobs
  /\ id \in 0..MaxCalls
  /\ rcon \in BOOLEAN
  /\ inbox \in Seq(Requests)
  /\ wire \in Seq(Packets)
  /\ peer \in BOOLEAN /\ authed \in BOOLEAN /\ torn \in BOOLEAN
  /\ reply \in Nat \cup {Nothing, Garbage}
  /\ clean \in BOOLEAN

\* No command reaches a server that has not accepted the login: setup hands the
\* client out only after connect, and connect refuses the id -1.
CommandsNeedAuth == \A i \in 1..Len(inbox) : inbox[i].type = EXECCOMMAND => authed

\* The calls of one connection, as its users see them: the login has id 1, every
\* later id is a call, and an answer may come while its request or its packet is
\* still under way.
Asked == IF id <= 1 THEN 0 ELSE id
Pending == IF Receiving THEN id ELSE Nothing
Owed == {n \in 2..id : \/ \E i \in 1..Len(inbox) : inbox[i].id = n
                       \/ \E i \in 1..Len(wire) : wire[i].id = n}

Calls == INSTANCE RconCalls WITH asked <- Asked, pending <- Pending, owed <- Owed

\* send_command gives its caller its own reply or one a failed call still had
\* coming, never one twice, never one of another job, and its own as long as no
\* call of the connection has failed.
Promise == Calls!Spec

\* As long as nothing has failed on its connection, a call returns its own reply:
\* the login reads exactly the packets that belong to it, and every later call
\* takes exactly one.
OwnReply == Calls!OwnReplyWhileClean

\* Every receive ends, whatever the server does.
CallsEnd ==
  pc \in {"auth", "auth2", "reload", "call"} ~> pc \in {"none", "ready", "failed"}

===============================================================================
