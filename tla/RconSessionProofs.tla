---------------------------- MODULE RconSessionProofs ----------------------------
(***************************************************************************)
(* What holds of an RCON connection for any number of jobs and calls: no   *)
(* command before the login, and the promise of RconCalls.                 *)
(***************************************************************************)
EXTENDS RconSession, TLAPS

\* Logged in: the client is in ctx.resources and setup or the agent uses it.
Up == pc \in {"reload", "call", "ready"}

\* A login request is the only thing in transit, and nothing was sent before it.
LoginOK ==
  \A i \in 1..Len(inbox) :
    inbox[i].type = AUTH => Len(inbox) = 1 /\ inbox[i].id = 1 /\ id = 1 /\ wire = <<>>

\* While connect waits for the login's answer, an acceptance means the server
\* has accepted.
AuthOK ==
  pc \in {"auth", "auth2"} =>
    /\ id = 1 /\ ~torn
    /\ \A i \in 1..Len(inbox) : inbox[i].type = AUTH
    /\ \A i \in 1..Len(wire) :
         wire[i].type = AUTH_RESPONSE =>
           i = Len(wire) /\ inbox = <<>> /\ (wire[i].id # Refused => authed)

\* Once logged in the stream holds the answers still owed, in the order asked.
StreamOK ==
  Up =>
    /\ id >= 2 /\ authed /\ rcon
    /\ \A i \in 1..Len(inbox) : inbox[i].type = EXECCOMMAND /\ inbox[i].id \in 2..id
    /\ \A i \in 1..Len(wire) : wire[i].type = RESPONSE_VALUE /\ wire[i].id \in 2..id
    /\ \A i, j \in 1..Len(inbox) : i < j => inbox[i].id < inbox[j].id
    /\ \A i, j \in 1..Len(wire) : i < j => wire[i].id < wire[j].id
    /\ \A i \in 1..Len(wire), j \in 1..Len(inbox) : wire[i].id < inbox[j].id

TornOK == torn => ~clean

Inv == TypeOK /\ CommandsNeedAuth /\ LoginOK /\ AuthOK /\ StreamOK /\ TornOK

-----------------------------------------------------------------------------
(* Sequences: what the operators leave where. *)

\* A received packet, or a served request, leaves the rest in place.
LEMMA TailElements ==
  ASSUME NEW S, NEW s \in Seq(S), s # <<>>
  PROVE  /\ Tail(s) \in Seq(S) /\ Len(s) >= 1 /\ Len(s) \in Nat /\ Len(Tail(s)) = Len(s) - 1
         /\ \A i \in 1..Len(Tail(s)) : Tail(s)[i] = s[i + 1] /\ i + 1 \in 1..Len(s)
         /\ Head(s) = s[1] /\ s[1] \in S
  OBVIOUS

\* A sent request, or an arriving packet, goes to the end.
LEMMA AppendElements ==
  ASSUME NEW S, NEW s \in Seq(S), NEW e \in S
  PROVE  /\ Append(s, e) \in Seq(S) /\ Len(Append(s, e)) = Len(s) + 1 /\ Len(s) \in Nat
         /\ \A i \in 1..Len(s) : Append(s, e)[i] = s[i]
         /\ Append(s, e)[Len(s) + 1] = e
         /\ \A i \in 1..Len(Append(s, e)) : i \in 1..Len(s) \/ i = Len(s) + 1
  OBVIOUS

\* Dropping a prefix leaves a part of the rest.
LEMMA SuffixElements ==
  ASSUME NEW S, NEW s \in Seq(S), NEW n \in 0..Len(s)
  PROVE  /\ SubSeq(s, n + 1, Len(s)) \in Seq(S)
         /\ Len(SubSeq(s, n + 1, Len(s))) = Len(s) - n /\ Len(s) \in Nat
         /\ \A i \in 1..(Len(s) - n) : SubSeq(s, n + 1, Len(s))[i] = s[i + n] /\ i + n \in 1..Len(s)
  OBVIOUS

-----------------------------------------------------------------------------
(* The invariant. *)

\* No client, no connection, nothing in transit.
LEMMA InitInv == Init => Inv
<1> SUFFICES ASSUME Init PROVE Inv
  OBVIOUS
<1>1. TypeOK
  <2>1. inbox \in Seq(Requests) /\ wire \in Seq(Packets)
    BY DEF Init
  <2>2. jobs \in 0..MaxJobs /\ id \in 0..MaxCalls
    BY RconAssumption DEF Init
  <2>3. reply \in Nat \cup {Nothing, Garbage}
    BY DEF Init
  <2> QED
    BY <2>1, <2>2, <2>3 DEF Init, TypeOK
<1>2. CommandsNeedAuth /\ LoginOK /\ AuthOK /\ StreamOK /\ TornOK
  BY DEF Init, CommandsNeedAuth, LoginOK, AuthOK, StreamOK, TornOK, Up
<1> QED
  BY <1>1, <1>2 DEF Inv

\* send_command's request goes to the end of the stream, with an id never used.
LEMMA SendInv ==
  ASSUME Inv, NEW where \in {"reload", "call"}, NEW onError \in {"failed", "ready"},
         SendCommand(where, onError), rcon' = TRUE, wire' \in Seq(Packets),
         UNCHANGED <<jobs, peer, authed, torn, reply>>,
         authed, id >= 1, onError = "ready" => Up,
         \A i \in 1..Len(inbox) : inbox[i].type = EXECCOMMAND /\ inbox[i].id \in 2..id,
         \A i, j \in 1..Len(inbox) : i < j => inbox[i].id < inbox[j].id,
         \A i \in 1..Len(wire') : wire'[i].type = RESPONSE_VALUE /\ wire'[i].id \in 2..id,
         \A i, j \in 1..Len(wire') : i < j => wire'[i].id < wire'[j].id,
         \A i \in 1..Len(wire'), j \in 1..Len(inbox) : wire'[i].id < inbox[j].id
  PROVE  Inv'
<1>1. Request(id + 1, EXECCOMMAND) \in Requests
  BY DEF Request, Requests, Inv, TypeOK
<1>2. CASE Send(id + 1, EXECCOMMAND) /\ peer /\ pc' = where /\ UNCHANGED clean
  <2>1. /\ inbox' \in Seq(Requests) /\ Len(inbox') = Len(inbox) + 1 /\ Len(inbox) \in Nat
        /\ \A i \in 1..Len(inbox) : inbox'[i] = inbox[i]
        /\ inbox'[Len(inbox) + 1] = Request(id + 1, EXECCOMMAND)
        /\ \A i \in 1..Len(inbox') : i \in 1..Len(inbox) \/ i = Len(inbox) + 1
    BY <1>1, <1>2, AppendElements DEF Send, Inv, TypeOK
  <2>2. /\ \A i \in 1..Len(inbox') : inbox'[i].type = EXECCOMMAND /\ inbox'[i].id \in 2..id'
        /\ \A i, j \in 1..Len(inbox') : i < j => inbox'[i].id < inbox'[j].id
        /\ \A i \in 1..Len(wire'), j \in 1..Len(inbox') : wire'[i].id < inbox'[j].id
    <3>1. id \in Nat /\ id' = id + 1
      BY DEF SendCommand, Inv, TypeOK
    <3>2. inbox'[Len(inbox) + 1].type = EXECCOMMAND /\ inbox'[Len(inbox) + 1].id = id + 1
      BY <2>1 DEF Request
    <3>3. \A i \in 1..Len(inbox') : inbox'[i].type = EXECCOMMAND /\ inbox'[i].id \in 2..id'
      BY <2>1, <3>1, <3>2
    <3>4. \A i, j \in 1..Len(inbox') : i < j => inbox'[i].id < inbox'[j].id
      BY <2>1, <3>1, <3>2
    <3>5. \A i \in 1..Len(wire'), j \in 1..Len(inbox') : wire'[i].id < inbox'[j].id
      BY <2>1, <3>1, <3>2
    <3> QED
      BY <3>3, <3>4, <3>5
  <2>3. TypeOK'
    BY <1>2, <2>1, RconAssumption DEF Inv, TypeOK, SendCommand
  <2>4. StreamOK'
    BY <1>2, <2>2 DEF StreamOK, Up, SendCommand, Inv, TypeOK
  <2>5. CommandsNeedAuth' /\ LoginOK' /\ AuthOK' /\ TornOK'
    BY <1>2, <2>2 DEF CommandsNeedAuth, LoginOK, AuthOK, TornOK, Inv, AUTH, EXECCOMMAND
  <2> QED
    BY <2>3, <2>4, <2>5 DEF Inv
<1>3. CASE ~peer /\ pc' = onError /\ clean' = FALSE /\ UNCHANGED inbox
  <2>1. TypeOK'
    <3>1. TypeOK /\ id' \in 0..MaxCalls
      BY RconAssumption DEF Inv, TypeOK, SendCommand
    <3>2. inbox' = inbox /\ pc' = onError /\ clean' = FALSE
      BY <1>3
    <3> QED
      BY <3>1, <3>2 DEF TypeOK
  <2>2. StreamOK'
    BY <1>3 DEF StreamOK, Up, SendCommand, Inv, TypeOK
  <2>3. CommandsNeedAuth' /\ LoginOK' /\ AuthOK' /\ TornOK'
    BY <1>3 DEF CommandsNeedAuth, LoginOK, AuthOK, TornOK, Inv, AUTH, EXECCOMMAND
  <2> QED
    BY <2>1, <2>2, <2>3 DEF Inv
<1> QED
  BY <1>2, <1>3 DEF SendCommand

\* What a receive leaves of the stream keeps its order.
LEMMA RestInv ==
  ASSUME Inv, Up, Up', NEW n \in 0..Len(wire), wire' = SubSeq(wire, n + 1, Len(wire)),
         UNCHANGED <<id, rcon, inbox, authed>>
  PROVE  wire' \in Seq(Packets) /\ LoginOK' /\ CommandsNeedAuth' /\ StreamOK'
<1>1. /\ wire' \in Seq(Packets) /\ Len(wire') = Len(wire) - n /\ Len(wire) \in Nat
      /\ \A i \in 1..Len(wire') : wire'[i] = wire[i + n] /\ i + n \in 1..Len(wire)
  BY SuffixElements DEF Inv, TypeOK
<1>2. StreamOK'
  BY <1>1 DEF Inv, StreamOK
<1>3. LoginOK' /\ CommandsNeedAuth'
  BY <1>2 DEF StreamOK, Inv, LoginOK, CommandsNeedAuth, AUTH, EXECCOMMAND
<1> QED
  BY <1>1, <1>2, <1>3

\* A new client on a new connection.
LEMMA ConnectInv == ASSUME Inv, Connect PROVE Inv'
<1>1. Request(1, AUTH) \in Requests
  BY DEF Request, Requests
<1>2. <<Request(1, AUTH)>> \in Seq(Requests) /\ <<>> \in Seq(Requests) /\ <<>> \in Seq(Packets)
  BY <1>1
<1>3. inbox' \in Seq(Requests) /\ wire' \in Seq(Packets)
  BY <1>2 DEF Connect
<1>4. id' \in 0..MaxCalls /\ jobs' \in 0..MaxJobs
  BY RconAssumption DEF Connect, Inv, TypeOK
<1>5. TypeOK'
  BY <1>3, <1>4 DEF Connect, TypeOK
<1>6. \A i \in 1..Len(inbox') : inbox'[i].type = AUTH /\ inbox'[i].id = 1 /\ Len(inbox') = 1
  BY <1>1 DEF Connect, Request
<1>7. CommandsNeedAuth' /\ LoginOK' /\ AuthOK' /\ StreamOK' /\ TornOK'
  BY <1>6 DEF Connect, CommandsNeedAuth, LoginOK, AuthOK, StreamOK, TornOK, Up, AUTH, EXECCOMMAND
<1> QED
  BY <1>5, <1>7 DEF Inv

\* The login's answer: read on, give up, or log in and send the reload.
LEMMA RecvAuthInv == ASSUME Inv, RecvAuth PROVE Inv'
<1>1. /\ wire' \in Seq(Packets) /\ Len(wire) >= 1 /\ Len(wire) \in Nat /\ Len(wire') = Len(wire) - 1
      /\ \A i \in 1..Len(wire') : wire'[i] = wire[i + 1] /\ i + 1 \in 1..Len(wire)
      /\ Head(wire) = wire[1]
  BY TailElements DEF RecvAuth, Inv, TypeOK
<1>2. id = 1 /\ ~torn /\ inbox \in Seq(Requests)
  BY DEF RecvAuth, Inv, AuthOK, TypeOK
<1>3. CASE pc = "auth" /\ Head(wire).type = RESPONSE_VALUE
  <2>1. TypeOK'
    BY <1>1, <1>3 DEF RecvAuth, Inv, TypeOK
  <2>2. AuthOK'
    <3>1. pc' = "auth2" /\ UNCHANGED <<id, inbox, torn, authed>>
      BY <1>3 DEF RecvAuth
    <3>2. /\ \A i \in 1..Len(inbox) : inbox[i].type = AUTH
          /\ \A i \in 1..Len(wire) : wire[i].type = AUTH_RESPONSE =>
                 i = Len(wire) /\ inbox = <<>> /\ (wire[i].id # Refused => authed)
      BY DEF RecvAuth, Inv, AuthOK
    <3>3. \A i \in 1..Len(wire') : wire'[i].type = AUTH_RESPONSE =>
            i = Len(wire') /\ inbox = <<>> /\ (wire'[i].id # Refused => authed)
      BY <1>1, <3>2
    <3> QED
      BY <1>2, <3>1, <3>2, <3>3 DEF AuthOK
  <2>3. LoginOK' /\ CommandsNeedAuth' /\ StreamOK' /\ TornOK'
    BY <1>1, <1>2, <1>3 DEF RecvAuth, Inv, LoginOK, CommandsNeedAuth, StreamOK, Up, TornOK
  <2> QED
    BY <2>1, <2>2, <2>3 DEF Inv
<1>4. CASE /\ ~(pc = "auth" /\ Head(wire).type = RESPONSE_VALUE)
           /\ Head(wire).type # AUTH_RESPONSE \/ Head(wire).id = Refused
  <2>1. pc' = "failed" /\ clean' = FALSE /\ UNCHANGED <<id, rcon, inbox, jobs, peer, authed, torn, reply>>
    BY <1>4 DEF RecvAuth
  <2>2. TypeOK'
    BY <1>1, <2>1 DEF Inv, TypeOK
  <2>3. LoginOK'
    BY <2>1, <1>1 DEF Inv, LoginOK, RecvAuth
  <2>4. AuthOK' /\ CommandsNeedAuth' /\ StreamOK' /\ TornOK'
    BY <2>1 DEF Inv, AuthOK, CommandsNeedAuth, StreamOK, Up, TornOK
  <2> QED
    BY <2>2, <2>3, <2>4 DEF Inv
<1>5. CASE /\ ~(pc = "auth" /\ Head(wire).type = RESPONSE_VALUE)
           /\ Head(wire).type = AUTH_RESPONSE /\ Head(wire).id # Refused
  <2>1. rcon' = TRUE /\ SendCommand("reload", "failed") /\ UNCHANGED <<jobs, peer, authed, torn, reply>>
    BY <1>5 DEF RecvAuth, LoggedIn
  <2>2. inbox = <<>> /\ authed /\ Len(wire) = 1
    <3>1. \A i \in 1..Len(wire) : wire[i].type = AUTH_RESPONSE =>
            i = Len(wire) /\ inbox = <<>> /\ (wire[i].id # Refused => authed)
      BY DEF RecvAuth, Inv, AuthOK
    <3>2. 1 \in 1..Len(wire) /\ wire[1].type = AUTH_RESPONSE /\ wire[1].id # Refused
      BY <1>1, <1>5
    <3> QED
      BY <3>1, <3>2
  <2>3. Len(inbox) = 0 /\ Len(wire') = 0
    BY <1>1, <2>2
  <2> QED
    BY <1>1, <1>2, <2>1, <2>2, <2>3, SendInv
<1> QED
  BY <1>3, <1>4, <1>5

\* The agent's next command.
LEMMA CallInv == ASSUME Inv, Call PROVE Inv'
<1>1. Up /\ rcon' = TRUE /\ SendCommand("call", "ready")
      /\ UNCHANGED <<jobs, peer, authed, torn, reply>> /\ wire' = wire
  BY DEF Call, Up, Inv, TypeOK
<1>2. /\ authed /\ id >= 1
      /\ \A i \in 1..Len(inbox) : inbox[i].type = EXECCOMMAND /\ inbox[i].id \in 2..id
      /\ \A i \in 1..Len(wire) : wire[i].type = RESPONSE_VALUE /\ wire[i].id \in 2..id
      /\ \A i, j \in 1..Len(inbox) : i < j => inbox[i].id < inbox[j].id
      /\ \A i, j \in 1..Len(wire) : i < j => wire[i].id < wire[j].id
      /\ \A i \in 1..Len(wire), j \in 1..Len(inbox) : wire[i].id < inbox[j].id
      /\ wire \in Seq(Packets)
  BY <1>1 DEF Inv, StreamOK, TypeOK
<1> QED
  BY <1>1, <1>2, SendInv

\* The packet at the head is skipped or returned; its id is a number.
LEMMA RecvReplyInv == ASSUME Inv, RecvReply PROVE Inv'
<1>1. Up /\ Len(wire) \in Nat /\ Len(wire) >= 1 /\ Head(wire) = wire[1] /\ wire \in Seq(Packets)
  BY TailElements DEF RecvReply, Receiving, Up, Inv, TypeOK
<1>2. wire[1].id \in 2..id /\ wire[1].type = RESPONSE_VALUE
  <2>1. 1 \in 1..Len(wire)
    BY <1>1
  <2> QED
    BY <1>1, <2>1 DEF Inv, StreamOK
<1>3. pc' = "ready" /\ reply' \in Nat
  <2>1. RESPONSE_VALUE # AUTH_RESPONSE
    BY DEF RESPONSE_VALUE, AUTH_RESPONSE
  <2>2. id \in Nat
    BY DEF Inv, TypeOK
  <2> QED
    BY <1>1, <1>2, <2>1, <2>2 DEF RecvReply
<1>4. wire' = SubSeq(wire, 1 + 1, Len(wire)) /\ 1 \in 0..Len(wire)
  BY <1>1 DEF RecvReply
<1>5. UNCHANGED <<id, rcon, inbox, authed>> /\ Up'
  BY <1>3 DEF RecvReply, Up
<1>6. wire' \in Seq(Packets) /\ LoginOK' /\ CommandsNeedAuth' /\ StreamOK'
  BY <1>1, <1>4, <1>5, RestInv
<1>7. TypeOK'
  BY <1>3, <1>6 DEF RecvReply, Inv, TypeOK
<1>8. AuthOK' /\ TornOK'
  BY <1>3 DEF RecvReply, AuthOK, TornOK, Inv
<1> QED
  BY <1>6, <1>7, <1>8 DEF Inv

\* Out of step.
LEMMA RecvTornInv == ASSUME Inv, RecvTorn PROVE Inv'
<1>1. PICK n \in 0..Len(wire) : wire' = SubSeq(wire, n + 1, Len(wire))
  BY DEF RecvTorn
<1>2. UNCHANGED <<id, rcon, inbox, authed, jobs, peer>> /\ Up
  BY DEF RecvTorn, Receiving, Up
<1>3. wire' \in Seq(Packets)
  BY <1>1, SuffixElements DEF Inv, TypeOK
<1>4. ~clean /\ ~clean' /\ torn' \in BOOLEAN /\ clean' \in BOOLEAN /\ reply' \in Nat \cup {Nothing, Garbage}
  <2>1. torn /\ ~clean /\ TypeOK
    BY DEF RecvTorn, Inv, TornOK
  <2>2. clean' = clean \/ clean' = FALSE
    BY DEF RecvTorn
  <2>3. reply' = reply \/ reply' = Garbage
    BY DEF RecvTorn
  <2>4. torn' \in BOOLEAN
    BY DEF RecvTorn
  <2>5. ~clean'
    BY <2>1, <2>2
  <2>6. clean' \in BOOLEAN /\ reply' \in Nat \cup {Nothing, Garbage}
    BY <2>1, <2>2, <2>3 DEF TypeOK
  <2> QED
    BY <2>1, <2>4, <2>5, <2>6
<1>5. pc' \in {"ready", "failed", "reload", "call"}
  BY DEF RecvTorn, AfterError, Receiving
<1>6. TypeOK'
  BY <1>2, <1>3, <1>4, <1>5 DEF Inv, TypeOK
<1>7. TornOK' /\ AuthOK'
  BY <1>4, <1>5 DEF TornOK, AuthOK
<1>8. LoginOK' /\ CommandsNeedAuth'
  <2>1. \A i \in 1..Len(inbox) : inbox[i].type # AUTH
    BY <1>2 DEF Inv, StreamOK, AUTH, EXECCOMMAND
  <2> QED
    BY <1>2, <2>1 DEF LoginOK, CommandsNeedAuth, Inv
<1>9. StreamOK'
  BY <1>1, <1>2, RestInv DEF StreamOK
<1> QED
  BY <1>6, <1>7, <1>8, <1>9 DEF Inv

\* A deadline passes, perhaps in the middle of the next answer.
LEMMA RecvErrorInv == ASSUME Inv, RecvError PROVE Inv'
<1>1. pc' \in {"ready", "failed"} /\ clean' = FALSE /\ (pc' = "ready" => Up)
      /\ UNCHANGED <<jobs, id, rcon, wire, peer, authed, reply>> /\ wire = <<>>
  BY DEF RecvError, AfterError, Up
<1>2. CASE UNCHANGED <<inbox, torn>>
  BY <1>1, <1>2 DEF Inv, TypeOK, LoginOK, CommandsNeedAuth, AuthOK, StreamOK, TornOK, Up
<1>3. CASE peer /\ inbox # <<>> /\ inbox' = Tail(inbox) /\ torn' = TRUE
  <2>1. /\ inbox' \in Seq(Requests) /\ Len(inbox) \in Nat /\ Len(inbox') = Len(inbox) - 1
        /\ \A i \in 1..Len(inbox') : inbox'[i] = inbox[i + 1] /\ i + 1 \in 1..Len(inbox)
    BY <1>3, TailElements DEF Inv, TypeOK
  <2>2. TypeOK'
    BY <1>1, <1>3, <2>1 DEF Inv, TypeOK
  <2>3. LoginOK' /\ CommandsNeedAuth'
    BY <1>1, <2>1 DEF Inv, LoginOK, CommandsNeedAuth
  <2>4. StreamOK'
    BY <1>1, <2>1 DEF Inv, StreamOK, Up
  <2>5. AuthOK' /\ TornOK'
    BY <1>1 DEF AuthOK, TornOK
  <2> QED
    BY <2>2, <2>3, <2>4, <2>5 DEF Inv
<1> QED
  BY <1>2, <1>3 DEF RecvError

\* The server answers a login: accepted exactly when the acceptance is sent.
LEMMA ServeAuthInv == ASSUME Inv, ServeAuth PROVE Inv'
<1>1. /\ inbox \in Seq(Requests) /\ wire \in Seq(Packets) /\ inbox # <<>>
      /\ Head(inbox) = inbox[1] /\ 1 \in 1..Len(inbox) /\ inbox[1].type = AUTH
  BY TailElements DEF ServeAuth, Inv, TypeOK
<1>2. Len(inbox) = 1 /\ inbox[1].id = 1 /\ id = 1 /\ wire = <<>>
  BY <1>1 DEF Inv, LoginOK
<1>3. inbox' = <<>> /\ inbox' \in Seq(Requests) /\ Len(inbox') = 0
  BY <1>1, <1>2 DEF ServeAuth
<1>4. ~Up
  BY <1>2 DEF Inv, StreamOK
<1> DEFINE V == Packet(1, RESPONSE_VALUE)
           A(ok) == Packet(IF ok THEN 1 ELSE Refused, AUTH_RESPONSE)
<1>5. V \in Packets /\ \A ok \in BOOLEAN : A(ok) \in Packets
  BY DEF Packet, Packets
<1>6. PICK sent \in {<<>>, <<V>>}, ok \in BOOLEAN : authed' = ok /\ wire' = Append(sent, A(ok))
  <2>1. Append(wire, Packet(Head(inbox).id, RESPONSE_VALUE)) = <<V>>
    BY <1>1, <1>2
  <2> QED
    BY <1>1, <1>2, <2>1 DEF ServeAuth
<1>7. /\ wire' \in Seq(Packets)
      /\ \A i \in 1..Len(wire') : wire'[i].type = AUTH_RESPONSE =>
            i = Len(wire') /\ (wire'[i].id # Refused => authed')
  <2>1. V.type # AUTH_RESPONSE /\ (A(ok).id # Refused => authed')
    BY <1>6 DEF Packet, RESPONSE_VALUE, AUTH_RESPONSE
  <2>2. A(ok) \in Packets
    BY <1>5
  <2> HIDE DEF V, A
  <2>3. sent \in Seq(Packets) /\ \A i \in 1..Len(sent) : sent[i].type # AUTH_RESPONSE
    <3>1. CASE sent = <<>>
      BY <3>1
    <3>2. CASE sent = <<V>>
      BY <1>5, <2>1, <3>2
    <3> QED
      BY <3>1, <3>2
  <2> QED
    BY <1>6, <2>1, <2>2, <2>3, AppendElements
<1>8. TypeOK'
  BY <1>3, <1>6, <1>7 DEF ServeAuth, Inv, TypeOK
<1>9. AuthOK'
  BY <1>2, <1>3, <1>7 DEF ServeAuth, Inv, AuthOK
<1>10. LoginOK' /\ CommandsNeedAuth' /\ StreamOK' /\ TornOK'
  BY <1>3, <1>4 DEF ServeAuth, Inv, LoginOK, CommandsNeedAuth, StreamOK, Up, TornOK
<1> QED
  BY <1>8, <1>9, <1>10 DEF Inv

\* The server answers a command: its reply is the newest packet.
LEMMA ServeCommandInv == ASSUME Inv, ServeCommand PROVE Inv'
<1>1. /\ inbox \in Seq(Requests) /\ wire \in Seq(Packets) /\ Len(inbox) \in Nat /\ Len(wire) \in Nat
      /\ Head(inbox) = inbox[1] /\ 1 \in 1..Len(inbox) /\ inbox[1] \in Requests
      /\ inbox' \in Seq(Requests) /\ Len(inbox') = Len(inbox) - 1
      /\ \A i \in 1..Len(inbox') : inbox'[i] = inbox[i + 1] /\ i + 1 \in 1..Len(inbox)
  BY TailElements DEF ServeCommand, Inv, TypeOK
<1> DEFINE p == Packet(inbox[1].id, RESPONSE_VALUE)
<1>2. p \in Packets /\ p.type = RESPONSE_VALUE /\ p.id = inbox[1].id /\ inbox[1].type = EXECCOMMAND
  BY <1>1 DEF Packet, Packets, Requests, ServeCommand
<1>3. wire' = Append(wire, p)
  BY <1>1 DEF ServeCommand
<1> HIDE DEF p
<1>4. /\ wire' \in Seq(Packets) /\ Len(wire') = Len(wire) + 1
      /\ \A i \in 1..Len(wire) : wire'[i] = wire[i]
      /\ wire'[Len(wire) + 1] = p
      /\ \A i \in 1..Len(wire') : i \in 1..Len(wire) \/ i = Len(wire) + 1
  BY <1>1, <1>2, <1>3, AppendElements
<1>5. TypeOK'
  BY <1>1, <1>4 DEF ServeCommand, Inv, TypeOK
<1>6. \A i \in 1..Len(inbox) : inbox[i].type # AUTH
  BY <1>1, <1>2 DEF Inv, LoginOK, AUTH, EXECCOMMAND
<1>7. LoginOK' /\ CommandsNeedAuth' /\ TornOK'
  BY <1>1, <1>6 DEF ServeCommand, Inv, LoginOK, CommandsNeedAuth, TornOK
<1>8. AuthOK'
  BY <1>1, <1>6 DEF ServeCommand, Inv, AuthOK
<1>9. StreamOK'
  <2> SUFFICES ASSUME Up PROVE StreamOK'
    BY DEF StreamOK, Up, ServeCommand
  <2>1. /\ \A i \in 1..Len(inbox) : inbox[i].type = EXECCOMMAND /\ inbox[i].id \in 2..id
        /\ \A i \in 1..Len(wire) : wire[i].type = RESPONSE_VALUE /\ wire[i].id \in 2..id
        /\ \A i, j \in 1..Len(inbox) : i < j => inbox[i].id < inbox[j].id
        /\ \A i, j \in 1..Len(wire) : i < j => wire[i].id < wire[j].id
        /\ \A i \in 1..Len(wire), j \in 1..Len(inbox) : wire[i].id < inbox[j].id
        /\ id >= 2 /\ authed /\ rcon
    BY DEF Inv, StreamOK
  <2>2. \A i \in 1..Len(inbox') : inbox'[i].type = EXECCOMMAND /\ inbox'[i].id \in 2..id
    BY <1>1, <2>1
  <2>3. \A i \in 1..Len(wire') : wire'[i].type = RESPONSE_VALUE /\ wire'[i].id \in 2..id
    BY <1>1, <1>2, <1>4, <2>1
  <2>4. \A i, j \in 1..Len(inbox') : i < j => inbox'[i].id < inbox'[j].id
    <3> TAKE i, j \in 1..Len(inbox')
    <3>1. i + 1 \in 1..Len(inbox) /\ j + 1 \in 1..Len(inbox) /\ (i < j => i + 1 < j + 1)
      BY <1>1
    <3> QED
      BY <1>1, <2>1, <3>1
  <2>5. \A i, j \in 1..Len(wire') : i < j => wire'[i].id < wire'[j].id
    <3> SUFFICES ASSUME NEW i \in 1..Len(wire'), NEW j \in 1..Len(wire'), i < j
                 PROVE  wire'[i].id < wire'[j].id
      OBVIOUS
    <3>1. i \in 1..Len(wire) /\ (j \in 1..Len(wire) \/ j = Len(wire) + 1)
      BY <1>4
    <3>2. CASE j \in 1..Len(wire)
      BY <1>4, <2>1, <3>1, <3>2
    <3>3. CASE j = Len(wire) + 1
      <4>1. wire'[i].id = wire[i].id /\ wire'[j].id = inbox[1].id
        BY <1>2, <1>4, <3>1, <3>3
      <4> QED
        BY <1>1, <2>1, <3>1, <4>1
    <3> QED
      BY <3>1, <3>2, <3>3
  <2>6. \A i \in 1..Len(wire'), j \in 1..Len(inbox') : wire'[i].id < inbox'[j].id
    <3>1. \A j \in 1..Len(inbox') : inbox[1].id < inbox'[j].id
      BY <1>1, <2>1
    <3>2. \A i \in 1..Len(wire), j \in 1..Len(inbox') : wire[i].id < inbox'[j].id
      BY <1>1, <2>1
    <3> QED
      BY <1>2, <1>4, <3>1, <3>2
  <2> QED
    BY <2>1, <2>2, <2>3, <2>4, <2>5, <2>6 DEF StreamOK, ServeCommand
<1> QED
  BY <1>5, <1>7, <1>8, <1>9 DEF Inv

\* Neither a crash of the server nor the end of the job disturbs what is in transit.
LEMMA QuietStepsInv == ASSUME Inv, Crash \/ Finalize PROVE Inv'
<1>1. CASE Crash
  <2>1. inbox' = <<>> /\ inbox' \in Seq(Requests) /\ Len(inbox') = 0
    BY <1>1 DEF Crash
  <2>2. TypeOK'
    BY <1>1, <2>1 DEF Crash, Inv, TypeOK
  <2>3. LoginOK' /\ CommandsNeedAuth' /\ AuthOK' /\ StreamOK' /\ TornOK'
    BY <1>1, <2>1 DEF Crash, Inv, LoginOK, CommandsNeedAuth, AuthOK, StreamOK, Up, TornOK
  <2> QED
    BY <2>2, <2>3 DEF Inv
<1>2. CASE Finalize
  <2>1. TypeOK'
    BY <1>2 DEF Finalize, Inv, TypeOK
  <2>2. LoginOK' /\ CommandsNeedAuth' /\ AuthOK' /\ StreamOK' /\ TornOK'
    BY <1>2 DEF Finalize, Inv, LoginOK, CommandsNeedAuth, AuthOK, StreamOK, Up, TornOK
  <2> QED
    BY <2>1, <2>2 DEF Inv
<1> QED
  BY <1>1, <1>2

\* Inv is inductive.
LEMMA NextInv == Inv /\ [Next]_vars => Inv'
<1> SUFFICES ASSUME Inv, [Next]_vars PROVE Inv'
  OBVIOUS
<1>1. CASE UNCHANGED vars
  BY <1>1 DEF vars, Inv, TypeOK, LoginOK, CommandsNeedAuth, AuthOK, StreamOK, Up, TornOK
<1> QED
  BY <1>1, ConnectInv, CallInv, RecvAuthInv, RecvReplyInv, RecvTornInv, RecvErrorInv, ServeAuthInv,
     ServeCommandInv, QuietStepsInv DEF Next, Receive

\* Inv holds in every reachable state.
LEMMA AlwaysInv == Spec => []Inv
  BY InitInv, NextInv, PTL DEF Spec

\* Every variable keeps its type, for any number of jobs and calls.
THEOREM TypeCorrect == Spec => []TypeOK
<1>1. Inv => TypeOK
  BY DEF Inv
<1> QED
  BY <1>1, AlwaysInv, PTL

\* No command is ever in transit on a connection whose login was not accepted.
THEOREM LoginFirst == Spec => []CommandsNeedAuth
<1>1. Inv => CommandsNeedAuth
  BY DEF Inv
<1> QED
  BY <1>1, AlwaysInv, PTL

-----------------------------------------------------------------------------
(* Every step is one of RconCalls, or none. *)

\* Steps that leave the calls as they are.
LEMMA Stutters ==
  ASSUME UNCHANGED <<id, inbox, wire, reply, clean>>, ~Receiving, ~Receiving'
  PROVE  UNCHANGED Calls!vars
  BY DEF Calls!vars, Asked, Pending, Owed

\* send_command begins a call, or fails at once.
LEMMA SendRefines ==
  ASSUME TypeOK, NEW where \in {"reload", "call"}, NEW onError \in {"failed", "ready"},
         SendCommand(where, onError), id >= 1, ~Receiving, reply' = reply,
         \A i \in 1..Len(inbox) : inbox[i].id # id + 1,
         \A i \in 1..Len(wire') : wire'[i].id # id + 1,
         \A n \in 2..id : (\E i \in 1..Len(wire') : wire'[i].id = n)
                          <=> (\E i \in 1..Len(wire) : wire[i].id = n)
  PROVE  Calls!Call \/ Calls!Fail
<1>1. id \in Nat /\ id' = id + 1 /\ Asked' = id + 1 /\ Asked' > Asked /\ Asked \in Nat /\ Pending = Nothing
  BY DEF TypeOK, SendCommand, Asked, Pending
<1>2. CASE Send(id + 1, EXECCOMMAND) /\ peer /\ pc' = where /\ UNCHANGED clean
  <2>1. /\ Len(inbox') = Len(inbox) + 1 /\ Len(inbox) \in Nat
        /\ \A i \in 1..Len(inbox) : inbox'[i] = inbox[i]
        /\ inbox'[Len(inbox) + 1].id = id + 1
    <3>1. Request(id + 1, EXECCOMMAND) \in Requests
      BY <1>1 DEF Request, Requests
    <3> QED
      BY <1>2, <3>1, AppendElements DEF Send, TypeOK, Request
  <2>2. Pending' = id + 1
    BY <1>1, <1>2 DEF Pending, Receiving
  <2>3. \A n \in 2..id : (\E i \in 1..Len(inbox') : inbox'[i].id = n)
                         <=> (\E i \in 1..Len(inbox) : inbox[i].id = n)
    BY <1>1, <2>1
  <2>4. \E i \in 1..Len(inbox') : inbox'[i].id = id + 1
    BY <2>1
  <2>5. Owed' = Owed \cup {id + 1}
    <3>1. \A n \in 2..id : n \in Owed' <=> n \in Owed
      BY <1>1, <2>3 DEF Owed
    <3>2. id + 1 \in Owed'
      BY <1>1, <2>4 DEF Owed
    <3>3. Owed \subseteq 2..id /\ Owed' \subseteq 2..(id + 1)
      BY <1>1 DEF Owed
    <3>4. 2..(id + 1) \subseteq (2..id) \cup {id + 1}
      BY <1>1
    <3> QED
      BY <3>1, <3>2, <3>3, <3>4
  <2> QED
    BY <1>1, <1>2, <2>2, <2>5 DEF Calls!Call
<1>3. CASE ~peer /\ pc' = onError /\ clean' = FALSE /\ UNCHANGED inbox
  <2>1. Pending' = Nothing
    BY <1>3 DEF Pending, Receiving
  <2>2. Owed' \subseteq Owed
    BY <1>1, <1>3 DEF Owed
  <2> QED
    BY <1>1, <1>3, <2>1, <2>2 DEF Calls!Fail
<1> QED
  BY <1>2, <1>3 DEF SendCommand

\* Steps that only read or drop what is in transit: nothing new is owed.
LEMMA OwedShrinks ==
  ASSUME id' = id,
         \A i \in 1..Len(inbox') : \E j \in 1..Len(inbox) : inbox'[i].id = inbox[j].id,
         \A i \in 1..Len(wire') : \E j \in 1..Len(wire) : wire'[i].id = wire[j].id
  PROVE  Owed' \subseteq Owed
  BY DEF Owed

\* Connect forgets the old connection.
LEMMA ConnectRefines == ASSUME Inv, Connect PROVE Calls!Reset
<1>1. Asked' = 0 /\ Pending = Nothing /\ Pending' = Nothing
  BY DEF Connect, Asked, Pending, Receiving
<1>2. Owed' = {}
  BY DEF Connect, Owed
<1> QED
  BY <1>1, <1>2 DEF Calls!Reset, Connect

\* The login is no call; its end is the first call, or a failure.
LEMMA RecvAuthRefines ==
  ASSUME Inv, RecvAuth PROVE Calls!Call \/ Calls!Fail \/ UNCHANGED Calls!vars
<1>1. id = 1 /\ ~Receiving /\ TypeOK
  BY DEF RecvAuth, Inv, AuthOK, Receiving
<1>2. Asked = 0 /\ Pending = Nothing /\ Owed = {}
  BY <1>1 DEF Asked, Pending, Owed
<1>3. CASE pc = "auth" /\ Head(wire).type = RESPONSE_VALUE
  <2>1. pc' = "auth2" /\ UNCHANGED <<id, reply, clean>>
    BY <1>3 DEF RecvAuth
  <2>2. Asked' = 0 /\ Pending' = Nothing /\ Owed' = {}
    BY <1>1, <2>1 DEF Asked, Pending, Owed, Receiving
  <2> QED
    BY <1>2, <2>1, <2>2 DEF Calls!vars
<1>4. CASE /\ ~(pc = "auth" /\ Head(wire).type = RESPONSE_VALUE)
           /\ Head(wire).type # AUTH_RESPONSE \/ Head(wire).id = Refused
  <2>1. pc' = "failed" /\ clean' = FALSE /\ id' = id /\ reply' = reply
    BY <1>4 DEF RecvAuth
  <2>2. Asked' = 0 /\ Pending' = Nothing /\ Owed' = {}
    BY <1>1, <2>1 DEF Asked, Pending, Owed, Receiving
  <2> QED
    BY <1>2, <2>1, <2>2 DEF Calls!Fail
<1>5. CASE /\ ~(pc = "auth" /\ Head(wire).type = RESPONSE_VALUE)
           /\ Head(wire).type = AUTH_RESPONSE /\ Head(wire).id # Refused
  <2>1. SendCommand("reload", "failed") /\ reply' = reply
    BY <1>5 DEF RecvAuth, LoggedIn
  <2>2. /\ wire' \in Seq(Packets) /\ Len(wire) >= 1 /\ Len(wire) \in Nat /\ Len(wire') = Len(wire) - 1
        /\ Head(wire) = wire[1] /\ 1 \in 1..Len(wire)
    BY TailElements DEF RecvAuth, Inv, TypeOK
  <2>3. inbox = <<>> /\ Len(wire) = 1
    <3>1. \A i \in 1..Len(wire) : wire[i].type = AUTH_RESPONSE => i = Len(wire) /\ inbox = <<>>
      BY DEF RecvAuth, Inv, AuthOK
    <3> QED
      BY <1>5, <2>2, <3>1
  <2>4. Len(inbox) = 0 /\ Len(wire') = 0
    BY <2>2, <2>3
  <2> QED
    BY <1>1, <2>1, <2>4, SendRefines
<1> QED
  BY <1>3, <1>4, <1>5

\* The agent's command is a call.
LEMMA CallRefines == ASSUME Inv, Call PROVE Calls!Call \/ Calls!Fail
<1>1. ~Receiving /\ SendCommand("call", "ready") /\ reply' = reply /\ wire' = wire /\ TypeOK
  BY DEF Call, Receiving, Inv
<1>2. /\ id >= 1 /\ id \in Nat
      /\ \A i \in 1..Len(inbox) : inbox[i].id \in 2..id
      /\ \A i \in 1..Len(wire) : wire[i].id \in 2..id
  BY DEF Call, Inv, StreamOK, Up, TypeOK
<1> QED
  BY <1>1, <1>2, SendRefines

\* A returned packet was owed, and whatever is still owed was asked later.
LEMMA RecvReplyRefines == ASSUME Inv, RecvReply PROVE Calls!Return
<1>1. /\ wire' \in Seq(Packets) /\ Len(wire) >= 1 /\ Len(wire) \in Nat /\ Len(wire') = Len(wire) - 1
      /\ \A i \in 1..Len(wire') : wire'[i] = wire[i + 1] /\ i + 1 \in 1..Len(wire)
      /\ Head(wire) = wire[1] /\ 1 \in 1..Len(wire)
  BY TailElements DEF RecvReply, Inv, TypeOK
<1>2. /\ Up /\ id \in Nat /\ id >= 2
      /\ \A i \in 1..Len(wire) : wire[i].type = RESPONSE_VALUE /\ wire[i].id \in 2..id
      /\ \A i, j \in 1..Len(wire) : i < j => wire[i].id < wire[j].id
      /\ \A i \in 1..Len(wire), j \in 1..Len(inbox) : wire[i].id < inbox[j].id
  BY DEF RecvReply, Receiving, Up, Inv, StreamOK, TypeOK
<1>3. pc' = "ready" /\ reply' = wire[1].id
  BY <1>1, <1>2 DEF RecvReply, RESPONSE_VALUE, AUTH_RESPONSE
<1>4. reply' \in Owed
  BY <1>1, <1>2, <1>3 DEF Owed
<1>5. Owed' \subseteq {n \in Owed : n > reply'}
  <2>1. inbox' = inbox /\ id' = id
    BY DEF RecvReply
  <2>2. Owed' \subseteq Owed
    <3>1. \A i \in 1..Len(wire') : \E j \in 1..Len(wire) : wire'[i].id = wire[j].id
      BY <1>1
    <3> QED
      BY <2>1, <3>1, OwedShrinks
  <2>3. \A i \in 1..Len(wire') : wire'[i].id > wire[1].id
    <3> TAKE i \in 1..Len(wire')
    <3>1. i + 1 \in 1..Len(wire) /\ 1 < i + 1 /\ wire'[i] = wire[i + 1]
      BY <1>1
    <3>2. wire[1].id < wire[i + 1].id
      BY <1>1, <1>2, <3>1
    <3>3. wire[1].id \in Nat /\ wire[i + 1].id \in Nat
      BY <1>1, <1>2, <3>1
    <3> QED
      BY <3>1, <3>2, <3>3
  <2>4. \A n \in Owed' : n > wire[1].id
    <3> SUFFICES ASSUME NEW n \in Owed' PROVE n > wire[1].id
      OBVIOUS
    <3>1. n \in 2..id /\ wire[1].id \in 2..id
      BY <1>1, <1>2, <2>1 DEF Owed
    <3>2. CASE \E i \in 1..Len(inbox) : inbox[i].id = n
      BY <1>1, <1>2, <3>1, <3>2
    <3>3. CASE \E i \in 1..Len(wire') : wire'[i].id = n
      BY <2>3, <3>3
    <3> QED
      BY <2>1, <3>2, <3>3 DEF Owed
  <2> QED
    BY <1>3, <2>2, <2>4
<1>6. Pending # Nothing /\ Pending' = Nothing /\ Asked' = Asked /\ clean' = clean
  BY <1>2, <1>3, RconAssumption DEF RecvReply, Receiving, Pending, Asked
<1> QED
  BY <1>4, <1>5, <1>6 DEF Calls!Return

\* Out of step, a call may return a slice of text: some call had failed before.
LEMMA RecvTornRefines ==
  ASSUME Inv, RecvTorn PROVE Calls!Return \/ Calls!Fail \/ Calls!Lose
<1>1. PICK n \in 0..Len(wire) : wire' = SubSeq(wire, n + 1, Len(wire))
  BY DEF RecvTorn
<1>2. UNCHANGED <<id, inbox>> /\ Receiving /\ ~clean
  BY DEF RecvTorn, Inv, TornOK
<1>3. Owed' \subseteq Owed
  <2>1. \A i \in 1..Len(wire') : \E j \in 1..Len(wire) : wire'[i].id = wire[j].id
    BY <1>1, SuffixElements DEF Inv, TypeOK
  <2> QED
    BY <1>2, <2>1, OwedShrinks
<1>4. Asked' = Asked /\ Asked \in Nat /\ id \in Nat /\ Pending # Nothing
  BY <1>2, RconAssumption DEF Asked, Pending, Inv, TypeOK
<1>5. CASE pc' = "ready" /\ reply' = Garbage /\ UNCHANGED clean
  <2>1. Pending' = Nothing
    BY <1>5 DEF Pending, Receiving
  <2> QED
    BY <1>2, <1>3, <1>4, <1>5, <2>1 DEF Calls!Return
<1>6. CASE pc' = AfterError /\ clean' = FALSE /\ UNCHANGED reply
  <2>1. Pending' = Nothing
    BY <1>6 DEF Pending, Receiving, AfterError
  <2> QED
    BY <1>3, <1>4, <1>6, <2>1 DEF Calls!Fail
<1>7. CASE UNCHANGED <<pc, reply, clean>>
  <2>1. Pending' = Pending
    BY <1>2, <1>7 DEF Pending, Receiving
  <2> QED
    BY <1>3, <1>4, <1>7, <2>1 DEF Calls!Lose
<1> QED
  BY <1>5, <1>6, <1>7 DEF RecvTorn

\* A receive that fails ends the call; a torn answer is lost with it.
LEMMA RecvErrorRefines == ASSUME Inv, RecvError PROVE Calls!Fail
<1>1. pc' \in {"ready", "failed"} /\ clean' = FALSE /\ UNCHANGED <<id, wire, reply>>
  BY DEF RecvError, AfterError
<1>2. \A i \in 1..Len(inbox') : \E j \in 1..Len(inbox) : inbox'[i].id = inbox[j].id
  <2>1. CASE inbox' = inbox
    BY <2>1
  <2>2. CASE inbox # <<>> /\ inbox' = Tail(inbox)
    BY <2>2, TailElements DEF Inv, TypeOK
  <2> QED
    BY <2>1, <2>2 DEF RecvError
<1>3. Owed' \subseteq Owed
  BY <1>1, <1>2, OwedShrinks
<1>4. Asked' = Asked /\ Asked \in Nat /\ Pending' = Nothing
  BY <1>1 DEF Asked, Pending, Receiving, Inv, TypeOK
<1> QED
  BY <1>1, <1>3, <1>4 DEF Calls!Fail

\* Serving moves an answer from one side to the other.
LEMMA ServeRefines == ASSUME Inv, ServeAuth \/ ServeCommand PROVE UNCHANGED Calls!vars
<1>1. UNCHANGED <<pc, id, reply, clean>> /\ Asked' = Asked /\ Pending' = Pending
  BY DEF ServeAuth, ServeCommand, Asked, Pending, Receiving
<1>2. Owed' = Owed
  <2>1. CASE ServeAuth
    <3>1. id = 1
      BY <2>1, TailElements DEF ServeAuth, Inv, LoginOK, TypeOK
    <3> QED
      BY <1>1, <3>1 DEF Owed
  <2>2. CASE ServeCommand
    <3>1. /\ Len(inbox) \in Nat /\ Len(wire) \in Nat /\ Len(inbox) >= 1
          /\ Head(inbox) = inbox[1] /\ 1 \in 1..Len(inbox) /\ inbox[1] \in Requests
          /\ Len(inbox') = Len(inbox) - 1
          /\ \A i \in 1..Len(inbox') : inbox'[i] = inbox[i + 1] /\ i + 1 \in 1..Len(inbox)
      BY <2>2, TailElements DEF ServeCommand, Inv, TypeOK
    <3>2. Packet(inbox[1].id, RESPONSE_VALUE) \in Packets
      BY <3>1 DEF Packet, Packets, Requests
    <3>3. /\ Len(wire') = Len(wire) + 1
          /\ \A i \in 1..Len(wire) : wire'[i] = wire[i]
          /\ wire'[Len(wire) + 1].id = inbox[1].id
      BY <2>2, <3>1, <3>2, AppendElements DEF ServeCommand, Inv, TypeOK, Packet
    <3>4. \A n \in Nat : (\E i \in 1..Len(inbox) : inbox[i].id = n)
             <=> (inbox[1].id = n \/ \E i \in 1..Len(inbox') : inbox'[i].id = n)
      <4> TAKE n \in Nat
      <4>1. ASSUME NEW i \in 1..Len(inbox), inbox[i].id = n, i # 1
            PROVE  \E k \in 1..Len(inbox') : inbox'[k].id = n
        <5>1. i - 1 \in 1..Len(inbox') /\ (i - 1) + 1 = i
          BY <3>1, <4>1
        <5> QED
          BY <3>1, <4>1, <5>1
      <4> QED
        BY <3>1, <4>1
    <3>5. \A n \in Nat : (\E i \in 1..Len(wire') : wire'[i].id = n)
             <=> (inbox[1].id = n \/ \E i \in 1..Len(wire) : wire[i].id = n)
      <4> TAKE n \in Nat
      <4>1. Len(wire) + 1 \in 1..Len(wire') /\ \A i \in 1..Len(wire) : i \in 1..Len(wire')
        BY <3>1, <3>3
      <4>2. \A i \in 1..Len(wire') : i \in 1..Len(wire) \/ i = Len(wire) + 1
        BY <3>1, <3>3
      <4> QED
        BY <3>3, <4>1, <4>2
    <3>6. id' = id /\ id \in Nat
      BY <1>1 DEF Inv, TypeOK
    <3> QED
      BY <3>4, <3>5, <3>6 DEF Owed
  <2> QED
    BY <2>1, <2>2
<1> QED
  BY <1>1, <1>2 DEF Calls!vars

\* A crash loses what was not served; the end of the job changes no call.
LEMMA QuietStepsRefine ==
  ASSUME Inv, Crash \/ Finalize PROVE Calls!Lose \/ UNCHANGED Calls!vars
<1>1. CASE Crash
  <2>1. Len(inbox') = 0 /\ UNCHANGED <<pc, id, wire, reply, clean>>
    BY <1>1 DEF Crash
  <2>2. Owed' \subseteq Owed
    BY <2>1, OwedShrinks
  <2>3. Asked' = Asked /\ Pending' = Pending
    BY <2>1 DEF Asked, Pending, Receiving
  <2> QED
    BY <2>1, <2>2, <2>3 DEF Calls!Lose
<1>2. CASE Finalize
  BY <1>2, Stutters DEF Finalize, Receiving
<1> QED
  BY <1>1, <1>2

\* Every step of a connection is one its callers may rely on.
LEMMA StepRefines == Inv /\ [Next]_vars => [Calls!Next]_(Calls!vars)
<1> SUFFICES ASSUME Inv, [Next]_vars PROVE [Calls!Next]_(Calls!vars)
  OBVIOUS
<1>1. CASE UNCHANGED vars
  BY <1>1 DEF vars, Calls!vars, Asked, Pending, Owed, Receiving
<1> QED
  BY <1>1, ConnectRefines, CallRefines, RecvAuthRefines, RecvReplyRefines, RecvTornRefines,
     RecvErrorRefines, ServeRefines, QuietStepsRefine DEF Next, Receive, Calls!Next

\* At first there is no call.
LEMMA InitRefines == Init => Calls!Init
  BY DEF Init, Calls!Init, Asked, Pending, Owed, Receiving

\* The connection keeps the promise of RconCalls, for any number of jobs and calls.
THEOREM KeepsPromise == Spec => Promise
  BY InitRefines, StepRefines, AlwaysInv, PTL DEF Spec, Promise, Calls!Spec

-----------------------------------------------------------------------------
(* Before the first failure. *)

\* Nothing but the call under way is owed.
CleanOK == clean => \A n \in Owed : n = Pending

\* Whatever the callers see happen keeps it so.
LEMMA CleanStep == Inv /\ CleanOK /\ [Calls!Next]_(Calls!vars) => CleanOK'
<1> SUFFICES ASSUME Inv, CleanOK, [Calls!Next]_(Calls!vars) PROVE CleanOK'
  OBVIOUS
<1>1. id \in Nat /\ Owed \subseteq Nat /\ (Pending = Nothing => Pending \notin Nat)
  BY RconAssumption DEF Inv, TypeOK, Owed
<1>2. CASE Calls!Call
  BY <1>1, <1>2 DEF Calls!Call, CleanOK
<1>3. CASE Calls!Return
  <2>1. clean' = clean
    BY <1>3 DEF Calls!Return
  <2>2. ASSUME clean PROVE Owed' = {}
    <3>1. reply' \in Owed /\ Owed' \subseteq {n \in Owed : n > reply'}
      BY <1>3, <2>2 DEF Calls!Return
    <3>2. \A n \in Owed : n = Pending /\ n \in Nat
      BY <1>1, <2>2 DEF CleanOK
    <3> QED
      BY <3>1, <3>2
  <2> QED
    BY <2>1, <2>2 DEF CleanOK
<1>4. CASE Calls!Fail
  BY <1>4 DEF Calls!Fail, CleanOK
<1>5. CASE Calls!Lose
  BY <1>5 DEF Calls!Lose, CleanOK
<1>6. CASE Calls!Reset
  BY <1>6 DEF Calls!Reset, CleanOK
<1>7. CASE UNCHANGED Calls!vars
  BY <1>7 DEF Calls!vars, CleanOK
<1> QED
  BY <1>2, <1>3, <1>4, <1>5, <1>6, <1>7 DEF Calls!Next

\* A call returns its own reply as long as no receive of its connection has failed.
THEOREM OwnReplyFirst == Spec => OwnReply
<1>1. Init => CleanOK
  BY DEF Init, CleanOK, Owed
<1>2. Inv /\ CleanOK /\ [Next]_vars => CleanOK'
  BY StepRefines, CleanStep
<1>3. Inv /\ CleanOK /\ [Next]_vars =>
        [Pending # Nothing /\ Pending' = Nothing /\ clean' => reply' = Pending]_(Calls!vars)
  <2> SUFFICES ASSUME Inv, CleanOK, [Next]_vars, ~UNCHANGED Calls!vars,
                      Pending # Nothing, Pending' = Nothing, clean'
               PROVE  reply' = Pending
    OBVIOUS
  <2>1. Calls!Next
    BY StepRefines
  <2>2. CASE Calls!Return
    BY <2>2 DEF Calls!Return, CleanOK
  <2>3. CASE Calls!Call \/ Calls!Fail \/ Calls!Lose \/ Calls!Reset
    BY <2>3 DEF Calls!Call, Calls!Fail, Calls!Lose, Calls!Reset
  <2> QED
    BY <2>1, <2>2, <2>3 DEF Calls!Next
<1> QED
  BY <1>1, <1>2, <1>3, AlwaysInv, PTL DEF Spec, OwnReply, Calls!OwnReplyWhileClean
===============================================================================
