------------------------------- MODULE RconCalls -------------------------------
(***************************************************************************)
(* What a caller of one RCON connection may rely on.  Calls are numbered   *)
(* in the order they are made.  A call ends with a reply or fails.  The    *)
(* reply is its own or one owed to an earlier call that failed; replies    *)
(* are never repeated and never go backwards.  Once a call has failed the  *)
(* stream may be out of step, and text that is no reply at all may come.   *)
(***************************************************************************)
EXTENDS Naturals

CONSTANTS Nothing,  \* no call pending, no reply yet
          Garbage   \* a body cut out of the middle of the stream

VARIABLES asked,    \* the number of the last call
          pending,  \* the call under way
          owed,     \* calls whose reply may still come
          reply,    \* what the last call returned
          clean     \* no call has failed on this connection

vars == <<asked, pending, owed, reply, clean>>

Init ==
  /\ asked = 0
  /\ pending = Nothing
  /\ owed = {}
  /\ reply = Nothing
  /\ clean = TRUE

Call ==
  /\ pending = Nothing
  /\ asked' \in Nat /\ asked' > asked
  /\ pending' = asked'
  /\ owed' = owed \cup {asked'}
  /\ UNCHANGED <<reply, clean>>

Return ==
  /\ pending # Nothing
  /\ pending' = Nothing
  /\ \/ /\ reply' \in owed
        /\ owed' \subseteq {n \in owed : n > reply'}
     \/ ~clean /\ reply' = Garbage /\ owed' \subseteq owed
  /\ UNCHANGED <<asked, clean>>

\* The call ends in an error; it may even fail to be sent.
Fail ==
  /\ asked' \in Nat /\ asked' >= asked
  /\ pending' = Nothing
  /\ owed' \subseteq owed
  /\ clean' = FALSE
  /\ UNCHANGED reply

\* Replies that will never come: the server is gone, or the stream is torn.
Lose ==
  /\ owed' \subseteq owed
  /\ UNCHANGED <<asked, pending, reply, clean>>

\* A new connection: nothing of the old one is ever heard again.
Reset ==
  /\ pending = Nothing
  /\ asked' = 0
  /\ pending' = Nothing
  /\ owed' = {}
  /\ reply' = Nothing
  /\ clean' = TRUE

Next == Call \/ Return \/ Fail \/ Lose \/ Reset

Spec == Init /\ [][Next]_vars

\* Before the first failure a call returns its own reply.
OwnReplyWhileClean ==
  [][pending # Nothing /\ pending' = Nothing /\ clean' => reply' = pending]_vars
===============================================================================
