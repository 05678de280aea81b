----------------------------- MODULE ChatPromise -----------------------------
(***************************************************************************)
(* What POST /chat and POST /me/chat-sessions promise: a request ends once,*)
(* an exchange is stored whole and in a session of its user, and a user    *)
(* who is answered finds the exchange there.                               *)
(***************************************************************************)
CONSTANTS
  Calls,      \* requests
  Sessions,   \* session ids, those given to requests that send none included
  NoSession,  \* the session id of a request that sends none
  Guest,      \* the user of a request without credentials
  Nobody      \* the owner of a session that does not exist

VARIABLES
  request,   \* request[r]: who asks, in which session, and for a chat or a session
  status,    \* status[r] \in {"open", "answered", "failed"}
  owner,     \* owner[s]: the user whose session s is
  messages   \* messages[s]: pairs of a request and a role

vars == <<request, status, owner, messages>>

Target(r) == IF request[r].session = NoSession THEN r ELSE request[r].session
Exchange(r) == {r} \X {"user", "assistant"}

Init ==
  /\ status = [r \in Calls |-> "open"]
  /\ owner = [s \in Sessions |-> Nobody]
  /\ messages = [s \in Sessions |-> {}]

\* The exchange is stored, its session being created on the way or found.
Store(r) ==
  /\ status[r] = "open" /\ request[r].chats /\ request[r].user # Guest
  /\ owner[Target(r)] \in {request[r].user, Nobody}
  /\ Exchange(r) \cap messages[Target(r)] = {}
  /\ owner' = [owner EXCEPT ![Target(r)] = request[r].user]
  /\ messages' = [messages EXCEPT ![Target(r)] = @ \cup Exchange(r)]
  /\ UNCHANGED <<request, status>>

\* A session is created for later exchanges, which only one request can do.
Create(r) ==
  /\ status[r] = "open" /\ ~request[r].chats
  /\ owner[Target(r)] = Nobody
  /\ owner' = [owner EXCEPT ![Target(r)] = request[r].user]
  /\ status' = [status EXCEPT ![r] = "answered"]
  /\ UNCHANGED <<request, messages>>

Answer(r) ==
  /\ status[r] = "open" /\ request[r].chats
  /\ request[r].user # Guest => Exchange(r) \subseteq messages[Target(r)]
  /\ status' = [status EXCEPT ![r] = "answered"]
  /\ UNCHANGED <<request, owner, messages>>

Fail(r) ==
  /\ status[r] = "open"
  /\ status' = [status EXCEPT ![r] = "failed"]
  /\ UNCHANGED <<request, owner, messages>>

Next == \E r \in Calls : Store(r) \/ Create(r) \/ Answer(r) \/ Fail(r)

Spec == Init /\ [][Next]_vars
=============================================================================
