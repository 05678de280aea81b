--------------------------- MODULE AccountPromise ---------------------------
(***************************************************************************)
(* What the /me requests of one user promise: a request takes effect once  *)
(* and whole, or not at all, and leaves undone only what somebody had done *)
(* while it ran.                                                           *)
(***************************************************************************)
CONSTANTS
  Requests,  \* requests of the user
  NoRow,     \* an absent user row, preference row or watchlist item
  NoValue    \* the nickname of a token without one

VARIABLES
  request,   \* request[r]: its kind, the nickname of its token, its value and items
  status,    \* status[r] \in {"new", "open", "applied", "answered", "failed"}
  profile,   \* the nickname of the user row
  prefs,     \* the preferences
  watch,     \* watch[t]: the item of ticker t
  met        \* met[r]: targets that were as r wants them at some time since it began

account == <<profile, prefs, watch>>
vars == <<request, status, account, met>>

Kind(r) == request[r].kind
Named == DOMAIN watch

\* What request r is about: its items, or the whole account.
Targets(r) ==
  CASE Kind(r) \in {"add", "memo", "remove", "import"} ->
         {request[r].items[k] : k \in DOMAIN request[r].items}
    [] Kind(r) \in {"rename", "prefs"} -> {"account"}
    [] OTHER -> {}

\* The target is as the request wants it.
AsWanted(r, t) ==
  CASE Kind(r) = "rename" -> profile = request[r].value
    [] Kind(r) = "prefs" -> prefs = request[r].value
    [] Kind(r) \in {"add", "import"} -> watch[t] # NoRow
    [] Kind(r) = "memo" -> watch[t] # NoRow /\ watch[t].memo = request[r].value
    [] OTHER -> watch[t] = NoRow

Met(r) == {t \in Targets(r) : AsWanted(r, t)}

Remember ==
  met' = [r \in Requests |-> IF status'[r] = "new" THEN {} ELSE met[r] \cup Met(r)']

Init ==
  /\ status = [r \in Requests |-> "new"]
  /\ met = [r \in Requests |-> {}]

Begin(r) ==
  /\ status[r] = "new"
  /\ status' = [status EXCEPT ![r] = "open"]
  /\ UNCHANGED account

\* The token's nickname is taken over; without one, only a new user has none.
Adopt(r) ==
  /\ status[r] = "open"
  /\ request[r].claim = NoValue => profile = NoRow
  /\ profile' = request[r].claim
  /\ UNCHANGED <<status, prefs, watch>>

\* The request sets what it is about, or the part of it that nobody else has set.
Apply(r) ==
  /\ status[r] = "open"
  /\ \E done \in {"applied", "answered"} : status' = [status EXCEPT ![r] = done]
  /\ \E todo \in SUBSET Targets(r) :
       /\ Targets(r) \ met[r] \subseteq todo
       /\ profile' = IF Kind(r) = "rename" /\ todo # {} THEN request[r].value ELSE profile
       /\ prefs' = IF Kind(r) = "prefs" /\ todo # {} THEN request[r].value ELSE prefs
       /\ Kind(r) \in {"add", "import"} => \A t \in todo : watch[t] = NoRow
       /\ Kind(r) = "memo" => \A t \in todo : watch[t] # NoRow
       /\ watch' = [t \in Named |->
            IF t \notin todo THEN watch[t]
            ELSE CASE Kind(r) \in {"add", "import"} -> [by |-> r, memo |-> request[r].value]
                   [] Kind(r) = "memo" -> [watch[t] EXCEPT !.memo = request[r].value]
                   [] OTHER -> NoRow]

Answer(r) ==
  /\ status[r] = "applied"
  /\ status' = [status EXCEPT ![r] = "answered"]
  /\ UNCHANGED account

\* A request can fail after it has taken effect, when its answer is not read back.
Fail(r) ==
  /\ status[r] \in {"open", "applied"}
  /\ status' = [status EXCEPT ![r] = "failed"]
  /\ UNCHANGED account

Step(r) == Begin(r) \/ Adopt(r) \/ Apply(r) \/ Answer(r) \/ Fail(r)

Next == (\E r \in Requests : Step(r)) /\ UNCHANGED request /\ Remember

Spec == Init /\ [][Next]_vars
=============================================================================
