------------------------------ MODULE Accounts ------------------------------
(***************************************************************************)
(* The /me requests of one user: the user row made or brought up to date   *)
(* from the token, then the profile, the preferences or the watchlist.     *)
(* Rows of different users never meet, so that one user stands for all.    *)
(* Of the profile only the nickname is kept, which both the token and      *)
(* PATCH /me set; a value, a memo and a nickname are what it is set to.    *)
(***************************************************************************)
EXTENDS Integers, SequencesExt

CONSTANTS
  Requests,  \* requests of the user
  Tickers,   \* tickers a request may name
  Stocks,    \* those with a stocks row
  Values,    \* nicknames, preferences and memos
  Old,       \* the nickname and the memos at the start
  NoValue,   \* the nickname of a token without one
  NoRow,     \* an absent row
  Earlier,   \* who inserted the items that are there at the start
  Listed,    \* their tickers
  Loads      \* what the requests may ask

Kinds == {"read", "rename", "prefs", "add", "memo", "remove", "import"}

Input == [kind : Kinds, claim : Values \cup {NoValue}, valid : BOOLEAN,
          value : Values, items : Seq(Tickers)]

\* The body is validated, and a path names one ticker.
ASSUME LoadsAssumption ==
  /\ Loads \subseteq [Requests -> Input]
  /\ \A load \in Loads, r \in Requests :
       load[r].kind \in {"add", "memo", "remove"} => Len(load[r].items) = 1

ASSUME NamesAssumption ==
  /\ Old \in Values /\ Stocks \subseteq Tickers /\ Listed \subseteq Tickers
  /\ Earlier \notin Requests /\ NoRow \notin Values \cup {NoValue} /\ NoValue \notin Values
  /\ NoRow \notin [by : Requests \cup {Earlier}, memo : Values]
  /\ "account" \notin Tickers

VARIABLES
  request,  \* request[r]: its kind, token and body
  pc,       \* pc[r]: the statement it executes pos, or how it ended
  profile,  \* the nickname of the committed user row
  prefs,    \* the committed preferences
  watch,    \* watch[t]: who inserted the committed item of t, and its memo
  read,     \* read[r]: the nickname or the item its session has loaded
  known,    \* known[r]: tickers an import has seen in the list or in its own items
  pos,      \* pos[r]: the import's position in its items
  pending,  \* pending[r]: tickers the import has inserted and not committed
  met       \* met[r]: history: targets that were as r wants them since it began

account == <<profile, prefs, watch>>
upload == <<known, pos, pending>>
vars == <<request, pc, account, read, upload, met>>

Ended == {"answered", "refused", "error", "dead"}

Kind(r) == request[r].kind
Claim(r) == request[r].claim
Value(r) == request[r].value
Items(r) == request[r].items
Ticker(r) == Head(Items(r))

Row == [by : Requests \cup {Earlier}, memo : Values]
Item(r) == [by |-> r, memo |-> Value(r)]
Present == {t \in Tickers : watch[t] # NoRow}

\* The history of what a request wants, for the abstract account.
Targets(r) ==
  CASE Kind(r) \in {"add", "memo", "remove", "import"} -> ToSet(Items(r))
    [] Kind(r) \in {"rename", "prefs"} -> {"account"}
    [] OTHER -> {}

AsWanted(r, t) ==
  CASE Kind(r) = "rename" -> profile = Value(r)
    [] Kind(r) = "prefs" -> prefs = Value(r)
    [] Kind(r) \in {"add", "import"} -> watch[t] # NoRow
    [] Kind(r) = "memo" -> watch[t] # NoRow /\ watch[t].memo = Value(r)
    [] OTHER -> watch[t] = NoRow

Met(r) == {t \in Targets(r) : AsWanted(r, t)}

Remember ==
  met' = [r \in Requests |-> IF pc'[r] = "idle" THEN {} ELSE met[r] \cup Met(r)']

-----------------------------------------------------------------------------

Init ==
  /\ request \in Loads
  /\ pc = [r \in Requests |-> "idle"]
  /\ profile \in {NoRow, Old}
  /\ prefs = NoRow
  /\ watch = [t \in Tickers |->
       IF profile # NoRow /\ t \in Listed THEN [by |-> Earlier, memo |-> Old] ELSE NoRow]
  /\ read = [r \in Requests |-> NoRow]
  /\ known = [r \in Requests |-> {}]
  /\ pos = [r \in Requests |-> 1]
  /\ pending = [r \in Requests |-> {}]
  /\ met = [r \in Requests |-> {}]

At(r, label) == pc[r] = label
GoTo(r, label) == pc' = [pc EXCEPT ![r] = label]
Load(r, row) == read' = [read EXCEPT ![r] = row]

-----------------------------------------------------------------------------
\* The user row.

\* The user row is there, and the token's nickname is not its own.
Outdated(r) == Claim(r) # NoValue /\ Claim(r) # profile

SelectUser(r, whenAbsent) ==
  /\ Load(r, profile)
  /\ GoTo(r, IF profile = NoRow THEN whenAbsent ELSE IF Outdated(r) THEN "sync" ELSE "begin")
  /\ UNCHANGED <<account, upload>>

Authenticate(r) == At(r, "idle") /\ SelectUser(r, "register")

\* Mutation: the loser of two registrations gives up.
MutRegister(r) ==
  /\ At(r, "register")
  /\ IF profile = NoRow THEN profile' = Claim(r) /\ GoTo(r, "reload")
                        ELSE UNCHANGED profile /\ GoTo(r, "error")
  /\ UNCHANGED <<prefs, watch, read, upload>>

Register(r) ==
  /\ At(r, "register")
  /\ IF profile = NoRow THEN profile' = Claim(r) /\ GoTo(r, "reload")
                        ELSE UNCHANGED profile /\ GoTo(r, "reselect user")
  /\ UNCHANGED <<prefs, watch, read, upload>>

ReselectUser(r) == At(r, "reselect user") /\ SelectUser(r, "error")

Sync(r) ==
  /\ At(r, "sync")
  /\ profile' = Claim(r)
  /\ GoTo(r, "reload")
  /\ UNCHANGED <<prefs, watch, read, upload>>

Reload(r) ==
  /\ At(r, "reload")
  /\ Load(r, profile)
  /\ GoTo(r, "begin")
  /\ UNCHANGED <<account, upload>>

-----------------------------------------------------------------------------
\* The handlers' first statement.

\* A GET, or a body or ticker that is refused.
Finish(r) ==
  /\ At(r, "begin")
  /\ \/ Kind(r) = "read" /\ GoTo(r, "answered")
     \/ Kind(r) # "read" /\ ~request[r].valid /\ GoTo(r, "refused")
  /\ UNCHANGED <<account, read, upload>>

Handles(r, kind) == At(r, "begin") /\ Kind(r) = kind /\ request[r].valid

\* A nickname that is already loaded is not written.
Rename(r) ==
  /\ Handles(r, "rename")
  /\ profile' = IF read[r] = Value(r) THEN profile ELSE Value(r)
  /\ GoTo(r, "answered")
  /\ UNCHANGED <<prefs, watch, read, upload>>

FindPrefs(r) ==
  /\ Handles(r, "prefs")
  /\ GoTo(r, CASE prefs = NoRow -> "insert prefs"
               [] prefs = Value(r) -> "answered"
               [] OTHER -> "update prefs")
  /\ UNCHANGED <<account, read, upload>>

\* Nothing recovers the loser of two first inserts.
InsertPrefs(r) ==
  /\ At(r, "insert prefs")
  /\ IF prefs = NoRow THEN prefs' = Value(r) /\ GoTo(r, "answered")
                      ELSE UNCHANGED prefs /\ GoTo(r, "error")
  /\ UNCHANGED <<profile, watch, read, upload>>

UpdatePrefs(r) ==
  /\ At(r, "update prefs")
  /\ prefs' = Value(r)
  /\ GoTo(r, "answered")
  /\ UNCHANGED <<profile, watch, read, upload>>

FindForAdd(r) ==
  /\ Handles(r, "add")
  /\ GoTo(r, CASE Ticker(r) \notin Stocks -> "refused"
               [] Ticker(r) \in Stocks \cap Present -> "answered"
               [] OTHER -> "insert")
  /\ UNCHANGED <<account, read, upload>>

FindForMemo(r) ==
  /\ Handles(r, "memo")
  /\ Load(r, watch[Ticker(r)])
  /\ GoTo(r, CASE Ticker(r) \notin Present -> "refused"
               [] Ticker(r) \in Present /\ watch[Ticker(r)].memo = Value(r) -> "refresh"
               [] OTHER -> "update memo")
  /\ UNCHANGED <<account, upload>>

FindForRemove(r) ==
  /\ Handles(r, "remove")
  /\ Load(r, watch[Ticker(r)])
  /\ GoTo(r, IF Ticker(r) \in Present THEN "delete" ELSE "answered")
  /\ UNCHANGED <<account, upload>>

BeginImport(r) ==
  /\ Handles(r, "import")
  /\ known' = [known EXCEPT ![r] = Present]
  /\ GoTo(r, "import")
  /\ UNCHANGED <<account, read, pos, pending>>

-----------------------------------------------------------------------------
\* One item.

Put(t, row) == watch' = [watch EXCEPT ![t] = row]

\* An insert of the same ticker that another transaction has not committed.
Inserting(r, t) == \E q \in Requests \ {r} : t \in pending[q]

\* The item that is loaded is still there.
SameRow(r) == Ticker(r) \in Present /\ watch[Ticker(r)].by = read[r].by

Insert(r) ==
  /\ At(r, "insert") /\ ~Inserting(r, Ticker(r))
  /\ IF Ticker(r) \in Present
       THEN GoTo(r, "reselect") /\ UNCHANGED <<watch, read>>
       ELSE GoTo(r, "refresh") /\ Put(Ticker(r), Item(r)) /\ Load(r, Item(r))
  /\ UNCHANGED <<profile, prefs, upload>>

Reselect(r) ==
  /\ At(r, "reselect")
  /\ GoTo(r, IF Ticker(r) \in Present THEN "answered" ELSE "error")
  /\ UNCHANGED <<account, read, upload>>

UpdateMemo(r) ==
  /\ At(r, "update memo")
  /\ IF SameRow(r) THEN GoTo(r, "refresh") /\ Put(Ticker(r), [read[r] EXCEPT !.memo = Value(r)])
                   ELSE GoTo(r, "error") /\ UNCHANGED watch
  /\ UNCHANGED <<profile, prefs, read, upload>>

\* After the commit the item is read back.
Refresh(r) ==
  /\ At(r, "refresh")
  /\ GoTo(r, IF SameRow(r) THEN "answered" ELSE "error")
  /\ UNCHANGED <<account, read, upload>>

\* A DELETE that finds no row is not an error.
Delete(r) ==
  /\ At(r, "delete")
  /\ IF SameRow(r) THEN Put(Ticker(r), NoRow) ELSE UNCHANGED watch
  /\ GoTo(r, "answered")
  /\ UNCHANGED <<profile, prefs, read, upload>>

-----------------------------------------------------------------------------
\* The import, one transaction with a savepoint per insert.

Current(r) == Items(r)[pos[r]]
Importing(r) == At(r, "import") /\ pos[r] \in DOMAIN Items(r)

Skip(r) == known' = [known EXCEPT ![r] = @ \cup {Current(r)}] /\ pos' = [pos EXCEPT ![r] = @ + 1]

SkipKnown(r) ==
  /\ Importing(r) /\ Current(r) \in known[r]
  /\ Skip(r)
  /\ UNCHANGED <<pc, account, read, pending>>

\* Mutation: what an import that fails has inserted is committed.
MutRefuseItem(r) ==
  /\ Importing(r) /\ Current(r) \notin known[r] \cup Stocks
  /\ GoTo(r, "refused")
  /\ watch' = [t \in Tickers |-> IF t \in pending[r] THEN Item(r) ELSE watch[t]]
  /\ pending' = [pending EXCEPT ![r] = {}]
  /\ UNCHANGED <<profile, prefs, read, known, pos>>

RefuseItem(r) ==
  /\ Importing(r) /\ Current(r) \notin known[r] \cup Stocks
  /\ GoTo(r, "refused")
  /\ pending' = [pending EXCEPT ![r] = {}]
  /\ UNCHANGED <<account, read, known, pos>>

\* The INSERT waits for another one of the same ticker, and fails once it is committed.
InsertItem(r) ==
  /\ Importing(r) /\ Current(r) \in Stocks \ known[r] /\ ~Inserting(r, Current(r))
  /\ IF Current(r) \in Present
       THEN GoTo(r, "exists") /\ UNCHANGED <<known, pos, pending>>
       ELSE Skip(r) /\ pending' = [pending EXCEPT ![r] = @ \cup {Current(r)}] /\ UNCHANGED pc
  /\ UNCHANGED <<account, read>>

\* Mutation: an item that is there is tried again.
MutItemExists(r) ==
  /\ At(r, "exists")
  /\ IF Current(r) \in Present
       THEN GoTo(r, "import") /\ UNCHANGED pending
       ELSE GoTo(r, "error") /\ pending' = [pending EXCEPT ![r] = {}]
  /\ UNCHANGED <<account, read, known, pos>>

\* The savepoint is rolled back; the item must be there, or the whole import fails.
ItemExists(r) ==
  /\ At(r, "exists")
  /\ IF Current(r) \in Present
       THEN Skip(r) /\ GoTo(r, "import") /\ UNCHANGED pending
       ELSE /\ GoTo(r, "error") /\ pending' = [pending EXCEPT ![r] = {}]
            /\ UNCHANGED <<known, pos>>
  /\ UNCHANGED <<account, read>>

CommitImport(r) ==
  /\ At(r, "import") /\ ~Importing(r)
  /\ watch' = [t \in Tickers |-> IF t \in pending[r] THEN Item(r) ELSE watch[t]]
  /\ pending' = [pending EXCEPT ![r] = {}]
  /\ GoTo(r, "list")
  /\ UNCHANGED <<profile, prefs, read, known, pos>>

List(r) == At(r, "list") /\ GoTo(r, "answered") /\ UNCHANGED <<account, read, upload>>

Waits(r, q) ==
  /\ r # q /\ Importing(r) /\ Current(r) \in Stocks \ known[r]
  /\ Current(r) \in pending[q]

\* Request r is in a circle of waiting.
Deadlocked(r) ==
  \E S \in SUBSET Requests :
    /\ r \in S
    /\ \A x \in S : (\E y \in S : Waits(x, y)) /\ (\E y \in S : Waits(y, x))

\* PostgreSQL aborts one transaction of the circle: not an IntegrityError.
Victim(r) ==
  /\ Deadlocked(r)
  /\ GoTo(r, "error")
  /\ pending' = [pending EXCEPT ![r] = {}]
  /\ UNCHANGED <<account, read, known, pos>>

-----------------------------------------------------------------------------

\* The function reaches its time limit or crashes: its transaction is rolled back.
Kill(r) ==
  /\ pc[r] \notin Ended \cup {"idle"}
  /\ GoTo(r, "dead")
  /\ pending' = [pending EXCEPT ![r] = {}]
  /\ UNCHANGED <<account, read, known, pos>>

UserStep(r) ==
  Authenticate(r) \/ Register(r) \/ ReselectUser(r) \/ Sync(r) \/ Reload(r)

AccountStep(r) == Finish(r) \/ Rename(r) \/ FindPrefs(r) \/ InsertPrefs(r) \/ UpdatePrefs(r)

ItemStep(r) ==
  \/ FindForAdd(r) \/ FindForMemo(r) \/ FindForRemove(r)
  \/ Insert(r) \/ Reselect(r) \/ UpdateMemo(r) \/ Refresh(r) \/ Delete(r)

ImportStep(r) ==
  \/ BeginImport(r) \/ SkipKnown(r) \/ RefuseItem(r) \/ InsertItem(r) \/ ItemExists(r)
  \/ CommitImport(r) \/ List(r) \/ Victim(r)

Step(r) == UserStep(r) \/ AccountStep(r) \/ ItemStep(r) \/ ImportStep(r)

Next == (\E r \in Requests : Step(r) \/ Kill(r)) /\ UNCHANGED request /\ Remember

\* The database answers, and breaks every circle of waiting.
Fairness == \A r \in Requests : WF_vars(Step(r) /\ UNCHANGED request /\ Remember)

Spec == Init /\ [][Next]_vars /\ Fairness

-----------------------------------------------------------------------------
\* Where a request can be.
Labels ==
  Ended \cup {"idle", "register", "reselect user", "sync", "reload", "begin", "insert prefs",
    "update prefs", "insert", "reselect", "update memo", "refresh", "delete", "import",
    "exists", "list"}

\* Each variable has its type.
TypeOK ==
  /\ request \in Loads
  /\ pc \in [Requests -> Labels]
  /\ profile \in Values \cup {NoValue, NoRow}
  /\ prefs \in Values \cup {NoRow}
  /\ watch \in [Tickers -> Row \cup {NoRow}]
  /\ read \in [Requests -> Row \cup Values \cup {NoValue, NoRow}]
  /\ known \in [Requests -> SUBSET Tickers]
  /\ pos \in [Requests -> Nat \ {0}]
  /\ pending \in [Requests -> SUBSET Tickers]
  /\ met \in [Requests -> SUBSET (Tickers \cup {"account"})]

\* Inserts that are not committed are of tickers nobody has, and no two requests
\* have inserted the same (uq_watchlists_user_ticker).
PendingIsExclusive ==
  \A r \in Requests :
    /\ pending[r] # {} => pc[r] \in {"import", "exists"}
    /\ pending[r] \cap Present = {} /\ pending[r] \subseteq ToSet(Items(r))
    /\ \A q \in Requests \ {r} : pending[r] \cap pending[q] = {}

\* What request r relies on at its statement.
Ready(r) ==
  /\ pc[r] = "sync" => Claim(r) # NoValue
  /\ pc[r] \notin {"idle", "register"} \cup Ended => profile # NoRow
  /\ pc[r] \in {"insert prefs", "update prefs"} => Kind(r) = "prefs"
  /\ pc[r] \in {"insert", "reselect"} => Kind(r) = "add"
  /\ pc[r] = "update memo" => Kind(r) = "memo" /\ read[r] \in Row
  /\ pc[r] = "delete" => Kind(r) = "remove" /\ read[r] \in Row
  /\ pc[r] = "refresh" => Kind(r) \in {"add", "memo"} /\ read[r] \in Row
  /\ pc[r] \in {"import", "exists", "list"} => Kind(r) = "import"
  /\ pc[r] = "exists" => pos[r] \in DOMAIN Items(r)

\* The user row is there before any handler runs, and a token that brings it up to
\* date has a nickname; each label belongs to one handler; a loaded item is one.
HandlersAreReady == \A r \in Requests : Ready(r)

\* What request r knows of what it wants.
Remembers(r) ==
  /\ IF pc[r] = "idle" THEN met[r] = {} ELSE Met(r) \subseteq met[r]
  /\ pc[r] = "begin" /\ Kind(r) = "rename" /\ read[r] = Value(r) => "account" \in met[r]
  /\ pc[r] \notin {"import", "exists", "list"} \cup Ended => pos[r] = 1
  /\ pc[r] \in {"import", "exists"} =>
       /\ known[r] \cap ToSet(Items(r)) \subseteq pending[r] \cup met[r]
       /\ \A k \in DOMAIN Items(r) : k < pos[r] => Items(r)[k] \in known[r]
  /\ pc[r] = "delete" => SameRow(r) \/ Ticker(r) \in met[r]

\* A request has seen what it wants if it was there since it began. What an import
\* has passed it has inserted, or somebody else had; what it found in the list was
\* there; an item that is to be deleted is there or was not; and a nickname that is
\* not written was there.
NothingIsLost == \A r \in Requests : Remembers(r)

\* The inductive invariant.
IInv == TypeOK /\ PendingIsExclusive /\ HandlersAreReady /\ NothingIsLost

\* Request q does what can make request r fail.
Rivals(r, q) ==
  \/ Kind(r) = "prefs" /\ Kind(q) = "prefs"
  \/ /\ Kind(r) \in {"add", "memo", "import"} /\ Kind(q) \in {"remove", "import"}
     /\ ToSet(Items(r)) \cap ToSet(Items(q)) # {}

\* A rival of r has begun.
Provoked(r) == \E q \in Requests \ {r} : pc[q] # "idle" /\ Rivals(r, q)

\* Request r has failed with an error or will, for something it has loaded is gone.
Doomed(r) ==
  \/ pc[r] = "error"
  \/ pc[r] = "insert prefs" /\ prefs # NoRow
  \/ pc[r] = "reselect" /\ Ticker(r) \notin Present
  \/ pc[r] \in {"update memo", "refresh"} /\ ~SameRow(r)
  \/ pc[r] = "exists" /\ Current(r) \notin Present

\* Only beside a rival is a request going to fail.
OnlyRivalsDoom == \A r \in Requests : Doomed(r) => Provoked(r)

\* A request fails with an error only beside another that has begun and does what
\* can make it fail: the first PUT of the preferences, the removal of its item, or
\* an import of a shared item; no first request of a user fails because another is
\* first (auth.py:128-136, protected_routes.py:112-125,306-312,389-393).
ErrorsNeedARival == \A r \in Requests : pc[r] = "error" => Provoked(r)

Map(r) ==
  CASE pc[r] = "idle" -> "new"
    [] pc[r] \in {"refresh", "list"} -> "applied"
    [] pc[r] = "answered" -> "answered"
    [] pc[r] \in {"refused", "error", "dead"} -> "failed"
    [] OTHER -> "open"

Promise == INSTANCE AccountPromise
  WITH Requests <- Requests, NoRow <- NoRow, NoValue <- NoValue, request <- request,
       status <- [r \in Requests |-> Map(r)], profile <- profile, prefs <- prefs,
       watch <- watch, met <- met

\* Every request takes effect once and whole or not at all; an import or an add that
\* is answered leaves out only items that were in the list while it ran, a removal
\* only one that was not, and a write only a value that was there
\* (protected_routes.py:40-212, auth.py:118-156).
KeepsPromise == Promise!Spec

\* Every request that has begun ends, the imports that wait for each other's items
\* included.
EveryRequestEnds ==
  \A r \in Requests : pc[r] \notin Ended \cup {"idle"} ~> pc[r] \in Ended

=============================================================================
