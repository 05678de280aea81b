---------------------------- MODULE Acquisition ----------------------------
(***************************************************************************)
(* What a started ingestion run does between its ledger entry and its      *)
(* result: it gets the provider's answer, from the cache or by a call,     *)
(* archives it, and upserts documents, evidence chunks and rows in one     *)
(* transaction.  Runs overlap with each other and with the clean-up of     *)
(* OpenDART evidence.                                                      *)
(* An item is the key it is stored under: a receipt number, a news URL, a  *)
(* statement, a daily price.  Its content determines the key, so that the  *)
(* lookup by content hash finds nothing the lookup by key has not.         *)
(***************************************************************************)
EXTENDS Integers, SequencesExt

CONSTANTS
  Runs, Tickers,
  Registered,  \* the tickers with a stocks row
  CacheKeys,
  Keys,        \* of items
  Chunked,     \* those with an evidence chunk per ticker: news and disclosures
  Disclosed,   \* the disclosures
  Unfit,       \* <<what, key>>: of the item, the document, chunk or row that a column refuses
  PriceOf,     \* the ticker of each price in the daily list of a market
  Feed,        \* Feed[c]: the items the provider answers to the call cached under c
  Asks,        \* what the runs may be about
  Cleaned,     \* those beside which the clean-up may run
  Warm,        \* calls answered and cached before
  Stored,      \* the owner and the evidence of each key stored before
  MaxAttempts, \* max_retries + 1
  MaxExpired,  \* bound: cache entries expired at a time
  NoRow, Sweeper

Part == [key : CacheKeys, spare : CacheKeys, years : Seq(Seq(CacheKeys))]
Request == [provider : {"OpenDART", "KRX", "NAVER_NEWS"}, ticker : Tickers, ready : BOOLEAN,
            parts : Seq(Part)]

ASSUME AsksAssumption ==
  /\ Asks \subseteq [Runs -> Request] /\ Cleaned \subseteq Asks
  /\ \A ask \in Asks, r \in Runs :
       /\ Len(ask[r].parts) = IF ask[r].provider = "OpenDART" THEN 2 ELSE 1
       /\ \A p \in ToSet(ask[r].parts) :
            /\ p.years # <<>> => ask[r].provider = "OpenDART"
            /\ \A y \in DOMAIN p.years : p.years[y] # <<>>

\* A cache key names its call: the list, the ticker, its years, the year and division.
ASSUME CacheKeysAssumption ==
  \A ask \in Asks, r, q \in Runs :
    \A p \in ToSet(ask[r].parts), o \in ToSet(ask[q].parts) :
      /\ p.key = o.key => p.years = o.years
      /\ \A y \in DOMAIN p.years : {o.key, o.spare} \cap ToSet(p.years[y]) = {}

\* Statements are cached as complete when a call had rows for each of their years.
ASSUME WarmAssumption ==
  \A ask \in Asks, r \in Runs : \A p \in ToSet(ask[r].parts) : p.key \in Warm =>
    \A y \in DOMAIN p.years : \E c \in ToSet(p.years[y]) \cap Warm : Feed[c] # <<>>

ASSUME StoreAssumption ==
  /\ Registered \subseteq Tickers /\ Disclosed \subseteq Chunked /\ Chunked \subseteq Keys
  /\ Unfit \subseteq {"doc", "chunk", "row"} \X Keys
  /\ Feed \in [CacheKeys -> Seq(Keys)] /\ Warm \subseteq CacheKeys
  /\ DOMAIN PriceOf \subseteq Keys \ Chunked
  /\ MaxAttempts \in Nat \ {0} /\ MaxExpired \in Nat /\ NoRow \notin Tickers /\ Sweeper \notin Runs
  /\ DOMAIN Stored \subseteq Keys
  /\ \A k \in DOMAIN Stored :
       Stored[k].owner \in Stored[k].chunks /\ Stored[k].chunks \subseteq Tickers

VARIABLES
  ask,      \* ask[r]: what run r is about
  pc,       \* pc[r]: the statement it executes next, or its result
  cache,    \* cache[c]: the cached result, and whether it is still valid
  place,    \* place[r]: the part of the call, its year and division
  note,     \* note[r]: the result it is about to cache, and whether it saw an entry
  got,      \* got[r]: what it has got so far
  pos,      \* pos[r]: the item it persists
  dirty,    \* dirty[r]: writes of its session that are not flushed
  held,     \* held[r]: writes that are flushed and not committed
  doc,      \* doc[k]: the ticker of the committed source document
  row,      \* row[k]: the ticker of the committed news, disclosure or data row
  chunks,   \* committed evidence chunks <<ticker, key>>
  sweep,    \* the clean-up: its step, the chunks it selected and those it has deleted
  answered, \* history: calls the provider has answered
  archived, \* history: the runs whose payload the raw archive has accepted
  met,      \* history: met[r]: actors that have been active beside r
  swept     \* history: the chunks of owners that committed while the clean-up was open

fetch == <<cache, place, note, got, answered>>
session == <<pos, dirty, held>>
store == <<doc, row, chunks>>
history == <<archived, met, swept>>
vars == <<ask, pc, fetch, session, store, sweep, history>>

Ended == {"succeeded", "partial_failed", "failed", "dead"}
Active(r) == pc[r] \notin Ended \cup {"idle"}
Sweeping == sweep.pc = "deleting"

Parts(r) == ask[r].parts
ThePart(r) == Parts(r)[place[r].part]
Ticker(r) == ask[r].ticker
At(r, label) == pc[r] = label
GoTo(r, label) == pc' = [pc EXCEPT ![r] = label]

Nothing == [ok |-> FALSE, items |-> <<>>, missing |-> FALSE]
Fallback == [ok |-> FALSE, items |-> <<>>, missing |-> TRUE]
Answer(items) == [ok |-> TRUE, items |-> items, missing |-> FALSE]
NoEntry == [ok |-> FALSE, items |-> <<>>, missing |-> FALSE, live |-> FALSE, there |-> FALSE]
Entry(result) == [ok |-> result.ok, items |-> result.items, missing |-> result.missing,
                  live |-> TRUE, there |-> TRUE]
NoNote(c) == [key |-> c, result |-> Nothing, found |-> FALSE]

\* The statements got so far are kept with the place in the part.
Begin(part) == [part |-> part, year |-> 1, div |-> 1, rows |-> <<>>, missing |-> FALSE]

Init ==
  /\ ask \in Asks
  /\ pc = [r \in Runs |-> "idle"]
  /\ cache = [c \in CacheKeys |-> IF c \in Warm THEN Entry(Answer(Feed[c])) ELSE NoEntry]
  /\ place = [r \in Runs |-> Begin(1)]
  /\ note = [r \in Runs |-> NoNote(ask[r].parts[1].key)]
  /\ got = [r \in Runs |-> Nothing]
  /\ answered = Warm
  /\ pos = [r \in Runs |-> 1]
  /\ dirty = [r \in Runs |-> {}]
  /\ held = [r \in Runs |-> {}]
  /\ doc = [k \in Keys |-> IF k \in DOMAIN Stored THEN Stored[k].owner ELSE NoRow]
  /\ row = doc
  /\ chunks = {c \in Tickers \X Chunked : c[2] \in DOMAIN Stored /\ c[1] \in Stored[c[2]].chunks}
  /\ sweep = [pc |-> "idle", stale |-> {}, gone |-> {}]
  /\ archived = {}
  /\ met = [r \in Runs |-> {}]
  /\ swept = [owners |-> {}, lost |-> {}]

-----------------------------------------------------------------------------
\* The call to the provider.

\* An unregistered ticker fails before any call.
Start(r) ==
  /\ At(r, "idle")
  /\ GoTo(r, IF Ticker(r) \in Registered THEN "look" ELSE "failed")
  /\ met' = [q \in Runs |->
       IF q = r THEN {x \in Runs : Active(x)} \cup (IF Sweeping THEN {Sweeper} ELSE {})
       ELSE IF Active(q) THEN met[q] \cup {r} ELSE met[q]]
  /\ UNCHANGED <<fetch, session, store, sweep, archived, swept>>

Merge(a, b) == [ok |-> a.ok \/ b.ok, items |-> a.items \o b.items, missing |-> a.missing \/ b.missing]

\* The part is got: the next one, or all of them as one result.
TakePart(r, result) ==
  /\ got' = [got EXCEPT ![r] = Merge(@, result)]
  /\ place' = [place EXCEPT ![r] = Begin(@.part + 1)]
  /\ GoTo(r, IF place[r].part = Len(Parts(r)) THEN "archive" ELSE "look")

\* Mutation: a cached fallback is an answer.
MutCached(c) == [ok |-> TRUE, items |-> cache[c].items, missing |-> FALSE]

Cached(c) == [ok |-> cache[c].ok, items |-> cache[c].items, missing |-> cache[c].missing]

FromCache(r) ==
  /\ At(r, "look")
  /\ IF cache[ThePart(r).key].live
       THEN TakePart(r, Cached(ThePart(r).key))
       ELSE UNCHANGED <<place, got>> /\ GoTo(r, IF ask[r].ready THEN "request" ELSE "unready")
  /\ UNCHANGED <<cache, note, answered, session, store, sweep, history>>

\* Mutation: only a valid entry is overwritten.
MutNote(r, c, result) ==
  /\ note' = [note EXCEPT ![r] = [key |-> c, result |-> result, found |-> cache[c].live]]
  /\ GoTo(r, "cache")

\* The SELECT of the cache's set.
Note(r, c, result) ==
  /\ note' = [note EXCEPT ![r] = [key |-> c, result |-> result, found |-> cache[c].there]]
  /\ GoTo(r, "cache")

\* No URL, API key or corp code: the fallback is cached under a key of its own for
\* KRX, under the key that is read for the others.
NotReady(r) ==
  /\ At(r, "unready")
  /\ Note(r, ThePart(r).spare, Fallback)
  /\ UNCHANGED <<cache, place, got, answered, session, store, sweep, history>>

\* A call is tried again while the provider is busy; the last response counts.
Outcome(s) == s[CHOOSE i \in 1..MaxAttempts :
  /\ s[i] # "busy" \/ i = MaxAttempts
  /\ \A j \in 1..(i - 1) : s[j] = "busy"]

\* A statement's call is cached under its year and division.
CallKey(r) ==
  LET p == ThePart(r) IN
    IF p.years = <<>> THEN p.key ELSE p.years[place[r].year][place[r].div]

\* Any other status, an exception or an unreadable body is a fallback; a body with
\* an error status or no rows is an answer without items.
RequestResult(r) ==
  /\ At(r, "request")
  /\ \E s \in [1..MaxAttempts -> {"ok", "empty", "busy", "broken"}] :
       LET c == CallKey(r) o == Outcome(s) IN
       /\ Note(r, c, CASE o = "ok" -> Answer(Feed[c]) [] o = "empty" -> Answer(<<>>) [] OTHER -> Fallback)
       /\ answered' = IF o \in {"ok", "empty"} THEN answered \cup {c} ELSE answered
  /\ UNCHANGED <<cache, place, got, session, store, sweep, history>>

\* Consolidated statements come first, the separate ones only without them; a year
\* that neither has rows for is missing.
TakeStatements(r, items) ==
  LET years == ThePart(r).years p == place[r]
      turn == items # <<>> \/ p.div = Len(years[p.year])
  IN /\ place' = [place EXCEPT ![r] =
          [part |-> p.part, year |-> IF turn THEN p.year + 1 ELSE p.year, div |-> IF turn THEN 1 ELSE p.div + 1,
           rows |-> p.rows \o items, missing |-> p.missing \/ (turn /\ items = <<>>)]]
     /\ GoTo(r, IF turn /\ p.year = Len(years) THEN "combine" ELSE "request")
     /\ UNCHANGED got

\* The statements of all years are cached as one result.
Combine(r) ==
  /\ At(r, "combine")
  /\ Note(r, ThePart(r).key,
       [ok |-> place[r].rows # <<>>, items |-> place[r].rows, missing |-> place[r].missing])
  /\ UNCHANGED <<cache, place, got, answered, session, store, sweep, history>>

\* The entry is inserted or overwritten. After an insert that finds a rival's entry
\* the session refuses the second attempt too, and the run fails.
CacheSet(r) ==
  LET c == note[r].key IN
  /\ At(r, "cache")
  /\ IF ~note[r].found /\ cache[c].there
       THEN GoTo(r, "failed") /\ UNCHANGED <<cache, place, got>>
       ELSE /\ cache' = [cache EXCEPT ![c] = Entry(note[r].result)]
            /\ IF c \in {ThePart(r).key, ThePart(r).spare}
                 THEN TakePart(r, note[r].result)
                 ELSE TakeStatements(r, note[r].result.items)
  /\ note' = [note EXCEPT ![r] = NoNote(c)]
  /\ UNCHANGED <<answered, session, store, sweep, history>>

\* Half an hour after it was set; an entry that no call will read may stay.
Expire(c) ==
  /\ cache[c].live
  /\ \E r \in Runs : pc[r] \in {"idle", "look"} /\ \E p \in ToSet(Parts(r)) : p.key = c
  /\ Cardinality({x \in CacheKeys : cache[x].there /\ ~cache[x].live}) < MaxExpired
  /\ cache' = [cache EXCEPT ![c].live = FALSE]
  /\ UNCHANGED <<pc, place, note, got, answered, session, store, sweep, history>>

-----------------------------------------------------------------------------
\* The upserts: one transaction, with a savepoint per new chunk.

Items(r) == got[r].items
Item(r) == Items(r)[pos[r]]

\* Of the daily list of a market a run keeps its ticker's price.
Keeps(r, k) == k \in DOMAIN PriceOf => PriceOf[k] = Ticker(r)
Kept(r) == {i \in DOMAIN Items(r) : Keeps(r, Items(r)[i])}
Persisting(r, label) == At(r, label) /\ pos[r] \in Kept(r)

\* A write of run r: a new row, or new values, its ticker's among them when the row
\* that was read has another.
Write(r, what, make, own) ==
  [what |-> what, key |-> Item(r), make |-> make, own |-> own, pos |-> pos[r]]

Slot(r, w) == IF w.what = "chunk" THEN <<"chunk", w.key, Ticker(r)>> ELSE <<w.what, w.key>>
Slots(r, writes) == {Slot(r, w) : w \in writes}

\* What a SELECT of the session finds: committed or flushed, but not what waits to be.
Committed(slot) ==
  CASE slot[1] = "doc" -> doc[slot[2]] # NoRow
    [] slot[1] = "row" -> row[slot[2]] # NoRow
    [] OTHER -> <<slot[3], slot[2]>> \in chunks
Finds(r, slot) == Committed(slot) \/ slot \in Slots(r, held[r])

\* New values for a row the session already writes add nothing to that write.
Touch(r, w) ==
  dirty' = [dirty EXCEPT ![r] =
    IF ~w.make /\ Slot(r, w) \in Slots(r, dirty[r] \cup held[r]) THEN @ ELSE @ \cup {w}]

\* The payload is archived first. When the archive refuses it the run fails.
Archive(r) ==
  /\ At(r, "archive")
  /\ \/ GoTo(r, IF got[r].ok THEN "document" ELSE "flush") /\ archived' = archived \cup {r}
     \/ GoTo(r, "failed") /\ UNCHANGED archived
  /\ UNCHANGED <<fetch, session, store, sweep, met, swept>>

AfterDocument(r) == IF Item(r) \in Chunked THEN "chunk" ELSE "row"

\* The loop goes on without an item that is not the ticker's.
Skip(r) ==
  /\ At(r, "document") /\ pos[r] \in DOMAIN Items(r) \ Kept(r)
  /\ pos' = [pos EXCEPT ![r] = @ + 1]
  /\ UNCHANGED <<pc, fetch, dirty, held, store, sweep, history>>

\* A document that is there gets new values; a new one is flushed at once.
UpsertDocument(r) ==
  LET k == Item(r) IN
  /\ Persisting(r, "document")
  /\ IF Finds(r, <<"doc", k>>)
       THEN Touch(r, Write(r, "doc", FALSE, doc[k] # Ticker(r))) /\ GoTo(r, AfterDocument(r))
       ELSE Touch(r, Write(r, "doc", TRUE, TRUE)) /\ GoTo(r, "flush document")
  /\ UNCHANGED <<fetch, pos, held, store, sweep, history>>

DocumentFlushed(r) ==
  /\ At(r, "flush document") /\ dirty[r] = {}
  /\ GoTo(r, AfterDocument(r))
  /\ UNCHANGED <<fetch, session, store, sweep, history>>

\* A new chunk's savepoint flushes what is waiting first.
UpsertChunk(r) ==
  LET w == Write(r, "chunk", FALSE, FALSE) IN
  /\ Persisting(r, "chunk")
  /\ IF Finds(r, Slot(r, w)) THEN Touch(r, w) /\ GoTo(r, "row")
                             ELSE UNCHANGED dirty /\ GoTo(r, "savepoint")
  /\ UNCHANGED <<fetch, pos, held, store, sweep, history>>

\* Another transaction has written the row and not committed: a write of it waits.
Blocker(r, slot) ==
  {q \in Runs \ {r} : slot \in Slots(q, held[q])} \cup
  (IF slot[1] = "chunk" /\ <<slot[3], slot[2]>> \in sweep.gone THEN {Sweeper} ELSE {})

\* A rival's chunk makes the INSERT fail: the savepoint is rolled back, and the chunk
\* read again.
InsertChunk(r) ==
  LET w == Write(r, "chunk", TRUE, TRUE) IN
  /\ Persisting(r, "savepoint") /\ dirty[r] = {} /\ Blocker(r, Slot(r, w)) = {}
  /\ <<"chunk", Item(r)>> \notin Unfit
  /\ IF Committed(Slot(r, w))
       THEN GoTo(r, "reselect") /\ UNCHANGED held
       ELSE GoTo(r, "row") /\ held' = [held EXCEPT ![r] = @ \cup {w}]
  /\ UNCHANGED <<fetch, pos, dirty, store, sweep, history>>

\* Mutation: the run is marked failed without a rollback.
MutFailed(r) == GoTo(r, "failed") /\ dirty' = [dirty EXCEPT ![r] = {}] /\ UNCHANGED held

\* The session is rolled back, and the run marked.
Failed(r) ==
  GoTo(r, "failed") /\ dirty' = [dirty EXCEPT ![r] = {}] /\ held' = [held EXCEPT ![r] = {}]

ReselectChunk(r) ==
  LET w == Write(r, "chunk", FALSE, FALSE) IN
  /\ Persisting(r, "reselect")
  /\ IF Committed(Slot(r, w)) THEN Touch(r, w) /\ GoTo(r, "row") /\ UNCHANGED held
                              ELSE Failed(r)
  /\ UNCHANGED <<fetch, pos, store, sweep, history>>

\* Is its item the last disclosure of the list?
EndsList(r) ==
  /\ Item(r) \in Disclosed
  /\ pos[r] + 1 \in DOMAIN Items(r) => Items(r)[pos[r] + 1] \notin Disclosed

AfterRow(r) == IF EndsList(r) THEN "flush list" ELSE "document"

\* Mutation: a row that is there keeps its ticker.
MutUpsertRow(r) ==
  LET k == Item(r) there == Finds(r, <<"row", k>>) IN
  /\ Persisting(r, "row")
  /\ Touch(r, Write(r, "row", ~there, ~there))
  /\ pos' = [pos EXCEPT ![r] = @ + 1]
  /\ GoTo(r, AfterRow(r))
  /\ UNCHANGED <<fetch, held, store, sweep, history>>

\* The news, disclosure, statement or price row; a new one waits for the next flush.
UpsertRow(r) ==
  LET k == Item(r) there == Finds(r, <<"row", k>>) IN
  /\ Persisting(r, "row")
  /\ Touch(r, Write(r, "row", ~there, ~there \/ row[k] # Ticker(r)))
  /\ pos' = [pos EXCEPT ![r] = @ + 1]
  /\ GoTo(r, AfterRow(r))
  /\ UNCHANGED <<fetch, held, store, sweep, history>>

\* Disclosures are flushed before the statements.
ListFlushed(r) ==
  /\ At(r, "flush list") /\ dirty[r] = {}
  /\ GoTo(r, "document")
  /\ UNCHANGED <<fetch, session, store, sweep, history>>

LastFlush(r) ==
  /\ At(r, "document") /\ pos[r] \notin DOMAIN Items(r)
  /\ GoTo(r, "flush")
  /\ UNCHANGED <<fetch, session, store, sweep, history>>

Flushing(r) == pc[r] \in {"flush document", "savepoint", "flush list", "flush"}
Fits(w) == <<w.what, w.key>> \notin Unfit

\* One statement of a flush; rows are written in the order of their random ids. An
\* INSERT of what is there and an UPDATE of what is gone fail the run.
Flush(r) ==
  /\ Flushing(r)
  /\ \E w \in dirty[r] :
       /\ Fits(w) /\ Blocker(r, Slot(r, w)) = {}
       /\ IF w.make = Finds(r, Slot(r, w))
            THEN Failed(r)
            ELSE /\ dirty' = [dirty EXCEPT ![r] = @ \ {w}]
                 /\ held' = [held EXCEPT ![r] = @ \cup {w}]
                 /\ UNCHANGED pc
  /\ UNCHANGED <<fetch, pos, store, sweep, history>>

\* A value that its column refuses, such as a disclosure type of over 100 characters,
\* fails the run, a chunk's in its savepoint too: it is no IntegrityError.
DataError(r) ==
  /\ \/ Flushing(r) /\ \E w \in dirty[r] : ~Fits(w)
     \/ Persisting(r, "savepoint") /\ dirty[r] = {} /\ <<"chunk", Item(r)>> \in Unfit
  /\ Failed(r)
  /\ UNCHANGED <<fetch, pos, store, sweep, history>>

\* What is committed as owned by the run's ticker.
Owns(r, what, k) == \E w \in held[r] : w.what = what /\ w.key = k /\ w.own

\* The result is marked and everything is committed. Missing data makes an OpenDART
\* run partial, no row of its own a KRX run.
Result(r) ==
  IF /\ got[r].ok
     /\ ask[r].provider = "OpenDART" => ~got[r].missing
     /\ ask[r].provider = "KRX" => Kept(r) # {}
  THEN "succeeded" ELSE "partial_failed"

Commit(r) ==
  /\ At(r, "flush") /\ dirty[r] = {}
  /\ doc' = [k \in Keys |-> IF Owns(r, "doc", k) THEN Ticker(r) ELSE doc[k]]
  /\ row' = [k \in Keys |-> IF Owns(r, "row", k) THEN Ticker(r) ELSE row[k]]
  /\ chunks' = chunks \cup {<<Ticker(r), w.key>> : w \in {x \in held[r] : x.what = "chunk"}}
  /\ held' = [held EXCEPT ![r] = {}]
  /\ GoTo(r, Result(r))
  /\ swept' = IF Sweeping
       THEN [swept EXCEPT !.owners = @ \cup {<<Ticker(r), w.key>> : w \in held[r]}] ELSE swept
  /\ UNCHANGED <<fetch, pos, dirty, sweep, archived, met>>

-----------------------------------------------------------------------------
\* The clean-up deletes disclosure chunks of tickers the disclosure is not of.

\* Mutation: the ticker is compared with the document's.
MutStale == {c \in chunks : c[2] \in Disclosed /\ row[c[2]] # NoRow /\ c[1] # doc[c[2]]}

Stale == {c \in chunks : c[2] \in Disclosed /\ row[c[2]] # NoRow /\ c[1] # row[c[2]]}

Select ==
  /\ sweep.pc = "idle" /\ ask \in Cleaned
  /\ sweep' = [pc |-> "deleting", stale |-> Stale, gone |-> {}]
  /\ met' = [r \in Runs |-> IF Active(r) THEN met[r] \cup {Sweeper} ELSE met[r]]
  /\ swept' = [swept EXCEPT !.owners = {}]
  /\ UNCHANGED <<pc, fetch, session, store, archived>>

\* By its id: whatever the disclosure says by then. A chunk that is gone is no error.
Delete ==
  /\ Sweeping
  /\ \E c \in sweep.stale :
       /\ Blocker(Sweeper, <<"chunk", c[2], c[1]>>) = {}
       /\ sweep' = [sweep EXCEPT !.stale = @ \ {c}, !.gone = @ \cup ({c} \cap chunks)]
  /\ UNCHANGED <<pc, fetch, session, store, history>>

CommitSweep ==
  /\ Sweeping /\ sweep.stale = {}
  /\ chunks' = chunks \ sweep.gone
  /\ swept' = [swept EXCEPT !.lost = @ \cup (sweep.gone \cap swept.owners)]
  /\ sweep' = [sweep EXCEPT !.pc = "done", !.gone = {}]
  /\ UNCHANGED <<pc, fetch, session, doc, row, archived, met>>

-----------------------------------------------------------------------------
\* Actor a waits for actor b.
WaitsFor(a, b) ==
  IF a = Sweeper THEN Sweeping /\ \E c \in sweep.stale : b \in Blocker(a, <<"chunk", c[2], c[1]>>)
  ELSE \/ /\ Flushing(a)
          /\ \E w \in dirty[a] : Fits(w) /\ b \in Blocker(a, Slot(a, w))
       \/ /\ Persisting(a, "savepoint") /\ dirty[a] = {}
          /\ b \in Blocker(a, Slot(a, Write(a, "chunk", TRUE, TRUE)))

Deadlocked(a) ==
  \E S \in SUBSET (Runs \cup {Sweeper}) :
    a \in S /\ \A x \in S : (\E y \in S : WaitsFor(x, y)) /\ (\E y \in S : WaitsFor(y, x))

\* PostgreSQL aborts a transaction of the circle.
Victim(r) == Deadlocked(r) /\ Failed(r) /\ UNCHANGED <<fetch, pos, store, sweep, history>>

SweepVictim ==
  /\ Deadlocked(Sweeper)
  /\ sweep' = [pc |-> "done", stale |-> {}, gone |-> {}]
  /\ UNCHANGED <<pc, fetch, session, store, history>>

\* The function's time is over.
Kill(r) ==
  /\ Active(r)
  /\ GoTo(r, "dead")
  /\ dirty' = [dirty EXCEPT ![r] = {}] /\ held' = [held EXCEPT ![r] = {}]
  /\ UNCHANGED <<fetch, pos, store, sweep, history>>

Fetch(r) ==
  \/ Start(r) \/ FromCache(r) \/ NotReady(r) \/ RequestResult(r) \/ Combine(r) \/ CacheSet(r)

Persist(r) ==
  \/ Archive(r) \/ Skip(r) \/ UpsertDocument(r) \/ DocumentFlushed(r) \/ UpsertChunk(r)
  \/ InsertChunk(r) \/ ReselectChunk(r) \/ UpsertRow(r) \/ ListFlushed(r) \/ LastFlush(r)
  \/ Flush(r) \/ DataError(r) \/ Commit(r) \/ Victim(r)

CleanUp == Select \/ Delete \/ CommitSweep \/ SweepVictim

Next ==
  /\ \/ \E r \in Runs : Fetch(r) \/ Persist(r) \/ Kill(r)
     \/ CleanUp
     \/ \E c \in CacheKeys : Expire(c)
  /\ UNCHANGED ask

Spec == Init /\ [][Next]_vars

-----------------------------------------------------------------------------
Results == [ok : BOOLEAN, items : Seq(Keys), missing : BOOLEAN]
Labels ==
  Ended \cup {"idle", "look", "unready", "request", "combine", "cache", "archive", "document",
    "flush document", "chunk", "savepoint", "reselect", "row", "flush list", "flush"}
Writes ==
  [what : {"doc", "chunk", "row"}, key : Keys, make : BOOLEAN, own : BOOLEAN, pos : Nat]

FetchTypeOK ==
  /\ ask \in Asks
  /\ pc \in [Runs -> Labels]
  /\ cache \in [CacheKeys -> [ok : BOOLEAN, items : Seq(Keys), missing : BOOLEAN,
                              live : BOOLEAN, there : BOOLEAN]]
  /\ place \in [Runs -> [part : Nat, year : Nat, div : Nat, rows : Seq(Keys), missing : BOOLEAN]]
  /\ note \in [Runs -> [key : CacheKeys, result : Results, found : BOOLEAN]]
  /\ got \in [Runs -> Results]
  /\ answered \subseteq CacheKeys

StoreTypeOK ==
  /\ pos \in [Runs -> Nat]
  /\ dirty \in [Runs -> SUBSET Writes] /\ held \in [Runs -> SUBSET Writes]
  /\ doc \in [Keys -> Tickers \cup {NoRow}] /\ row \in [Keys -> Tickers \cup {NoRow}]
  /\ chunks \subseteq Tickers \X Chunked /\ archived \subseteq Runs
  /\ sweep \in [pc : {"idle", "deleting", "done"}, stale : SUBSET (Tickers \X Keys),
                gone : SUBSET (Tickers \X Keys)]
  /\ met \in [Runs -> SUBSET (Runs \cup {Sweeper})]
  /\ swept \in [owners : SUBSET (Tickers \X Keys), lost : SUBSET (Tickers \X Keys)]

\* Each variable has its type.
TypeOK == FetchTypeOK /\ StoreTypeOK

\* A written row belongs to one transaction, a document and its row are stored
\* together, and nothing waits in a session that has ended.
WritesAreExclusive ==
  /\ \A r \in Runs : ~Active(r) => dirty[r] = {} /\ held[r] = {}
  /\ \A r, q \in Runs : r # q => Slots(r, held[r]) \cap Slots(q, held[q]) = {}
  /\ \A k \in Keys : doc[k] = NoRow <=> row[k] = NoRow

\* What the session of run r writes.
Touched(r) == Slots(r, dirty[r] \cup held[r])
Dealing == {"flush document", "chunk", "savepoint", "reselect", "row"}
DealsWith(r, k) == pc[r] \in Dealing /\ Item(r) = k

\* The session of run r is empty outside the upserts. A row it writes has its document
\* and its ticker's chunk in the session; a document has its row there too, or is of the
\* item the run deals with. What is not owned is stored.
SessionIsWhole(r) ==
  /\ pc[r] \notin Dealing \cup {"document", "flush list", "flush"} => dirty[r] = {} /\ held[r] = {}
  /\ \A k \in Keys :
       /\ <<"row", k>> \in Touched(r) \/ DealsWith(r, k) => <<"doc", k>> \in Touched(r)
       /\ <<"doc", k>> \in Touched(r) => <<"row", k>> \in Touched(r) \/ DealsWith(r, k)
       /\ k \in Chunked /\ (<<"row", k>> \in Touched(r) \/ (DealsWith(r, k) /\ pc[r] = "row")) =>
            <<"chunk", k, Ticker(r)>> \in Touched(r)
  /\ \A w \in dirty[r] \cup held[r] :
       w.key \in Keys /\ w.what \in {"doc", "row"} => w.own \/ doc[w.key] # NoRow

SessionsAreWhole == \A r \in Runs : SessionIsWhole(r)

\* What the clean-up deletes, while it does, is not of its disclosure's ticker, unless a
\* run of that ticker has committed since.
SweepIsExcused ==
  /\ \A c \in chunks : c = <<c[1], c[2]>>
  /\ ~Sweeping => sweep.gone = {}
  /\ Sweeping => \A c \in sweep.stale \cup sweep.gone :
       c = <<c[1], c[2]>> /\ c[2] \in Disclosed /\ (c[1] # row[c[2]] \/ c \in swept.owners)

\* A year of statements has rows in an answered call.
YearAnswered(calls) == \E c \in ToSet(calls) \cap answered : Feed[c] # <<>>

\* A part of a call is answered, with rows for each of its years.
Answered(p) ==
  IF p.years = <<>> THEN p.key \in answered ELSE \A y \in DOMAIN p.years : YearAnswered(p.years[y])

\* The calls that answer a part, and the items they have answered.
Sources(p) == {p.key} \cup UNION {ToSet(p.years[y]) : y \in DOMAIN p.years}
Supplied(calls) == UNION {ToSet(Feed[c]) : c \in calls \cap answered}

\* A result of a part holds what the provider answered, and tells what it lacks.
Rests(p, result) ==
  /\ ToSet(result.items) \subseteq Supplied(Sources(p))
  /\ ~result.missing \/ (result.ok /\ p.years = <<>>) => Answered(p)

CacheRests ==
  /\ \A c \in CacheKeys : cache[c].live => cache[c].there
  /\ \A r \in Runs : \A p \in ToSet(Parts(r)) : cache[p.key].there => Rests(p, cache[p.key])

Calling == {"idle", "look", "unready", "request", "combine", "cache"}
AtYear(r) ==
  LET years == ThePart(r).years p == place[r] IN
    years # <<>> => p.year \in DOMAIN years /\ p.div \in DOMAIN years[p.year]

\* What run r is about to cache is a result of its part, or of a call for one year.
NoteRests(r) ==
  LET p == ThePart(r) n == note[r] IN
    \/ /\ n.key \in {p.key, p.spare} /\ Rests(p, n.result)
       /\ n.key = p.key \/ n.result = Fallback
    \/ /\ p.years # <<>> /\ AtYear(r) /\ n.key = CallKey(r)
       /\ n.result.items # <<>> => n.key \in answered /\ n.result.items = Feed[n.key]

\* The place of run r in its call, and what it has got up to there.
PlaceRests(r) ==
  LET p == ThePart(r) IN
  /\ place[r].part \in 1..(Len(Parts(r)) + 1)
  /\ pc[r] \in Calling => place[r].part <= Len(Parts(r))
  /\ pc[r] \notin Calling \cup {"failed", "dead"} => place[r].part > Len(Parts(r))
  /\ pc[r] \in {"idle", "look", "unready"} => place[r] = Begin(place[r].part)
  /\ pc[r] = "request" => AtYear(r)
  /\ pc[r] = "combine" => p.years # <<>> /\ place[r].year = Len(p.years) + 1
  /\ pc[r] = "cache" => NoteRests(r)
  /\ pc[r] \in Calling =>
       /\ ToSet(place[r].rows) \subseteq Supplied(Sources(p))
       /\ ~place[r].missing => \A y \in 1..(place[r].year - 1) : y \in DOMAIN p.years => YearAnswered(p.years[y])

GotRests(r) ==
  LET taken == {Parts(r)[i] : i \in 1..(place[r].part - 1)} IN
  /\ place[r].part = 1 => got[r] = Nothing
  /\ ToSet(Items(r)) \subseteq UNION {Supplied(Sources(p)) : p \in taken}
  /\ IF ask[r].provider = "OpenDART" THEN ~got[r].missing => \A p \in taken : Answered(p)
                                     ELSE got[r].ok => \A p \in taken : Answered(p)

\* The fetched data rests on answers of the provider.
CallsRest == CacheRests /\ \A r \in Runs : PlaceRests(r) /\ GotRests(r)

\* A run that has succeeded rests on answers of the provider for every part of its
\* call, a cached one or another run's included, and nothing is stored that no
\* provider has answered: no fallback is taken for data (base.py:66-104,167-194,
\* opendart.py:120-261, orchestrator.py:175-204, parsing.py:21-46).
StoredIsAnswered ==
  /\ \A r \in Runs : pc[r] = "succeeded" => \A p \in ToSet(Parts(r)) : Answered(p)
  /\ \A k \in Keys : doc[k] # NoRow => k \in DOMAIN Stored \cup Supplied(CacheKeys)

CallKeys(r) ==
  UNION {{p.key, p.spare} \cup UNION {ToSet(p.years[y]) : y \in DOMAIN p.years} : p \in ToSet(Parts(r))}
Served(r) == UNION {ToSet(Feed[c]) : c \in CallKeys(r)}

\* What two actors share: a cached call, an item, or disclosure evidence.
Shares(r, a) ==
  IF a = Sweeper THEN Served(r) \cap Disclosed # {}
  ELSE CallKeys(r) \cap CallKeys(a) # {} \/ Served(r) \cap Served(a) # {}

Repeats(r) == \E i, j \in Kept(r) : i # j /\ Items(r)[i] = Items(r)[j]
HasRival(r) == \E a \in met[r] : Shares(r, a)

\* The provider's answer is complete, and the archive has not accepted it.
Unarchived(r) == place[r].part > Len(Parts(r)) /\ r \notin archived
HasUnfit(r) == \E i \in Kept(r) : \E what \in {"doc", "chunk", "row"} : <<what, Items(r)[i]>> \in Unfit

\* A run fails only for an unregistered ticker, without its archive, for an item that
\* its answer repeats or a column refuses, or beside another actor it shares a cached
\* call or an item with: whatever the cache, the store and the provider hold, a run by
\* itself whose payload is archived and fits ends with a result (cache.py:31-63,
\* base.py:143-194, persistence.py:21-139, orchestrator.py:174-183,226-238).
FailuresNeedARival ==
  \A r \in Runs : pc[r] = "failed" =>
    Ticker(r) \notin Registered \/ Unarchived(r) \/ Repeats(r) \/ HasUnfit(r) \/ HasRival(r)

\* The archive has the payload of a run that stores items or has its result, and not yet
\* that of a run before.
ArchiveComesFirst ==
  \A r \in Runs :
    /\ pc[r] \in Calling \cup {"archive"} => r \notin archived
    /\ pc[r] \notin Calling \cup {"archive", "failed", "dead"} => r \in archived

\* Whoever are active at a time have met, and nobody before it starts.
ActorsHaveMet ==
  /\ \A r \in Runs : pc[r] = "idle" => met[r] = {}
  /\ \A r, q \in Runs : r # q /\ Active(r) /\ Active(q) => q \in met[r]
  /\ \A r \in Runs : Active(r) /\ Sweeping => Sweeper \in met[r]

\* A write of run r is of an item up to the one it deals with, and the only one of its
\* kind for it.
WriteIsPlaced(r, w) ==
  /\ w.pos \in Kept(r) /\ w.key = Items(r)[w.pos] /\ w.pos <= pos[r]
  /\ w.what = "chunk" => w.key \in Chunked
  /\ w.pos = pos[r] => pc[r] \in Dealing /\ w.what # "row" /\ (w.what = "chunk" => pc[r] = "row")

SessionIsPlaced(r) ==
  /\ pc[r] \in Dealing => pos[r] \in Kept(r)
  /\ pc[r] \in {"chunk", "savepoint", "reselect"} => Item(r) \in Chunked
  /\ \A w \in dirty[r] \cup held[r] :
       /\ WriteIsPlaced(r, w)
       /\ \A v \in dirty[r] \cup held[r] : v.what = w.what /\ v.pos = w.pos => v = w

\* Without a rival and with its items each once, what run r has seen of the cache and
\* the store is still so.
SightIsCurrent(r) ==
  /\ pc[r] = "cache" /\ ~note[r].found /\ cache[note[r].key].there => HasRival(r)
  /\ Repeats(r) \/ HasRival(r) \/
       /\ \A w \in dirty[r] : w.make # Finds(r, Slot(r, w))
       /\ pc[r] = "savepoint" => ~Committed(<<"chunk", Item(r), Ticker(r)>>)
       /\ pc[r] # "reselect"

SessionsArePlaced == \A r \in Runs : SessionIsPlaced(r) /\ SightIsCurrent(r)

\* The ticker a disclosure or a news row names has its own evidence of it, unless the
\* clean-up deleted it after a run of that ticker committed while it was open
\* (orchestrator.py:322-400,546-621, readiness.py:104-148).
OwnersHaveEvidence ==
  \A k \in Chunked : row[k] # NoRow => <<row[k], k>> \in chunks \cup swept.lost

\* Runs of two tickers have overlapped on an item.
Contested(k) ==
  \E r, q \in Runs : q \in met[r] /\ Ticker(r) # Ticker(q) /\ k \in Served(r) \cap Served(q)

\* A document and its row name one ticker, except after runs of two tickers that have
\* overlapped on the item: the later one to flush finds a ticker in its session that is
\* its own already and does not write it (persistence.py:49-56, orchestrator.py:378-387,
\* 596-604).
OwnersAgree == \A k \in Keys : doc[k] # row[k] => Contested(k)

\* Until then a run that does not write the ticker of a row knows it to be its own.
OwnersAreKnown ==
  \A r \in Runs : \A w \in dirty[r] \cup held[r] :
    w.what # "chunk" /\ ~w.own => doc[w.key] = Ticker(r) \/ Contested(w.key)

\* The state is consistent while runs and the clean-up overlap.
IInv ==
  /\ TypeOK /\ WritesAreExclusive /\ SessionsAreWhole /\ SweepIsExcused /\ OwnersAgree
  /\ CallsRest /\ ActorsHaveMet /\ SessionsArePlaced /\ OwnersAreKnown
  /\ ArchiveComesFirst

=============================================================================
