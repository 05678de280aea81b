--------------------------- MODULE AccountsProofs ---------------------------
(***************************************************************************)
(* Proofs about Accounts: the inductive invariant IInv, the refinement of  *)
(* AccountPromise, and which errors need a rival.                          *)
(***************************************************************************)
EXTENDS Accounts, TLAPS

USE DEF At, GoTo, Load, Kind, Claim, Value, account, upload

\* What a request may ask, and the item it is about.
LEMMA RequestShape ==
  ASSUME TypeOK, NEW r \in Requests
  PROVE  /\ Kind(r) \in Kinds /\ Claim(r) \in Values \cup {NoValue} /\ Value(r) \in Values
         /\ Items(r) \in Seq(Tickers) /\ DOMAIN Items(r) = 1..Len(Items(r))
         /\ \A k \in DOMAIN Items(r) : Items(r)[k] \in Tickers /\ Items(r)[k] \in ToSet(Items(r))
         /\ ToSet(Items(r)) \subseteq Tickers
         /\ \A t \in ToSet(Items(r)) : \E k \in DOMAIN Items(r) : Items(r)[k] = t
         /\ Kind(r) \in {"add", "memo", "remove"} =>
              Ticker(r) \in Tickers /\ ToSet(Items(r)) = {Ticker(r)}
<1>1. request[r] \in Input
  BY LoadsAssumption DEF TypeOK
<1>2. Items(r) \in Seq(Tickers)
  BY <1>1 DEF Input, Items
<1>3. Kind(r) \in {"add", "memo", "remove"} => Len(Items(r)) = 1
  BY LoadsAssumption DEF TypeOK, Items
<1> QED
  BY <1>1, <1>2, <1>3 DEF Input, Kinds, Items, Ticker, ToSet

\* What a row of the list is.
LEMMA RowShape ==
  ASSUME NEW r \in Requests, Value(r) \in Values
  PROVE  Item(r) \in Row /\ Item(r) # NoRow /\ \A row \in Row : row # NoRow
BY NamesAssumption DEF Item, Row

\* The inductive invariant holds at first.
LEMMA InitInvariant ==
  Init => IInv
<1> SUFFICES ASSUME Init PROVE IInv
  OBVIOUS
<1>1. TypeOK
  BY NamesAssumption DEF Init, TypeOK, Labels, Ended, Row
<1> QED
  BY <1>1 DEF Init, IInv, PendingIsExclusive, HandlersAreReady, Ready, NothingIsLost, Remembers, Ended

\* A step keeps every variable in its type.
LEMMA TypeKept ==
  ASSUME IInv, NEW r \in Requests, Step(r) \/ Kill(r), UNCHANGED request, Remember
  PROVE  TypeOK'
<1> USE DEF IInv, TypeOK
<1>a. /\ Claim(r) \in Values \cup {NoValue} /\ Value(r) \in Values /\ Item(r) \in Row
      /\ \A k \in DOMAIN Items(r) : Items(r)[k] \in Tickers
      /\ Kind(r) \in {"add", "memo", "remove"} => Ticker(r) \in Tickers
  BY RequestShape, RowShape
<1>0. met' \in [Requests -> SUBSET (Tickers \cup {"account"})]
  <2>1. \A q \in Requests : Met(q)' \subseteq Tickers \cup {"account"}
    BY RequestShape DEF Met, Targets, Items
  <2> QED
    BY <2>1 DEF Remember
<1>1. CASE Authenticate(r)
  BY <1>1, <1>0, <1>a DEF Authenticate, SelectUser, Outdated, Labels, Ended
<1>2. CASE Register(r)
  BY <1>2, <1>0, <1>a DEF Register, Labels, Ended
<1>3. CASE ReselectUser(r)
  BY <1>3, <1>0, <1>a DEF ReselectUser, SelectUser, Outdated, Labels, Ended
<1>4. CASE Sync(r)
  BY <1>4, <1>0, <1>a DEF Sync, Labels, Ended
<1>5. CASE Reload(r)
  BY <1>5, <1>0, <1>a DEF Reload, Labels, Ended
<1>6. CASE Finish(r)
  BY <1>6, <1>0, <1>a DEF Finish, Labels, Ended
<1>7. CASE Rename(r)
  BY <1>7, <1>0, <1>a DEF Rename, Handles, Labels, Ended
<1>8. CASE FindPrefs(r)
  BY <1>8, <1>0, <1>a DEF FindPrefs, Handles, Labels, Ended
<1>9. CASE InsertPrefs(r)
  BY <1>9, <1>0, <1>a DEF InsertPrefs, Labels, Ended
<1>10. CASE UpdatePrefs(r)
  BY <1>10, <1>0, <1>a DEF UpdatePrefs, Labels, Ended
<1>11. CASE FindForAdd(r)
  BY <1>11, <1>0, <1>a DEF FindForAdd, Handles, Labels, Ended
<1>12. CASE FindForMemo(r)
  BY <1>12, <1>0, <1>a DEF FindForMemo, Handles, Present, Labels, Ended
<1>13. CASE FindForRemove(r)
  BY <1>13, <1>0, <1>a DEF FindForRemove, Handles, Present, Labels, Ended
<1>14. CASE Insert(r)
  <2>1. Ticker(r) \in Tickers
    BY <1>14, <1>a DEF Insert, HandlersAreReady, Ready
  <2>2. pc' \in [Requests -> Labels]
    BY <1>14 DEF Insert, Labels
  <2>3. watch' \in [Tickers -> Row \cup {NoRow}]
    BY <1>14, <2>1, <1>a DEF Insert, Put
  <2>4. read' \in [Requests -> Row \cup Values \cup {NoValue, NoRow}]
    BY <1>14, <2>1, <1>a DEF Insert
  <2> QED
    BY <1>14, <1>0, <2>2, <2>3, <2>4 DEF Insert
<1>15. CASE Reselect(r)
  BY <1>15, <1>0, <1>a DEF Reselect, Labels, Ended
<1>16. CASE UpdateMemo(r)
  <2>1. Ticker(r) \in Tickers /\ read[r] \in Row
    BY <1>16, <1>a DEF UpdateMemo, HandlersAreReady, Ready
  <2>2. pc' \in [Requests -> Labels]
    BY <1>16 DEF UpdateMemo, Labels, Ended
  <2>3. [read[r] EXCEPT !.memo = Value(r)] \in Row
    BY <2>1, <1>a DEF Row
  <2>4. watch' \in [Tickers -> Row \cup {NoRow}]
    BY <1>16, <2>1, <2>3 DEF UpdateMemo, Put
  <2> QED
    BY <1>16, <1>0, <2>2, <2>4 DEF UpdateMemo
<1>17. CASE Refresh(r)
  BY <1>17, <1>0, <1>a DEF Refresh, SameRow, Labels, Ended
<1>18. CASE Delete(r)
  BY <1>18, <1>0, <1>a DEF Delete, SameRow, Put, Labels, Ended
<1>19. CASE BeginImport(r)
  BY <1>19, <1>0, <1>a DEF BeginImport, Handles, Present, Labels, Ended
<1>20. CASE SkipKnown(r)
  <2>1. Current(r) \in Tickers
    BY <1>20, <1>a DEF SkipKnown, Importing, Current
  <2>2. known' \in [Requests -> SUBSET Tickers] /\ pos' \in [Requests -> Nat \ {0}]
    BY <1>20, <2>1 DEF SkipKnown, Skip
  <2> QED
    BY <1>20, <1>0, <2>2 DEF SkipKnown
<1>21. CASE RefuseItem(r)
  BY <1>21, <1>0, <1>a DEF RefuseItem, Importing, Current, Labels, Ended
<1>22. CASE InsertItem(r)
  <2>1. Current(r) \in Tickers
    BY <1>22, <1>a DEF InsertItem, Importing, Current
  <2>2. known' \in [Requests -> SUBSET Tickers] /\ pos' \in [Requests -> Nat \ {0}]
    BY <1>22, <2>1 DEF InsertItem, Skip
  <2>3. pc' \in [Requests -> Labels]
    BY <1>22 DEF InsertItem, Labels
  <2>4. pending' \in [Requests -> SUBSET Tickers]
    BY <1>22, <2>1 DEF InsertItem
  <2> QED
    BY <1>22, <1>0, <2>2, <2>3, <2>4 DEF InsertItem
<1>23. CASE ItemExists(r)
  <2>1. Current(r) \in Tickers
    BY <1>23, <1>a DEF ItemExists, HandlersAreReady, Ready, Current
  <2>2. known' \in [Requests -> SUBSET Tickers] /\ pos' \in [Requests -> Nat \ {0}]
    BY <1>23, <2>1 DEF ItemExists, Skip
  <2>3. pending' \in [Requests -> SUBSET Tickers] /\ pc' \in [Requests -> Labels]
    BY <1>23, <2>1 DEF ItemExists, Labels, Ended
  <2> QED
    BY <1>23, <1>0, <2>2, <2>3 DEF ItemExists
<1>24. CASE CommitImport(r)
  BY <1>24, <1>0, <1>a DEF CommitImport, Importing, Labels, Ended
<1>25. CASE List(r)
  BY <1>25, <1>0, <1>a DEF List, Labels, Ended
<1>26. CASE Victim(r)
  BY <1>26, <1>0, <1>a DEF Victim, Labels, Ended
<1>27. CASE Kill(r)
  BY <1>27, <1>0, <1>a DEF Kill, Labels, Ended
<1> QED
  BY <1>1, <1>2, <1>3, <1>4, <1>5, <1>6, <1>7, <1>8, <1>9, <1>10, <1>11, <1>12, <1>13, <1>14, <1>15, <1>16, <1>17, <1>18, <1>19, <1>20, <1>21, <1>22, <1>23, <1>24, <1>25, <1>26, <1>27 DEF Step, UserStep, AccountStep, ItemStep, ImportStep

\* A step is of a request that has begun, and leaves the others' state as it is.
LEMMA OthersStay ==
  ASSUME IInv, NEW r \in Requests, Step(r) \/ Kill(r), UNCHANGED request, Remember
  PROVE  /\ pc'[r] # "idle" /\ pc[r] \notin Ended
         /\ \A q \in Requests \ {r} :
              /\ pc'[q] = pc[q] /\ read'[q] = read[q] /\ known'[q] = known[q]
              /\ pos'[q] = pos[q] /\ pending'[q] = pending[q]
<1> USE DEF IInv, TypeOK
<1>1. CASE Authenticate(r)
  BY <1>1 DEF Authenticate, SelectUser, Outdated, Ended
<1>2. CASE Register(r)
  BY <1>2 DEF Register, Ended
<1>3. CASE ReselectUser(r)
  BY <1>3 DEF ReselectUser, SelectUser, Outdated, Ended
<1>4. CASE Sync(r)
  BY <1>4 DEF Sync, Ended
<1>5. CASE Reload(r)
  BY <1>5 DEF Reload, Ended
<1>6. CASE Finish(r)
  BY <1>6 DEF Finish, Ended
<1>7. CASE Rename(r)
  BY <1>7 DEF Rename, Handles, Ended
<1>8. CASE FindPrefs(r)
  BY <1>8 DEF FindPrefs, Handles, Ended
<1>9. CASE InsertPrefs(r)
  BY <1>9 DEF InsertPrefs, Ended
<1>10. CASE UpdatePrefs(r)
  BY <1>10 DEF UpdatePrefs, Ended
<1>11. CASE FindForAdd(r)
  BY <1>11 DEF FindForAdd, Handles, Ended
<1>12. CASE FindForMemo(r)
  BY <1>12 DEF FindForMemo, Handles, Ended
<1>13. CASE FindForRemove(r)
  BY <1>13 DEF FindForRemove, Handles, Ended
<1>14. CASE Insert(r)
  BY <1>14 DEF Insert, Inserting, Put, Ended
<1>15. CASE Reselect(r)
  BY <1>15 DEF Reselect, Ended
<1>16. CASE UpdateMemo(r)
  BY <1>16 DEF UpdateMemo, SameRow, Put, Ended
<1>17. CASE Refresh(r)
  BY <1>17 DEF Refresh, SameRow, Ended
<1>18. CASE Delete(r)
  BY <1>18 DEF Delete, SameRow, Put, Ended
<1>19. CASE BeginImport(r)
  BY <1>19 DEF BeginImport, Handles, Ended
<1>20. CASE SkipKnown(r)
  BY <1>20 DEF SkipKnown, Skip, Importing, Current, Ended
<1>21. CASE RefuseItem(r)
  BY <1>21 DEF RefuseItem, Importing, Current, Ended
<1>22. CASE InsertItem(r)
  BY <1>22 DEF InsertItem, Skip, Importing, Current, Inserting, Ended
<1>23. CASE ItemExists(r)
  BY <1>23 DEF ItemExists, Skip, Current, Ended
<1>24. CASE CommitImport(r)
  BY <1>24 DEF CommitImport, Importing, Ended
<1>25. CASE List(r)
  BY <1>25 DEF List, Ended
<1>26. CASE Victim(r)
  BY <1>26 DEF Victim, Deadlocked, Waits, Importing, Ended
<1>27. CASE Kill(r)
  BY <1>27 DEF Kill, Ended
<1> QED
  BY <1>1, <1>2, <1>3, <1>4, <1>5, <1>6, <1>7, <1>8, <1>9, <1>10, <1>11, <1>12, <1>13, <1>14, <1>15, <1>16, <1>17, <1>18, <1>19, <1>20, <1>21, <1>22, <1>23, <1>24, <1>25, <1>26, <1>27 DEF Step, UserStep, AccountStep, ItemStep, ImportStep

\* Two requests never have an uncommitted insert of the same row.
LEMMA PendingKept ==
  ASSUME IInv, NEW r \in Requests, Step(r) \/ Kill(r), UNCHANGED request, Remember
  PROVE  PendingIsExclusive'
<1> USE DEF IInv, TypeOK, PendingIsExclusive
<1>a. /\ Value(r) \in Values /\ Item(r) \in Row /\ \A row \in Row : row # NoRow
      /\ \A k \in DOMAIN Items(r) : Items(r)[k] \in Tickers /\ Items(r)[k] \in ToSet(Items(r))
      /\ Kind(r) \in {"add", "memo", "remove"} => Ticker(r) \in Tickers
  BY RequestShape, RowShape
<1>1. CASE Authenticate(r)
  BY <1>1, <1>a DEF Authenticate, SelectUser, Outdated, Items, Present
<1>2. CASE Register(r)
  BY <1>2, <1>a DEF Register, Items, Present
<1>3. CASE ReselectUser(r)
  BY <1>3, <1>a DEF ReselectUser, SelectUser, Outdated, Items, Present
<1>4. CASE Sync(r)
  BY <1>4, <1>a DEF Sync, Items, Present
<1>5. CASE Reload(r)
  BY <1>5, <1>a DEF Reload, Items, Present
<1>6. CASE Finish(r)
  BY <1>6, <1>a DEF Finish, Items, Present
<1>7. CASE Rename(r)
  BY <1>7, <1>a DEF Rename, Handles, Items, Present
<1>8. CASE FindPrefs(r)
  BY <1>8, <1>a DEF FindPrefs, Handles, Items, Present
<1>9. CASE InsertPrefs(r)
  BY <1>9, <1>a DEF InsertPrefs, Items, Present
<1>10. CASE UpdatePrefs(r)
  BY <1>10, <1>a DEF UpdatePrefs, Items, Present
<1>11. CASE FindForAdd(r)
  BY <1>11, <1>a DEF FindForAdd, Handles, Items, Present
<1>12. CASE FindForMemo(r)
  BY <1>12, <1>a DEF FindForMemo, Handles, Items, Present
<1>13. CASE FindForRemove(r)
  BY <1>13, <1>a DEF FindForRemove, Handles, Items, Present
<1>14. CASE Insert(r)
  <2>1. Ticker(r) \in Tickers /\ pending[r] = {}
    BY <1>14, <1>a DEF Insert, HandlersAreReady, Ready
  <2>2. \A q \in Requests : Ticker(r) \notin pending[q]
    BY <1>14, <2>1 DEF Insert, Inserting
  <2>3. Present' \subseteq Present \cup {Ticker(r)}
    BY <1>14 DEF Insert, Put, Present
  <2>4. \A q \in Requests : pc'[q] \in {"import", "exists"} <=> pc[q] \in {"import", "exists"}
    BY <1>14 DEF Insert
  <2>5. pending' = pending /\ \A q \in Requests : ToSet(Items(q))' = ToSet(Items(q))
    BY <1>14 DEF Insert, Items
  <2> QED
    BY <2>2, <2>3, <2>4, <2>5
<1>15. CASE Reselect(r)
  BY <1>15, <1>a DEF Reselect, Items, Present
<1>16. CASE UpdateMemo(r)
  <2>1. Ticker(r) \in Tickers /\ [read[r] EXCEPT !.memo = Value(r)] \in Row
    BY <1>16, <1>a DEF UpdateMemo, HandlersAreReady, Ready, Row
  <2>2. Present' = Present
    <3>1. CASE SameRow(r)
      <4>1. watch' = [watch EXCEPT ![Ticker(r)] = [read[r] EXCEPT !.memo = Value(r)]]
        BY <1>16, <3>1 DEF UpdateMemo, Put
      <4>2. [read[r] EXCEPT !.memo = Value(r)] # NoRow /\ Ticker(r) \in Present
        BY <2>1, <3>1, <1>a DEF SameRow
      <4> QED
        BY <2>1, <4>1, <4>2 DEF Present
    <3>2. CASE ~SameRow(r)
      BY <1>16, <3>2 DEF UpdateMemo, Present
    <3> QED
      BY <3>1, <3>2
  <2>3. \A q \in Requests : pc'[q] \in {"import", "exists"} <=> pc[q] \in {"import", "exists"}
    BY <1>16 DEF UpdateMemo
  <2>4. pending' = pending /\ \A q \in Requests : ToSet(Items(q))' = ToSet(Items(q))
    BY <1>16 DEF UpdateMemo, Items
  <2> QED
    BY <2>2, <2>3, <2>4
<1>17. CASE Refresh(r)
  BY <1>17, <1>a DEF Refresh, SameRow, Items, Present
<1>18. CASE Delete(r)
  <2>1. Present' \subseteq Present
    BY <1>18 DEF Delete, Put, Present
  <2>2. \A q \in Requests : pc'[q] \in {"import", "exists"} <=> pc[q] \in {"import", "exists"}
    BY <1>18 DEF Delete
  <2>3. pending' = pending /\ \A q \in Requests : ToSet(Items(q))' = ToSet(Items(q))
    BY <1>18 DEF Delete, Items
  <2> QED
    BY <2>1, <2>2, <2>3
<1>19. CASE BeginImport(r)
  BY <1>19, <1>a DEF BeginImport, Handles, Items, Present
<1>20. CASE SkipKnown(r)
  BY <1>20, <1>a DEF SkipKnown, Skip, Importing, Current, Items, Present
<1>21. CASE RefuseItem(r)
  BY <1>21, <1>a DEF RefuseItem, Importing, Current, Items, Present
<1>22. CASE InsertItem(r)
  BY <1>22, <1>a DEF InsertItem, Skip, Importing, Current, Inserting, Items, Present
<1>23. CASE ItemExists(r)
  BY <1>23, <1>a DEF ItemExists, Skip, Current, Ended, Items, Present
<1>24. CASE CommitImport(r)
  BY <1>24, <1>a DEF CommitImport, Importing, Items, Present
<1>25. CASE List(r)
  BY <1>25, <1>a DEF List, Items, Present
<1>26. CASE Victim(r)
  BY <1>26, <1>a DEF Victim, Items, Present
<1>27. CASE Kill(r)
  BY <1>27, <1>a DEF Kill, Items, Present
<1> QED
  BY <1>1, <1>2, <1>3, <1>4, <1>5, <1>6, <1>7, <1>8, <1>9, <1>10, <1>11, <1>12, <1>13, <1>14, <1>15, <1>16, <1>17, <1>18, <1>19, <1>20, <1>21, <1>22, <1>23, <1>24, <1>25, <1>26, <1>27 DEF Step, UserStep, AccountStep, ItemStep, ImportStep

\* What Remember adds, for requests that have begun.
LEMMA Remembered ==
  ASSUME TypeOK, Remember, NEW q \in Requests
  PROVE  /\ pc'[q] = "idle" => met'[q] = {}
         /\ pc'[q] # "idle" => met[q] \subseteq met'[q] /\ Met(q)' \subseteq met'[q]
BY DEF Remember, TypeOK

\* A request that has come to its handler has its user and what it read.
LEMMA HandlersKept ==
  ASSUME IInv, NEW r \in Requests, Step(r) \/ Kill(r), UNCHANGED request, Remember
  PROVE  HandlersAreReady'
<1> USE DEF IInv, TypeOK, HandlersAreReady
<1>a. /\ Claim(r) \in Values \cup {NoValue} /\ Value(r) \in Values /\ Item(r) \in Row
      /\ NoRow \notin Values \cup {NoValue}
      /\ Kind(r) \in {"add", "memo", "remove"} => Ticker(r) \in Tickers
  BY RequestShape, RowShape, NamesAssumption
<1>1. CASE Authenticate(r)
  BY <1>1, <1>a DEF Authenticate, SelectUser, Outdated, Ready, Items, Present, Ended
<1>2. CASE Register(r)
  BY <1>2, <1>a DEF Register, Ready, Items, Present, Ended
<1>3. CASE ReselectUser(r)
  BY <1>3, <1>a DEF ReselectUser, SelectUser, Outdated, Ready, Items, Present, Ended
<1>4. CASE Sync(r)
  BY <1>4, <1>a DEF Sync, Ready, Items, Present, Ended
<1>5. CASE Reload(r)
  BY <1>5, <1>a DEF Reload, Ready, Items, Present, Ended
<1>6. CASE Finish(r)
  BY <1>6, <1>a DEF Finish, Ready, Items, Present, Ended
<1>7. CASE Rename(r)
  BY <1>7, <1>a DEF Rename, Handles, Ready, Items, Present, Ended
<1>8. CASE FindPrefs(r)
  BY <1>8, <1>a DEF FindPrefs, Handles, Ready, Items, Present, Ended
<1>9. CASE InsertPrefs(r)
  BY <1>9, <1>a DEF InsertPrefs, Ready, Items, Present, Ended
<1>10. CASE UpdatePrefs(r)
  BY <1>10, <1>a DEF UpdatePrefs, Ready, Items, Present, Ended
<1>11. CASE FindForAdd(r)
  BY <1>11, <1>a DEF FindForAdd, Handles, Ready, Items, Present, Ended
<1>12. CASE FindForMemo(r)
  BY <1>12, <1>a DEF FindForMemo, Handles, Ready, Items, Present, Ended
<1>13. CASE FindForRemove(r)
  BY <1>13, <1>a DEF FindForRemove, Handles, Ready, Items, Present, Ended
<1>14. CASE Insert(r)
  <2>1. \A q \in Requests \ {r} : pc'[q] = pc[q] /\ read'[q] = read[q] /\ pos'[q] = pos[q]
    BY <1>14, OthersStay
  <2>2. /\ profile' = profile /\ request' = request
        /\ \A q \in Requests : Items(q)' = Items(q)
    BY <1>14 DEF Insert, Items
  <2>3. pc'[r] \in {"reselect", "refresh"} /\ pc[r] \notin {"idle", "register"} \cup Ended
    BY <1>14 DEF Insert, Ended
  <2>4. Kind(r) = "add" /\ (pc'[r] = "refresh" => read'[r] \in Row)
    BY <1>14, <1>a DEF Insert, Ready
  <2> SUFFICES ASSUME NEW q \in Requests
               PROVE  Ready(q)'
    BY DEF HandlersAreReady
  <2>5. CASE q = r
    BY <1>a, <2>2, <2>3, <2>4, <2>5 DEF Ended, Ready
  <2>6. CASE q # r
    <3>1. Ready(q)
      BY DEF Ready
    <3> QED
      BY <2>1, <2>2, <2>6, <3>1 DEF Ready
  <2> QED
    BY <2>5, <2>6
<1>15. CASE Reselect(r)
  BY <1>15, <1>a DEF Reselect, Ready, Items, Present, Ended
<1>16. CASE UpdateMemo(r)
  <2>1. \A q \in Requests \ {r} : pc'[q] = pc[q] /\ read'[q] = read[q] /\ pos'[q] = pos[q]
    BY <1>16, OthersStay
  <2>2. /\ profile' = profile /\ request' = request
        /\ \A q \in Requests : Items(q)' = Items(q)
    BY <1>16 DEF UpdateMemo, Items
  <2>3. pc'[r] \in {"refresh", "error"} /\ pc[r] \notin {"idle", "register"} \cup Ended
    BY <1>16 DEF UpdateMemo, Ended
  <2>4. Kind(r) = "memo" /\ (pc'[r] = "refresh" => read'[r] \in Row)
    BY <1>16, <1>a DEF UpdateMemo, Ready
  <2> SUFFICES ASSUME NEW q \in Requests
               PROVE  Ready(q)'
    BY DEF HandlersAreReady
  <2>5. CASE q = r
    BY <1>a, <2>2, <2>3, <2>4, <2>5 DEF Ended, Ready
  <2>6. CASE q # r
    <3>1. Ready(q)
      BY DEF Ready
    <3> QED
      BY <2>1, <2>2, <2>6, <3>1 DEF Ready
  <2> QED
    BY <2>5, <2>6
<1>17. CASE Refresh(r)
  BY <1>17, <1>a DEF Refresh, SameRow, Ready, Items, Present, Ended
<1>18. CASE Delete(r)
  BY <1>18, <1>a DEF Delete, SameRow, Put, Ready, Items, Present, Ended
<1>19. CASE BeginImport(r)
  BY <1>19, <1>a DEF BeginImport, Handles, Ready, Items, Present, Ended
<1>20. CASE SkipKnown(r)
  BY <1>20, <1>a DEF SkipKnown, Skip, Importing, Current, Ready, Items, Present, Ended
<1>21. CASE RefuseItem(r)
  BY <1>21, <1>a DEF RefuseItem, Importing, Current, Ready, Items, Present, Ended
<1>22. CASE InsertItem(r)
  BY <1>22, <1>a DEF InsertItem, Skip, Importing, Current, Inserting, Ready, Items, Present, Ended
<1>23. CASE ItemExists(r)
  <2>1. \A q \in Requests \ {r} : pc'[q] = pc[q] /\ read'[q] = read[q] /\ pos'[q] = pos[q]
    BY <1>23, OthersStay
  <2>2. /\ profile' = profile /\ request' = request
        /\ \A q \in Requests : Items(q)' = Items(q)
    BY <1>23 DEF ItemExists, Items
  <2>3. pc'[r] \in {"import", "error"} /\ pc[r] \notin {"idle", "register"} \cup Ended
    BY <1>23 DEF ItemExists, Ended
  <2>4. Kind(r) = "import"
    BY <1>23, <1>a DEF ItemExists, Ready
  <2> SUFFICES ASSUME NEW q \in Requests
               PROVE  Ready(q)'
    BY DEF HandlersAreReady
  <2>5. CASE q = r
    BY <1>a, <2>2, <2>3, <2>4, <2>5 DEF Ended, Ready
  <2>6. CASE q # r
    <3>1. Ready(q)
      BY DEF Ready
    <3> QED
      BY <2>1, <2>2, <2>6, <3>1 DEF Ready
  <2> QED
    BY <2>5, <2>6
<1>24. CASE CommitImport(r)
  BY <1>24, <1>a DEF CommitImport, Importing, Ready, Items, Present, Ended
<1>25. CASE List(r)
  BY <1>25, <1>a DEF List, Ready, Items, Present, Ended
<1>26. CASE Victim(r)
  BY <1>26, <1>a DEF Victim, Ready, Items, Present, Ended
<1>27. CASE Kill(r)
  BY <1>27, <1>a DEF Kill, Ready, Items, Present, Ended
<1> QED
  BY <1>1, <1>2, <1>3, <1>4, <1>5, <1>6, <1>7, <1>8, <1>9, <1>10, <1>11, <1>12, <1>13, <1>14, <1>15, <1>16, <1>17, <1>18, <1>19, <1>20, <1>21, <1>22, <1>23, <1>24, <1>25, <1>26, <1>27 DEF Step, UserStep, AccountStep, ItemStep, ImportStep

\* A list item that stays keeps the request that made it.
LEMMA OwnersStay ==
  ASSUME IInv, NEW r \in Requests, Step(r) \/ Kill(r), UNCHANGED request, Remember
  PROVE  \A t \in Tickers :
           watch[t] # NoRow /\ watch'[t] # NoRow => watch'[t].by = watch[t].by
<1> USE DEF IInv, TypeOK
<1>1. CASE Authenticate(r)
  BY <1>1 DEF Authenticate, SelectUser, Outdated, Present
<1>2. CASE Register(r)
  BY <1>2 DEF Register, Present
<1>3. CASE ReselectUser(r)
  BY <1>3 DEF ReselectUser, SelectUser, Outdated, Present
<1>4. CASE Sync(r)
  BY <1>4 DEF Sync, Present
<1>5. CASE Reload(r)
  BY <1>5 DEF Reload, Present
<1>6. CASE Finish(r)
  BY <1>6 DEF Finish, Present
<1>7. CASE Rename(r)
  BY <1>7 DEF Rename, Handles, Present
<1>8. CASE FindPrefs(r)
  BY <1>8 DEF FindPrefs, Handles, Present
<1>9. CASE InsertPrefs(r)
  BY <1>9 DEF InsertPrefs, Present
<1>10. CASE UpdatePrefs(r)
  BY <1>10 DEF UpdatePrefs, Present
<1>11. CASE FindForAdd(r)
  BY <1>11 DEF FindForAdd, Handles, Present
<1>12. CASE FindForMemo(r)
  BY <1>12 DEF FindForMemo, Handles, Present
<1>13. CASE FindForRemove(r)
  BY <1>13 DEF FindForRemove, Handles, Present
<1>14. CASE Insert(r)
  BY <1>14 DEF Insert, Inserting, Put, HandlersAreReady, Ready, Present
<1>15. CASE Reselect(r)
  BY <1>15 DEF Reselect, Present
<1>16. CASE UpdateMemo(r)
  <2>1. Ticker(r) \in Tickers /\ read[r] \in Row
    BY <1>16, RequestShape DEF UpdateMemo, HandlersAreReady, Ready
  <2>2. [read[r] EXCEPT !.memo = Value(r)].by = read[r].by
    BY <2>1 DEF Row
  <2>3. CASE SameRow(r)
    BY <1>16, <2>1, <2>2, <2>3 DEF UpdateMemo, SameRow, Put
  <2>4. CASE ~SameRow(r)
    BY <1>16, <2>4 DEF UpdateMemo
  <2> QED
    BY <2>3, <2>4
<1>17. CASE Refresh(r)
  BY <1>17 DEF Refresh, SameRow, Present
<1>18. CASE Delete(r)
  BY <1>18 DEF Delete, SameRow, Put, Present
<1>19. CASE BeginImport(r)
  BY <1>19 DEF BeginImport, Handles, Present
<1>20. CASE SkipKnown(r)
  BY <1>20 DEF SkipKnown, Skip, Importing, Current, Present
<1>21. CASE RefuseItem(r)
  BY <1>21 DEF RefuseItem, Importing, Current, Present
<1>22. CASE InsertItem(r)
  BY <1>22 DEF InsertItem, Skip, Importing, Current, Inserting, Present
<1>23. CASE ItemExists(r)
  BY <1>23 DEF ItemExists, Skip, Current, Present
<1>24. CASE CommitImport(r)
  BY <1>24 DEF CommitImport, Importing, PendingIsExclusive, Present
<1>25. CASE List(r)
  BY <1>25 DEF List, Present
<1>26. CASE Victim(r)
  BY <1>26 DEF Victim, Present
<1>27. CASE Kill(r)
  BY <1>27 DEF Kill, Present
<1> QED
  BY <1>1, <1>2, <1>3, <1>4, <1>5, <1>6, <1>7, <1>8, <1>9, <1>10, <1>11, <1>12, <1>13, <1>14, <1>15, <1>16, <1>17, <1>18, <1>19, <1>20, <1>21, <1>22, <1>23, <1>24, <1>25, <1>26, <1>27 DEF Step, UserStep, AccountStep, ItemStep, ImportStep

\* A request keeps what it remembers while another takes a step.
LEMMA OthersRemember ==
  ASSUME IInv, TypeOK', NEW r \in Requests, Step(r) \/ Kill(r), UNCHANGED request, Remember,
         NEW q \in Requests \ {r}
  PROVE  Remembers(q)'
<1> USE DEF IInv
<1>1. /\ pc'[q] = pc[q] /\ read'[q] = read[q] /\ known'[q] = known[q]
      /\ pos'[q] = pos[q] /\ pending'[q] = pending[q]
  BY OthersStay
<1>2. /\ pc'[q] = "idle" => met'[q] = {}
      /\ pc'[q] # "idle" => met[q] \subseteq met'[q] /\ Met(q)' \subseteq met'[q]
  BY Remembered
<1>3. Items(q)' = Items(q) /\ Ticker(q)' = Ticker(q)
  BY DEF Items, Ticker
<1>4. Remembers(q) /\ Ready(q)
  BY DEF NothingIsLost, HandlersAreReady
<1>5. ASSUME pc'[q] = "delete"
      PROVE  SameRow(q)' \/ Ticker(q)' \in met'[q]
  <2>1. Kind(q) = "remove" /\ read[q] \in Row /\ Ticker(q) \in Tickers /\ Ticker(q) \in Targets(q)
    BY <1>1, <1>4, <1>5, RequestShape DEF Ready, Targets
  <2>2. CASE Ticker(q) \in met[q]
    BY <1>2, <1>3, <1>5, <2>2
  <2>3. CASE SameRow(q)
    <3>1. watch[Ticker(q)] # NoRow /\ watch[Ticker(q)].by = read[q].by
      BY <2>3 DEF SameRow, Present
    <3>2. CASE watch'[Ticker(q)] = NoRow
      <4>1. Ticker(q) \in Met(q)'
        BY <1>3, <2>1, <3>2 DEF Met, Targets, AsWanted, Items
      <4> QED
        BY <1>2, <1>3, <1>5, <4>1
    <3>3. CASE watch'[Ticker(q)] # NoRow
      BY <1>1, <1>3, <2>1, <3>1, <3>3, OwnersStay DEF SameRow, Present
    <3> QED
      BY <3>2, <3>3
  <2> QED
    BY <1>1, <1>4, <1>5, <2>2, <2>3 DEF Remembers
<1> QED
  BY <1>1, <1>2, <1>3, <1>4, <1>5 DEF Remembers

\* A request remembers what it has found as it wants it.
LEMMA OwnRemembered ==
  ASSUME IInv, NEW r \in Requests, Step(r) \/ Kill(r), UNCHANGED request, Remember, TypeOK'
  PROVE  Remembers(r)'
<1> USE DEF IInv, TypeOK
<1>a. Remembers(r) /\ Ready(r)
  BY DEF NothingIsLost, HandlersAreReady
<1>b. pc'[r] # "idle" /\ met[r] \subseteq met'[r] /\ Met(r)' \subseteq met'[r]
  BY OthersStay, Remembered
<1>c. Kind(r) \in {"add", "memo", "remove"} => Ticker(r) \in Tickers /\ Ticker(r) \in ToSet(Items(r))
  BY RequestShape
<1>d. /\ Items(r)' = Items(r) /\ Ticker(r)' = Ticker(r)
      /\ \A k \in DOMAIN Items(r) : Items(r)[k] \in Tickers /\ Items(r)[k] \in ToSet(Items(r))
      /\ \A t \in ToSet(Items(r)) : t \in Tickers
      /\ DOMAIN Items(r) \subseteq Nat
  BY RequestShape DEF Items, Ticker
<1>e. /\ Kind(r) = "rename" /\ profile' = Value(r) => "account" \in met'[r]
      /\ Kind(r) = "import" => Present' \cap ToSet(Items(r)) \subseteq met'[r]
  BY <1>b, <1>d DEF Met, Targets, AsWanted, Present, Items
<1>1. CASE Authenticate(r)
  BY <1>1, <1>a, <1>b, <1>e DEF Authenticate, SelectUser, Outdated, Remembers, Ended
<1>2. CASE Register(r)
  BY <1>2, <1>a, <1>b, <1>c, <1>d DEF Register, Remembers, Ended
<1>3. CASE ReselectUser(r)
  BY <1>3, <1>a, <1>b, <1>e DEF ReselectUser, SelectUser, Outdated, Remembers, Ended
<1>4. CASE Sync(r)
  BY <1>4, <1>a, <1>b, <1>c, <1>d DEF Sync, Remembers, Ended
<1>5. CASE Reload(r)
  <2>1. pc'[r] = "begin" /\ read'[r] = profile' /\ pos'[r] = pos[r] /\ pc[r] = "reload"
    BY <1>5 DEF Reload
  <2> QED
    BY <1>a, <1>b, <1>e, <2>1 DEF Remembers, Ended
<1>6. CASE Finish(r)
  BY <1>6, <1>a, <1>b, <1>c, <1>d DEF Finish, Remembers, Ended
<1>7. CASE Rename(r)
  BY <1>7, <1>a, <1>b, <1>c, <1>d DEF Rename, Handles, Remembers, Ended
<1>8. CASE FindPrefs(r)
  BY <1>8, <1>a, <1>b, <1>c, <1>d DEF FindPrefs, Handles, Remembers, Ended
<1>9. CASE InsertPrefs(r)
  BY <1>9, <1>a, <1>b, <1>c, <1>d DEF InsertPrefs, Remembers, Ended
<1>10. CASE UpdatePrefs(r)
  BY <1>10, <1>a, <1>b, <1>c, <1>d DEF UpdatePrefs, Remembers, Ended
<1>11. CASE FindForAdd(r)
  BY <1>11, <1>a, <1>b, <1>c, <1>d DEF FindForAdd, Handles, Remembers, Ended
<1>12. CASE FindForMemo(r)
  BY <1>12, <1>a, <1>b, <1>c, <1>d DEF FindForMemo, Handles, Remembers, Ended
<1>13. CASE FindForRemove(r)
  <2>1. pc'[r] = "delete" => SameRow(r)'
    BY <1>13, <1>c, <1>d DEF FindForRemove, Handles, SameRow, Present
  <2>2. pc[r] = "begin" /\ pc'[r] \in {"delete", "answered"} /\ pos'[r] = pos[r]
    BY <1>13 DEF FindForRemove, Handles
  <2> QED
    BY <1>a, <1>b, <2>1, <2>2 DEF Remembers, Ended
<1>14. CASE Insert(r)
  BY <1>14, <1>a, <1>b, <1>c, <1>d DEF Insert, Inserting, Put, Remembers, Ended
<1>15. CASE Reselect(r)
  BY <1>15, <1>a, <1>b, <1>c, <1>d DEF Reselect, Remembers, Ended
<1>16. CASE UpdateMemo(r)
  BY <1>16, <1>a, <1>b, <1>c, <1>d DEF UpdateMemo, SameRow, Put, Remembers, Ended
<1>17. CASE Refresh(r)
  BY <1>17, <1>a, <1>b, <1>c, <1>d DEF Refresh, SameRow, Remembers, Ended
<1>18. CASE Delete(r)
  BY <1>18, <1>a, <1>b, <1>c, <1>d DEF Delete, SameRow, Put, Remembers, Ended
<1>19. CASE BeginImport(r)
  <2>1. pc[r] = "begin" /\ pc'[r] = "import" /\ pos'[r] = pos[r] /\ Kind(r) = "import"
    BY <1>19 DEF BeginImport, Handles
  <2>2. known'[r] = Present'
    BY <1>19 DEF BeginImport, Present
  <2>3. pos'[r] = 1 /\ \A k \in DOMAIN Items(r) : ~(k < 1)
    BY <1>a, <1>d, <2>1, RequestShape DEF Remembers, Ended
  <2> QED
    BY <1>b, <1>d, <1>e, <2>1, <2>2, <2>3 DEF Remembers
<1>20. CASE SkipKnown(r)
  BY <1>20, <1>a, <1>b, <1>c, <1>d DEF SkipKnown, Skip, Importing, Current, Remembers, Ended
<1>21. CASE RefuseItem(r)
  BY <1>21, <1>a, <1>b, <1>c, <1>d DEF RefuseItem, Importing, Current, Remembers, Ended
<1>22. CASE InsertItem(r)
  BY <1>22, <1>a, <1>b, <1>c, <1>d DEF InsertItem, Skip, Importing, Current, Inserting, Remembers, Ended
<1>23. CASE ItemExists(r)
  <2>1. pc[r] = "exists" /\ Kind(r) = "import" /\ pos[r] \in DOMAIN Items(r)
    BY <1>23, <1>a DEF ItemExists, Ready
  <2>2. CASE Current(r) \in Present
    <3>1. /\ pc'[r] = "import" /\ pending'[r] = pending[r] /\ pos'[r] = pos[r] + 1
          /\ known'[r] = known[r] \cup {Current(r)} /\ Present' = Present
      BY <1>23, <2>2 DEF ItemExists, Skip, Present
    <3>2. Current(r) \in met'[r]
      BY <1>d, <1>e, <2>1, <2>2, <3>1 DEF Current
    <3>3. known'[r] \cap ToSet(Items(r)) \subseteq pending'[r] \cup met'[r]
      BY <1>a, <1>b, <2>1, <3>1, <3>2 DEF Remembers
    <3>4. \A k \in DOMAIN Items(r) : k < pos'[r] => Items(r)[k] \in known'[r]
      BY <1>a, <1>d, <2>1, <3>1 DEF Remembers, Current
    <3>5. Items(r)' = Items(r) /\ pc'[r] = "import"
      BY <1>d, <3>1
    <3> QED
      BY <1>b, <3>3, <3>4, <3>5 DEF Remembers
  <2>3. CASE Current(r) \notin Present
    <3>1. pc'[r] = "error"
      BY <1>23, <2>3 DEF ItemExists
    <3> QED
      BY <1>b, <3>1 DEF Remembers, Ended
  <2> QED
    BY <2>2, <2>3
<1>24. CASE CommitImport(r)
  BY <1>24, <1>a, <1>b, <1>c, <1>d DEF CommitImport, Importing, Remembers, Ended
<1>25. CASE List(r)
  BY <1>25, <1>a, <1>b, <1>c, <1>d DEF List, Remembers, Ended
<1>26. CASE Victim(r)
  BY <1>26, <1>a, <1>b, <1>c, <1>d DEF Victim, Remembers, Ended
<1>27. CASE Kill(r)
  BY <1>27, <1>a, <1>b, <1>c, <1>d DEF Kill, Remembers, Ended
<1> QED
  BY <1>1, <1>2, <1>3, <1>4, <1>5, <1>6, <1>7, <1>8, <1>9, <1>10, <1>11, <1>12, <1>13, <1>14, <1>15, <1>16, <1>17, <1>18, <1>19, <1>20, <1>21, <1>22, <1>23, <1>24, <1>25, <1>26, <1>27 DEF Step, UserStep, AccountStep, ItemStep, ImportStep

\* Every step keeps the inductive invariant.
LEMMA StepKeepsInvariant ==
  ASSUME IInv, NEW r \in Requests, Step(r) \/ Kill(r), UNCHANGED request, Remember
  PROVE  IInv'
<1>1. TypeOK'
  BY TypeKept
<1>2. PendingIsExclusive' /\ HandlersAreReady'
  BY PendingKept, HandlersKept
<1>3. NothingIsLost'
  <2>1. \A q \in Requests \ {r} : Remembers(q)'
    BY <1>1, OthersRemember
  <2>2. Remembers(r)'
    BY <1>1, OwnRemembered
  <2> QED
    BY <2>1, <2>2 DEF NothingIsLost
<1> QED
  BY <1>1, <1>2, <1>3 DEF IInv

\* So does a step that changes nothing.
LEMMA StutterKeepsInvariant ==
  IInv /\ UNCHANGED vars => IInv'
<1> SUFFICES ASSUME IInv, UNCHANGED vars PROVE IInv'
  OBVIOUS
<1> USE DEF vars
<1>1. TypeOK'
  BY DEF IInv, TypeOK
<1>2. PendingIsExclusive'
  BY DEF IInv, PendingIsExclusive, Present, Items
<1>3. HandlersAreReady'
  <2>1. \A q \in Requests : Ready(q)' <=> Ready(q)
    BY DEF Ready, Items
  <2> QED
    BY <2>1 DEF IInv, HandlersAreReady
<1>4. NothingIsLost'
  <2>1. \A q \in Requests : Met(q)' = Met(q) /\ SameRow(q)' = SameRow(q) /\ Items(q)' = Items(q)
    BY DEF Met, Targets, AsWanted, SameRow, Present, Ticker, Items
  <2>2. \A q \in Requests : Remembers(q)' <=> Remembers(q)
    BY <2>1 DEF Remembers, Ticker
  <2> QED
    BY <2>2 DEF IInv, NothingIsLost
<1> QED
  BY <1>1, <1>2, <1>3, <1>4 DEF IInv

\* The invariant holds in every state: inserts are exclusive, handlers find what they
\* rely on, and nothing a request leaves out was not there while it ran.
THEOREM Invariance ==
  Spec => []IInv
<1>1. IInv /\ [Next]_vars => IInv'
  BY StepKeepsInvariant, StutterKeepsInvariant DEF Next
<1> QED
  BY <1>1, InitInvariant, PTL DEF Spec

-----------------------------------------------------------------------------
(* Refinement of AccountPromise. *)

\* A step moves one request's status and remembers as the promise does.
LEMMA StatusMoves ==
  ASSUME IInv, NEW r \in Requests, Step(r) \/ Kill(r), UNCHANGED request, Remember
  PROVE  /\ [q \in Requests |-> Map(q)]' = [[q \in Requests |-> Map(q)] EXCEPT ![r] = Map(r)']
         /\ Promise!Remember
         /\ Map(r) \notin {"answered", "failed"}
<1>1. pc'[r] # "idle" /\ pc[r] \notin Ended /\ \A q \in Requests \ {r} : pc'[q] = pc[q]
  BY OthersStay
<1>2. \A q \in Requests \ {r} : Map(q)' = Map(q)
  BY <1>1 DEF Map
<1>3. \A q \in Requests : Map(q)' = "new" <=> pc'[q] = "idle"
  BY DEF Map
<1>4. \A q \in Requests : Promise!Met(q)' = Met(q)'
  BY DEF Promise!Met, Promise!Targets, Promise!AsWanted, Promise!Kind, Met, Targets, AsWanted, ToSet, Items
<1>5. Promise!Remember
  BY <1>3, <1>4 DEF Remember, Promise!Remember
<1>6. Map(r) \notin {"answered", "failed"}
  BY <1>1 DEF Map, Ended
<1> QED
  BY <1>2, <1>5, <1>6

\* A step the promise does not see.
LEMMA RefineBySame ==
  ASSUME IInv, NEW r \in Requests, Step(r) \/ Kill(r), UNCHANGED request, Remember,
         UNCHANGED account, Map(r)' = Map(r), pc[r] # "idle"
  PROVE  UNCHANGED Promise!vars
<1> USE DEF IInv
<1>1. [q \in Requests |-> Map(q)]' = [q \in Requests |-> Map(q)]
  BY StatusMoves
<1>2. \A q \in Requests : met'[q] = met[q]
  <2>1. ASSUME NEW q \in Requests, pc[q] = "idle" PROVE met'[q] = met[q]
    <3>1. pc'[q] = "idle"
      BY <2>1, OthersStay
    <3> QED
      BY <2>1, <3>1, Remembered DEF NothingIsLost, Remembers
  <2>2. ASSUME NEW q \in Requests, pc[q] # "idle" PROVE met'[q] = met[q]
    <3>1. pc'[q] # "idle"
      BY <2>2, OthersStay
    <3>2. Met(q)' = Met(q)
      BY DEF Met, Targets, AsWanted, Items
    <3>3. met'[q] = met[q] \cup Met(q)'
      BY <3>1 DEF Remember
    <3> QED
      BY <2>2, <3>2, <3>3 DEF NothingIsLost, Remembers
  <2> QED
    BY <2>1, <2>2
<1>3. met' = met
  BY <1>2 DEF TypeOK, Remember
<1> QED
  BY <1>1, <1>3 DEF Promise!vars, Promise!account

\* The request fails.
LEMMA RefineByFail ==
  ASSUME IInv, NEW r \in Requests, Step(r) \/ Kill(r), UNCHANGED request, Remember,
         UNCHANGED account, pc[r] # "idle", Map(r)' = "failed"
  PROVE  Promise!Next
<1>1. Map(r) \in {"open", "applied"}
  BY StatusMoves DEF Map
<1> QED
  BY <1>1, StatusMoves DEF Promise!Next, Promise!Step, Promise!Fail, Promise!account

\* The request has its effect on the targets todo.
LEMMA RefineByApply ==
  ASSUME IInv, NEW r \in Requests, Step(r) \/ Kill(r), UNCHANGED request, Remember,
         Map(r) = "open", Map(r)' \in {"applied", "answered"},
         NEW todo \in SUBSET Targets(r), Targets(r) \ met[r] \subseteq todo,
         profile' = IF Kind(r) = "rename" /\ todo # {} THEN Value(r) ELSE profile,
         prefs' = IF Kind(r) = "prefs" /\ todo # {} THEN Value(r) ELSE prefs,
         Kind(r) \in {"add", "import"} => \A t \in todo : watch[t] = NoRow,
         Kind(r) = "memo" => \A t \in todo : watch[t] # NoRow,
         watch' = [t \in Tickers |->
            IF t \notin todo THEN watch[t]
            ELSE CASE Kind(r) \in {"add", "import"} -> Item(r)
                   [] Kind(r) = "memo" -> [watch[t] EXCEPT !.memo = Value(r)]
                   [] OTHER -> NoRow]
  PROVE  Promise!Next
<1>1. Promise!Targets(r) = Targets(r) /\ Promise!Named = Tickers
  BY DEF Promise!Targets, Promise!Kind, Promise!Named, Targets, ToSet, Items, IInv, TypeOK
<1>2. [q \in Requests |-> Map(q)]' = [[q \in Requests |-> Map(q)] EXCEPT ![r] = Map(r)']
  BY StatusMoves
<1>3. Promise!Apply(r)
  BY <1>1, <1>2 DEF Promise!Apply, Promise!Kind, Item
<1> QED
  BY <1>3, StatusMoves DEF Promise!Next, Promise!Step

\* It has nothing left to do.
LEMMA RefineByNothing ==
  ASSUME IInv, NEW r \in Requests, Step(r) \/ Kill(r), UNCHANGED request, Remember,
         UNCHANGED account, Map(r) = "open", Map(r)' \in {"applied", "answered"},
         Targets(r) \subseteq met[r]
  PROVE  Promise!Next
<1>1. watch' = [t \in Tickers |->
         IF t \notin {} THEN watch[t]
         ELSE CASE Kind(r) \in {"add", "import"} -> Item(r)
                [] Kind(r) = "memo" -> [watch[t] EXCEPT !.memo = Value(r)]
                [] OTHER -> NoRow]
  BY DEF IInv, TypeOK
<1>2. {} \in SUBSET Targets(r) /\ Targets(r) \ met[r] \subseteq {}
  OBVIOUS
<1> QED
  BY <1>1, <1>2, RefineByApply

\* Each step of a request has one of the four forms.
LEMMA StepRefines ==
  ASSUME IInv, NEW r \in Requests, Step(r) \/ Kill(r), UNCHANGED request, Remember
  PROVE  Promise!Next \/ UNCHANGED Promise!vars
<1> USE DEF IInv
<1>r. Ready(r) /\ Remembers(r)
  BY DEF HandlersAreReady, NothingIsLost
<1>i. Kind(r) \in {"add", "memo", "remove"} =>
        Ticker(r) \in Tickers /\ ToSet(Items(r)) = {Ticker(r)}
  BY RequestShape
<1>v. Value(r) \in Values /\ Value(r) # NoRow /\ NoRow \notin Row /\ Item(r) \in Row
  BY RequestShape, RowShape, NamesAssumption
<1>w. watch = [t \in Tickers |-> watch[t]]
  BY DEF TypeOK
<1>t. /\ Kind(r) \in {"add", "memo", "remove", "import"} => Targets(r) = ToSet(Items(r))
      /\ Kind(r) \in {"rename", "prefs"} => Targets(r) = {"account"}
      /\ Kind(r) = "read" => Targets(r) = {}
  BY DEF Targets
<1>m. /\ pc[r] # "idle" => Met(r) \subseteq met[r]
      /\ Kind(r) \in {"add", "import"} => \A t \in Targets(r) : watch[t] # NoRow => t \in Met(r)
      /\ Kind(r) = "remove" => \A t \in Targets(r) : watch[t] = NoRow => t \in Met(r)
      /\ Kind(r) = "memo" => \A t \in Targets(r) :
           watch[t] # NoRow /\ watch[t].memo = Value(r) => t \in Met(r)
      /\ Kind(r) = "prefs" /\ prefs = Value(r) => "account" \in Met(r)
  BY <1>r, <1>t DEF Met, AsWanted, Remembers
<1>1. CASE Authenticate(r)
  <2>1. Map(r) = "new" /\ Map(r)' = "open" /\ UNCHANGED account
    BY <1>1 DEF Authenticate, SelectUser, Map, TypeOK
  <2> QED
    BY <2>1, StatusMoves DEF Promise!Next, Promise!Step, Promise!Begin, Promise!account
<1>2. CASE Register(r) /\ profile = NoRow
  <2>1. Map(r) = "open" /\ Map(r)' = "open" /\ profile' = Claim(r) /\ UNCHANGED <<prefs, watch>>
    BY <1>2 DEF Register, Map, TypeOK
  <2> QED
    BY <1>2, <2>1, StatusMoves DEF Promise!Next, Promise!Step, Promise!Adopt
<1>3. CASE Register(r) /\ profile # NoRow
  <2>1. Map(r)' = Map(r) /\ UNCHANGED account /\ pc[r] # "idle"
    BY <1>3 DEF Register, Map, TypeOK
  <2> QED
    BY <2>1, RefineBySame
<1>4. CASE ReselectUser(r)
  <2>1. Map(r)' \in {Map(r), "failed"} /\ UNCHANGED account /\ pc[r] # "idle"
    BY <1>4 DEF ReselectUser, SelectUser, Map, TypeOK
  <2> QED
    BY <2>1, RefineBySame, RefineByFail
<1>5. CASE Sync(r)
  <2>1. Map(r) = "open" /\ Map(r)' = "open" /\ profile' = Claim(r) /\ UNCHANGED <<prefs, watch>>
    BY <1>5 DEF Sync, Map, TypeOK
  <2>2. Claim(r) # NoValue
    BY <1>5, <1>r DEF Sync, Ready
  <2> QED
    BY <2>1, <2>2, StatusMoves DEF Promise!Next, Promise!Step, Promise!Adopt
<1>6. CASE Reload(r) \/ BeginImport(r) \/ SkipKnown(r) \/ InsertItem(r)
  <2>1. Map(r)' = Map(r) /\ UNCHANGED account /\ pc[r] # "idle"
    BY <1>6 DEF Reload, BeginImport, Handles, SkipKnown, InsertItem, Importing, Map, TypeOK
  <2> QED
    BY <2>1, RefineBySame
<1>7. CASE Finish(r)
  <2>1. CASE Kind(r) = "read"
    <3>1. Map(r) = "open" /\ Map(r)' = "answered" /\ UNCHANGED account
      BY <1>7, <2>1 DEF Finish, Map, TypeOK
    <3> QED
      BY <1>t, <2>1, <3>1, RefineByNothing
  <2>2. CASE Kind(r) # "read"
    <3>1. Map(r)' = "failed" /\ UNCHANGED account /\ pc[r] # "idle"
      BY <1>7, <2>2 DEF Finish, Map, TypeOK
    <3> QED
      BY <3>1, RefineByFail
  <2> QED
    BY <2>1, <2>2
<1>8. CASE Rename(r)
  <2>1. Map(r) = "open" /\ Map(r)' = "answered" /\ Kind(r) = "rename" /\ pc[r] = "begin"
    BY <1>8 DEF Rename, Handles, Map, TypeOK
  <2>2. CASE read[r] = Value(r)
    BY <1>8, <1>r, <1>t, <2>1, <2>2, RefineByNothing DEF Rename, Remembers
  <2>3. CASE read[r] # Value(r)
    <3> DEFINE todo == {"account"}
    <3>1. /\ todo \in SUBSET Targets(r) /\ Targets(r) \ met[r] \subseteq todo
          /\ profile' = (IF Kind(r) = "rename" /\ todo # {} THEN Value(r) ELSE profile)
          /\ prefs' = (IF Kind(r) = "prefs" /\ todo # {} THEN Value(r) ELSE prefs)
      BY <1>8, <1>t, <2>1, <2>3 DEF Rename
    <3>2. watch' = [t \in Tickers |->
            IF t \notin todo THEN watch[t]
            ELSE CASE Kind(r) \in {"add", "import"} -> Item(r)
                   [] Kind(r) = "memo" -> [watch[t] EXCEPT !.memo = Value(r)]
                   [] OTHER -> NoRow]
      BY <1>8, <1>w, NamesAssumption DEF Rename
    <3> QED
      BY <2>1, <3>1, <3>2, RefineByApply
  <2> QED
    BY <2>2, <2>3
<1>9. CASE FindPrefs(r)
  <2>1. Kind(r) = "prefs" /\ UNCHANGED account /\ Map(r) = "open" /\ pc[r] # "idle"
    BY <1>9 DEF FindPrefs, Handles, Map
  <2>2. CASE prefs = Value(r)
    <3>1. Map(r)' = "answered"
      BY <1>9, <1>v, <2>2 DEF FindPrefs, Map, TypeOK
    <3> QED
      BY <1>m, <1>t, <2>1, <2>2, <3>1, RefineByNothing
  <2>3. CASE prefs # Value(r)
    <3>1. Map(r)' = "open"
      BY <1>9, <2>3 DEF FindPrefs, Map, TypeOK
    <3> QED
      BY <2>1, <3>1, RefineBySame
  <2> QED
    BY <2>2, <2>3
<1>10. CASE (InsertPrefs(r) /\ prefs = NoRow) \/ UpdatePrefs(r)
  <2>1. /\ Map(r) = "open" /\ Map(r)' = "answered" /\ Kind(r) = "prefs"
        /\ profile' = profile /\ prefs' = Value(r) /\ watch' = watch
    BY <1>10, <1>r DEF InsertPrefs, UpdatePrefs, Ready, Map, TypeOK
  <2> DEFINE todo == {"account"}
  <2>2. /\ todo \in SUBSET Targets(r) /\ Targets(r) \ met[r] \subseteq todo
        /\ profile' = (IF Kind(r) = "rename" /\ todo # {} THEN Value(r) ELSE profile)
        /\ prefs' = (IF Kind(r) = "prefs" /\ todo # {} THEN Value(r) ELSE prefs)
    BY <1>t, <2>1
  <2>3. watch' = [t \in Tickers |->
          IF t \notin todo THEN watch[t]
          ELSE CASE Kind(r) \in {"add", "import"} -> Item(r)
                 [] Kind(r) = "memo" -> [watch[t] EXCEPT !.memo = Value(r)]
                 [] OTHER -> NoRow]
    BY <1>w, <2>1, NamesAssumption
  <2> QED
    BY <2>1, <2>2, <2>3, RefineByApply
<1>11. CASE InsertPrefs(r) /\ prefs # NoRow
  <2>1. Map(r)' = "failed" /\ UNCHANGED account /\ pc[r] # "idle"
    BY <1>11 DEF InsertPrefs, Map, TypeOK
  <2> QED
    BY <2>1, RefineByFail
<1>12. CASE FindForAdd(r)
  <2>1. Kind(r) = "add" /\ UNCHANGED account /\ Map(r) = "open" /\ pc[r] # "idle"
    BY <1>12 DEF FindForAdd, Handles, Map
  <2>2. CASE Ticker(r) \in Stocks /\ Ticker(r) \in Present
    <3>1. Map(r)' = "answered"
      BY <1>12, <2>2 DEF FindForAdd, Map, TypeOK
    <3> QED
      BY <1>i, <1>m, <1>t, <2>1, <2>2, <3>1, RefineByNothing DEF Present
  <2>3. CASE ~(Ticker(r) \in Stocks /\ Ticker(r) \in Present)
    <3>1. Map(r)' \in {"open", "failed"}
      BY <1>12, <2>3 DEF FindForAdd, Map, TypeOK
    <3> QED
      BY <2>1, <3>1, RefineBySame, RefineByFail
  <2> QED
    BY <2>2, <2>3
<1>13. CASE FindForMemo(r)
  <2>1. Kind(r) = "memo" /\ UNCHANGED account /\ Map(r) = "open" /\ pc[r] # "idle"
    BY <1>13 DEF FindForMemo, Handles, Map
  <2>2. CASE Ticker(r) \in Present /\ watch[Ticker(r)].memo = Value(r)
    <3>1. Map(r)' = "applied"
      BY <1>13, <2>2 DEF FindForMemo, Map, TypeOK
    <3> QED
      BY <1>i, <1>m, <1>t, <2>1, <2>2, <3>1, RefineByNothing DEF Present
  <2>3. CASE ~(Ticker(r) \in Present /\ watch[Ticker(r)].memo = Value(r))
    <3>1. Map(r)' \in {"open", "failed"}
      BY <1>13, <2>3 DEF FindForMemo, Map, TypeOK
    <3> QED
      BY <2>1, <3>1, RefineBySame, RefineByFail
  <2> QED
    BY <2>2, <2>3
<1>14. CASE FindForRemove(r)
  <2>1. Kind(r) = "remove" /\ UNCHANGED account /\ Map(r) = "open" /\ pc[r] # "idle"
    BY <1>14 DEF FindForRemove, Handles, Map
  <2>2. CASE Ticker(r) \in Present
    <3>1. Map(r)' = "open"
      BY <1>14, <2>2 DEF FindForRemove, Map, TypeOK
    <3> QED
      BY <2>1, <3>1, RefineBySame
  <2>3. CASE Ticker(r) \notin Present
    <3>1. Map(r)' = "answered"
      BY <1>14, <2>3 DEF FindForRemove, Map, TypeOK
    <3> QED
      BY <1>i, <1>m, <1>t, <2>1, <2>3, <3>1, RefineByNothing DEF Present
  <2> QED
    BY <2>2, <2>3
<1>15. CASE Insert(r) /\ Ticker(r) \in Present
  <2>1. Map(r)' = Map(r) /\ UNCHANGED account /\ pc[r] # "idle"
    BY <1>15 DEF Insert, Map, TypeOK
  <2> QED
    BY <2>1, RefineBySame
<1>16. CASE Insert(r) /\ Ticker(r) \notin Present
  <2>1. /\ Map(r) = "open" /\ Map(r)' = "applied" /\ Kind(r) = "add"
        /\ UNCHANGED <<profile, prefs>> /\ watch' = [watch EXCEPT ![Ticker(r)] = Item(r)]
    BY <1>16, <1>r DEF Insert, Put, Ready, Map, TypeOK
  <2> DEFINE todo == {Ticker(r)}
  <2>2. /\ todo \in SUBSET Targets(r) /\ Targets(r) \ met[r] \subseteq todo
        /\ \A t \in todo : watch[t] = NoRow
    BY <1>16, <1>i, <1>t, <2>1 DEF Present
  <2>3. watch' = [t \in Tickers |->
          IF t \notin todo THEN watch[t]
          ELSE CASE Kind(r) \in {"add", "import"} -> Item(r)
                 [] Kind(r) = "memo" -> [watch[t] EXCEPT !.memo = Value(r)]
                 [] OTHER -> NoRow]
    BY <1>w, <1>i, <2>1
  <2> QED
    BY <2>1, <2>2, <2>3, RefineByApply
<1>17. CASE Reselect(r)
  <2>1. Kind(r) = "add" /\ UNCHANGED account /\ Map(r) = "open" /\ pc[r] # "idle"
    BY <1>17, <1>r DEF Reselect, Ready, Map
  <2>2. CASE Ticker(r) \in Present
    <3>1. Map(r)' = "answered"
      BY <1>17, <2>2 DEF Reselect, Map, TypeOK
    <3> QED
      BY <1>i, <1>m, <1>t, <2>1, <2>2, <3>1, RefineByNothing DEF Present
  <2>3. CASE Ticker(r) \notin Present
    <3>1. Map(r)' = "failed"
      BY <1>17, <2>3 DEF Reselect, Map, TypeOK
    <3> QED
      BY <2>1, <3>1, RefineByFail
  <2> QED
    BY <2>2, <2>3
<1>18. CASE UpdateMemo(r) /\ SameRow(r)
  <2>1. /\ Map(r) = "open" /\ Map(r)' = "applied" /\ Kind(r) = "memo" /\ read[r] \in Row
        /\ UNCHANGED <<profile, prefs>>
        /\ watch' = [watch EXCEPT ![Ticker(r)] = [read[r] EXCEPT !.memo = Value(r)]]
    BY <1>18, <1>r DEF UpdateMemo, Put, Ready, Map, TypeOK
  <2> DEFINE todo == {Ticker(r)}
  <2>2. /\ todo \in SUBSET Targets(r) /\ Targets(r) \ met[r] \subseteq todo
        /\ \A t \in todo : watch[t] # NoRow
    BY <1>18, <1>i, <1>t, <2>1 DEF SameRow, Present
  <2>3. [read[r] EXCEPT !.memo = Value(r)] = [watch[Ticker(r)] EXCEPT !.memo = Value(r)]
    <3>1. watch[Ticker(r)] \in Row /\ watch[Ticker(r)].by = read[r].by
      BY <1>18, <1>i, <2>1 DEF SameRow, Present, TypeOK
    <3> QED
      BY <2>1, <3>1 DEF Row
  <2>4. watch' = [t \in Tickers |->
          IF t \notin todo THEN watch[t]
          ELSE CASE Kind(r) \in {"add", "import"} -> Item(r)
                 [] Kind(r) = "memo" -> [watch[t] EXCEPT !.memo = Value(r)]
                 [] OTHER -> NoRow]
    BY <1>w, <1>i, <2>1, <2>3
  <2> QED
    BY <2>1, <2>2, <2>4, RefineByApply
<1>19. CASE UpdateMemo(r) /\ ~SameRow(r)
  <2>1. Map(r)' = "failed" /\ UNCHANGED account /\ pc[r] # "idle"
    BY <1>19 DEF UpdateMemo, Map, TypeOK
  <2> QED
    BY <2>1, RefineByFail
<1>20. CASE Refresh(r) \/ List(r)
  <2>1. Map(r) = "applied" /\ Map(r)' \in {"answered", "failed"} /\ UNCHANGED account /\ pc[r] # "idle"
    BY <1>20 DEF Refresh, List, Map, TypeOK
  <2>2. CASE Map(r)' = "answered"
    BY <2>1, <2>2, StatusMoves DEF Promise!Next, Promise!Step, Promise!Answer, Promise!account
  <2> QED
    BY <2>1, <2>2, RefineByFail
<1>21. CASE Delete(r) /\ SameRow(r)
  <2>1. /\ Map(r) = "open" /\ Map(r)' = "answered" /\ Kind(r) = "remove"
        /\ UNCHANGED <<profile, prefs>> /\ watch' = [watch EXCEPT ![Ticker(r)] = NoRow]
    BY <1>21, <1>r DEF Delete, Put, Ready, Map, TypeOK
  <2> DEFINE todo == {Ticker(r)}
  <2>2. todo \in SUBSET Targets(r) /\ Targets(r) \ met[r] \subseteq todo
    BY <1>i, <1>t, <2>1
  <2>3. watch' = [t \in Tickers |->
          IF t \notin todo THEN watch[t]
          ELSE CASE Kind(r) \in {"add", "import"} -> Item(r)
                 [] Kind(r) = "memo" -> [watch[t] EXCEPT !.memo = Value(r)]
                 [] OTHER -> NoRow]
    BY <1>w, <1>i, <2>1
  <2> QED
    BY <2>1, <2>2, <2>3, RefineByApply
<1>22. CASE Delete(r) /\ ~SameRow(r)
  <2>1. /\ Map(r) = "open" /\ Map(r)' = "answered" /\ Kind(r) = "remove" /\ UNCHANGED account
        /\ pc[r] = "delete"
    BY <1>22, <1>r DEF Delete, Ready, Map, TypeOK
  <2>2. Ticker(r) \in met[r]
    BY <1>22, <1>r, <2>1 DEF Remembers
  <2> QED
    BY <1>i, <1>t, <2>1, <2>2, RefineByNothing
<1>23. CASE RefuseItem(r) \/ Victim(r) \/ Kill(r)
  <2>1. Map(r)' = "failed" /\ UNCHANGED account /\ pc[r] # "idle"
    BY <1>23 DEF RefuseItem, Importing, Victim, Deadlocked, Waits, Kill, Map, TypeOK
  <2> QED
    BY <2>1, RefineByFail
<1>24. CASE ItemExists(r)
  <2>1. Map(r)' \in {Map(r), "failed"} /\ UNCHANGED account /\ pc[r] # "idle"
    BY <1>24 DEF ItemExists, Map, TypeOK
  <2> QED
    BY <2>1, RefineBySame, RefineByFail
<1>25. CASE CommitImport(r)
  <2>1. /\ Map(r) = "open" /\ Map(r)' = "applied" /\ Kind(r) = "import" /\ pc[r] = "import"
        /\ UNCHANGED <<profile, prefs>>
        /\ watch' = [t \in Tickers |-> IF t \in pending[r] THEN Item(r) ELSE watch[t]]
    BY <1>25, <1>r DEF CommitImport, Ready, Map, TypeOK
  <2>2. \A k \in DOMAIN Items(r) : k < pos[r]
    <3>1. pos[r] \in Nat \ {0} /\ pos[r] \notin 1..Len(Items(r)) /\ DOMAIN Items(r) = 1..Len(Items(r))
          /\ Len(Items(r)) \in Nat
      BY <1>25, RequestShape DEF CommitImport, Importing, TypeOK
    <3> QED
      BY <3>1
  <2>3. Targets(r) \ met[r] \subseteq pending[r]
    <3>1. ASSUME NEW t \in ToSet(Items(r)) PROVE t \in known[r]
      <4>1. PICK k \in DOMAIN Items(r) : Items(r)[k] = t
        BY RequestShape
      <4> QED
        BY <1>r, <2>1, <2>2, <4>1 DEF Remembers
    <3> QED
      BY <1>r, <1>t, <2>1, <3>1 DEF Remembers
  <2>4. /\ pending[r] \in SUBSET Targets(r)
        /\ \A t \in pending[r] : watch[t] = NoRow
    BY <1>t, <2>1 DEF PendingIsExclusive, Present, TypeOK
  <2>5. watch' = [t \in Tickers |->
          IF t \notin pending[r] THEN watch[t]
          ELSE CASE Kind(r) \in {"add", "import"} -> Item(r)
                 [] Kind(r) = "memo" -> [watch[t] EXCEPT !.memo = Value(r)]
                 [] OTHER -> NoRow]
    BY <2>1
  <2> QED
    BY <2>1, <2>3, <2>4, <2>5, RefineByApply
<1> QED
  BY <1>1, <1>2, <1>3, <1>4, <1>5, <1>6, <1>7, <1>8, <1>9, <1>10, <1>11, <1>12, <1>13, <1>14,
     <1>15, <1>16, <1>17, <1>18, <1>19, <1>20, <1>21, <1>22, <1>23, <1>24, <1>25
     DEF Step, UserStep, AccountStep, ItemStep, ImportStep

\* Every step of a request is a step of the promise, or none that it can see.
THEOREM RefinesAccountPromise ==
  Spec => KeepsPromise
<1>1. Init => Promise!Init
  BY DEF Init, Promise!Init, Map
<1>2. IInv /\ [Next]_vars => [Promise!Next]_(Promise!vars)
  <2>1. ASSUME UNCHANGED vars
        PROVE  UNCHANGED Promise!vars
    BY <2>1 DEF vars, Map, Promise!vars, Promise!account
  <2>2. ASSUME IInv, Next
        PROVE  [Promise!Next]_(Promise!vars)
    BY <2>2, StepRefines DEF Next
  <2> QED
    BY <2>1, <2>2
<1> QED
  BY <1>1, <1>2, Invariance, PTL DEF Spec, KeepsPromise, Promise!Spec

-----------------------------------------------------------------------------
(* Errors and rivals. *)

\* Only a removal of the item makes it disappear, and only a PUT of the preferences
\* changes them.
LEMMA LossesHaveACause ==
  ASSUME IInv, NEW r \in Requests, Step(r) \/ Kill(r), UNCHANGED request, Remember
  PROVE  /\ \A t \in Tickers :
              watch[t] # NoRow /\ watch'[t] = NoRow => Kind(r) = "remove" /\ Ticker(r) = t
         /\ prefs' # prefs => Kind(r) = "prefs"
<1> USE DEF IInv, TypeOK
<1>r. Ready(r)
  BY DEF HandlersAreReady
<1>1. CASE Authenticate(r)
  BY <1>1 DEF Authenticate, SelectUser
<1>2. CASE Register(r)
  BY <1>2 DEF Register
<1>3. CASE ReselectUser(r)
  BY <1>3 DEF ReselectUser, SelectUser
<1>4. CASE Sync(r)
  BY <1>4 DEF Sync
<1>5. CASE Reload(r)
  BY <1>5 DEF Reload
<1>6. CASE Finish(r)
  BY <1>6 DEF Finish
<1>7. CASE Rename(r)
  BY <1>7 DEF Rename, Handles
<1>8. CASE FindPrefs(r)
  BY <1>8 DEF FindPrefs, Handles
<1>9. CASE InsertPrefs(r)
  BY <1>9, <1>r DEF InsertPrefs, Ready
<1>10. CASE UpdatePrefs(r)
  BY <1>10, <1>r DEF UpdatePrefs, Ready
<1>11. CASE FindForAdd(r)
  BY <1>11 DEF FindForAdd, Handles
<1>12. CASE FindForMemo(r)
  BY <1>12 DEF FindForMemo, Handles
<1>13. CASE FindForRemove(r)
  BY <1>13 DEF FindForRemove, Handles
<1>14. CASE Insert(r)
  <2>1. Item(r) # NoRow
    BY RequestShape, RowShape, NamesAssumption
  <2> QED
    BY <1>14, <2>1 DEF Insert, Put
<1>15. CASE Reselect(r)
  BY <1>15 DEF Reselect
<1>16. CASE UpdateMemo(r)
  <2>1. read[r] \in Row
    BY <1>16, <1>r DEF UpdateMemo, Ready
  <2>2. [read[r] EXCEPT !.memo = Value(r)] # NoRow
    BY <2>1, RequestShape, NamesAssumption DEF Row
  <2> QED
    BY <1>16, <2>2 DEF UpdateMemo, Put
<1>17. CASE Refresh(r)
  BY <1>17 DEF Refresh
<1>18. CASE Delete(r)
  <2>1. Kind(r) = "remove" /\ prefs' = prefs
    BY <1>18, <1>r DEF Delete, Ready
  <2>2. \A t \in Tickers : t # Ticker(r) => watch'[t] = watch[t]
    BY <1>18 DEF Delete, Put
  <2> QED
    BY <2>1, <2>2
<1>19. CASE BeginImport(r)
  BY <1>19 DEF BeginImport, Handles
<1>20. CASE SkipKnown(r)
  BY <1>20 DEF SkipKnown
<1>21. CASE RefuseItem(r)
  BY <1>21 DEF RefuseItem
<1>22. CASE InsertItem(r)
  BY <1>22 DEF InsertItem
<1>23. CASE ItemExists(r)
  BY <1>23 DEF ItemExists
<1>24. CASE CommitImport(r)
  <2>1. Item(r) # NoRow
    BY RequestShape, RowShape, NamesAssumption
  <2> QED
    BY <1>24, <2>1 DEF CommitImport
<1>25. CASE List(r)
  BY <1>25 DEF List
<1>26. CASE Victim(r)
  BY <1>26 DEF Victim
<1>27. CASE Kill(r)
  BY <1>27 DEF Kill
<1> QED
  BY <1>1, <1>2, <1>3, <1>4, <1>5, <1>6, <1>7, <1>8, <1>9, <1>10, <1>11, <1>12, <1>13, <1>14, <1>15, <1>16, <1>17, <1>18, <1>19, <1>20, <1>21, <1>22, <1>23, <1>24, <1>25, <1>26, <1>27
     DEF Step, UserStep, AccountStep, ItemStep, ImportStep

\* A rival that has begun stays one.
LEMMA ProvokedStays ==
  ASSUME IInv, NEW r \in Requests, Step(r) \/ Kill(r), UNCHANGED request, Remember,
         NEW q \in Requests, Provoked(q)
  PROVE  Provoked(q)'
<1>1. PICK p \in Requests \ {q} : pc[p] # "idle" /\ Rivals(q, p)
  BY DEF Provoked
<1>2. pc'[p] # "idle"
  BY <1>1, OthersStay
<1>3. Rivals(q, p)'
  BY <1>1 DEF Rivals, Items
<1> QED
  BY <1>2, <1>3 DEF Provoked

\* Who is going to fail because of another's step has that other for a rival.
LEMMA OthersProvoke ==
  ASSUME IInv, NEW r \in Requests, Step(r) \/ Kill(r), UNCHANGED request, Remember,
         NEW q \in Requests \ {r}, ~Doomed(q), Doomed(q)'
  PROVE  Provoked(q)'
<1> USE DEF IInv
<1>1. /\ pc'[r] # "idle" /\ pc'[q] = pc[q] /\ read'[q] = read[q] /\ pos'[q] = pos[q]
      /\ Items(q)' = Items(q) /\ Ticker(q)' = Ticker(q)
  BY OthersStay DEF Items, Ticker
<1>2. Ready(q)
  BY DEF HandlersAreReady
<1>i. /\ Kind(q) \in {"add", "memo"} =>
           Ticker(q) \in Tickers /\ ToSet(Items(q)) = {Ticker(q)}
      /\ Kind(r) = "remove" => Ticker(r) \in ToSet(Items(r))
  BY RequestShape
<1>3. SUFFICES Rivals(q, r)
  BY <1>1 DEF Provoked, Rivals, Items
<1>4. CASE pc[q] = "insert prefs"
  BY <1>1, <1>2, <1>4, LossesHaveACause DEF Doomed, Ready, Rivals
<1>5. ASSUME NEW t \in Tickers, watch[t] # NoRow, watch'[t] = NoRow,
             Kind(q) \in {"add", "memo", "import"}, t \in ToSet(Items(q))
      PROVE  Rivals(q, r)
  BY <1>5, <1>i, LossesHaveACause DEF Rivals
<1>6. CASE pc[q] = "reselect"
  BY <1>1, <1>2, <1>5, <1>6, <1>i DEF Doomed, Ready, Present
<1>7. CASE pc[q] \in {"update memo", "refresh"}
  <2>1. SameRow(q) /\ ~SameRow(q)'
    BY <1>1, <1>7 DEF Doomed
  <2>2. watch[Ticker(q)] # NoRow /\ watch'[Ticker(q)] = NoRow
    BY <1>1, <1>2, <1>7, <1>i, <2>1, OwnersStay DEF SameRow, Present, Ready
  <2> QED
    BY <1>2, <1>5, <1>7, <1>i, <2>2 DEF Ready
<1>8. CASE pc[q] = "exists"
  <2>1. Current(q)' = Current(q) /\ Current(q) \in Present /\ Current(q) \notin Present'
    BY <1>1, <1>8 DEF Doomed, Current
  <2>2. Current(q) \in ToSet(Items(q))
    BY <1>2, <1>8, RequestShape DEF Ready, Current
  <2> QED
    BY <1>2, <1>5, <1>8, <2>1, <2>2 DEF Ready, Present
<1> QED
  BY <1>1, <1>4, <1>6, <1>7, <1>8 DEF Doomed

\* A request that will fail after its own step had to, or has met its rival.
LEMMA OwnProvoked ==
  ASSUME IInv, OnlyRivalsDoom, NEW r \in Requests, Step(r) \/ Kill(r), UNCHANGED request,
         Remember, Doomed(r)'
  PROVE  Provoked(r)
<1> USE DEF IInv, TypeOK
<1>r. Ready(r)
  BY DEF HandlersAreReady
<1>o. Doomed(r) => Provoked(r)
  BY DEF OnlyRivalsDoom
<1>i. Kind(r) \in {"add", "memo", "remove"} => Ticker(r) \in Tickers
  BY RequestShape
<1>t. Ticker(r)' = Ticker(r) /\ Items(r)' = Items(r)
  BY DEF Ticker, Items
<1>1. CASE Authenticate(r)
  BY <1>1 DEF Authenticate, SelectUser, Doomed, Ended
<1>2. CASE Register(r)
  BY <1>2 DEF Register, Doomed, Ended
<1>3. CASE ReselectUser(r)
  BY <1>3, <1>r DEF ReselectUser, SelectUser, Ready, Doomed, Ended
<1>4. CASE Sync(r)
  BY <1>4 DEF Sync, Doomed, Ended
<1>5. CASE Reload(r)
  BY <1>5 DEF Reload, Doomed, Ended
<1>6. CASE Finish(r)
  BY <1>6 DEF Finish, Doomed, Ended
<1>7. CASE Rename(r)
  BY <1>7 DEF Rename, Handles, Doomed, Ended
<1>8. CASE FindPrefs(r)
  BY <1>8 DEF FindPrefs, Handles, Doomed, Ended
<1>9. CASE InsertPrefs(r)
  BY <1>9, <1>o DEF InsertPrefs, Doomed
<1>10. CASE UpdatePrefs(r)
  BY <1>10 DEF UpdatePrefs, HandlersAreReady, Ready, Doomed, Ended
<1>11. CASE FindForAdd(r)
  BY <1>11 DEF FindForAdd, Handles, Doomed, Ended
<1>12. CASE FindForMemo(r)
  <2>1. CASE pc'[r] = "refused"
    BY <2>1 DEF Doomed
  <2>2. CASE Ticker(r) \in Present
    BY <1>12, <1>i, <1>t, <2>2 DEF FindForMemo, Handles, Doomed, SameRow, Present
  <2> QED
    BY <1>12, <2>1, <2>2 DEF FindForMemo
<1>13. CASE FindForRemove(r)
  BY <1>13 DEF FindForRemove, Handles, Doomed, Ended
<1>14. CASE Insert(r)
  <2>1. CASE Ticker(r) \in Present
    BY <1>14, <1>t, <2>1 DEF Insert, Doomed, Present
  <2>2. CASE Ticker(r) \notin Present
    <3>1. Ticker(r) \in Tickers /\ Item(r) # NoRow
      BY <1>14, <1>i, <1>r, RequestShape, RowShape, NamesAssumption DEF Insert, Ready
    <3>2. pc'[r] = "refresh" /\ watch'[Ticker(r)] = Item(r) /\ read'[r] = Item(r)
      BY <1>14, <2>2, <3>1 DEF Insert, Put
    <3> QED
      BY <1>t, <3>1, <3>2 DEF Doomed, SameRow, Present
  <2> QED
    BY <2>1, <2>2
<1>15. CASE Reselect(r)
  BY <1>15, <1>o DEF Reselect, Doomed
<1>16. CASE UpdateMemo(r)
  <2>1. CASE SameRow(r)
    <3>1. Ticker(r) \in Tickers /\ read[r] \in Row
      BY <1>16, <1>i, <1>r DEF UpdateMemo, Ready
    <3>2. /\ [read[r] EXCEPT !.memo = Value(r)] # NoRow
          /\ [read[r] EXCEPT !.memo = Value(r)].by = read[r].by
      BY <3>1, RequestShape, NamesAssumption DEF Row
    <3>3. /\ pc'[r] = "refresh" /\ read'[r] = read[r]
          /\ watch'[Ticker(r)] = [read[r] EXCEPT !.memo = Value(r)]
      BY <1>16, <2>1, <3>1 DEF UpdateMemo, Put
    <3> QED
      BY <1>t, <3>1, <3>2, <3>3 DEF Doomed, SameRow, Present
  <2>2. CASE ~SameRow(r)
    BY <1>16, <1>o, <2>2 DEF UpdateMemo, Doomed
  <2> QED
    BY <2>1, <2>2
<1>17. CASE Refresh(r)
  BY <1>17, <1>o DEF Refresh, Doomed
<1>18. CASE Delete(r)
  BY <1>18 DEF Delete, Doomed, Ended
<1>19. CASE BeginImport(r)
  BY <1>19 DEF BeginImport, Handles, Doomed, Ended
<1>20. CASE SkipKnown(r)
  BY <1>20 DEF SkipKnown, Importing, Doomed
<1>21. CASE RefuseItem(r)
  BY <1>21 DEF RefuseItem, Doomed
<1>22. CASE InsertItem(r)
  <2>1. CASE Current(r) \in Present
    BY <1>22, <1>t, <2>1 DEF InsertItem, Doomed, Current, Present
  <2>2. CASE Current(r) \notin Present
    BY <1>22, <2>2 DEF InsertItem, Importing, Doomed
  <2> QED
    BY <2>1, <2>2
<1>23. CASE ItemExists(r)
  BY <1>23, <1>o DEF ItemExists, Doomed
<1>24. CASE CommitImport(r)
  BY <1>24 DEF CommitImport, Doomed, Ended
<1>25. CASE List(r)
  BY <1>25 DEF List, Doomed, Ended
<1>26. CASE Victim(r)
  <2>1. PICK q \in Requests : Waits(r, q)
    BY <1>26 DEF Victim, Deadlocked
  <2>2. q # r /\ pc[r] = "import" /\ pos[r] \in DOMAIN Items(r) /\ Current(r) \in pending[q]
    BY <2>1 DEF Waits, Importing
  <2>3. Kind(r) = "import" /\ Current(r) \in ToSet(Items(r))
    BY <1>r, <2>2, RequestShape DEF Ready, Current
  <2>4. Ready(q) /\ pc[q] \in {"import", "exists"} /\ Current(r) \in ToSet(Items(q))
    BY <2>2 DEF HandlersAreReady, PendingIsExclusive
  <2>5. Kind(q) = "import"
    BY <2>4 DEF Ready
  <2> QED
    BY <2>2, <2>3, <2>4, <2>5 DEF Provoked, Rivals
<1>27. CASE Kill(r)
  BY <1>27 DEF Kill, Doomed, Ended
<1> QED
  BY <1>1, <1>2, <1>3, <1>4, <1>5, <1>6, <1>7, <1>8, <1>9, <1>10, <1>11, <1>12, <1>13, <1>14, <1>15, <1>16, <1>17, <1>18, <1>19, <1>20, <1>21, <1>22, <1>23, <1>24, <1>25, <1>26, <1>27
     DEF Step, UserStep, AccountStep, ItemStep, ImportStep

\* A request is going to fail only beside a rival that has begun.
THEOREM OnlyRivalsDoomAlways ==
  Spec => []OnlyRivalsDoom
<1>1. Init => OnlyRivalsDoom
  BY DEF Init, OnlyRivalsDoom, Doomed
<1>2. IInv /\ OnlyRivalsDoom /\ [Next]_vars => OnlyRivalsDoom'
  <2>1. ASSUME OnlyRivalsDoom, UNCHANGED vars
        PROVE  OnlyRivalsDoom'
    <3>1. \A q \in Requests : (Doomed(q)' <=> Doomed(q)) /\ (Provoked(q)' <=> Provoked(q))
      BY <2>1 DEF vars, Doomed, Provoked, Rivals, SameRow, Present, Current, Ticker, Items
    <3> QED
      BY <2>1, <3>1 DEF OnlyRivalsDoom
  <2>2. ASSUME IInv, OnlyRivalsDoom, Next
        PROVE  OnlyRivalsDoom'
    <3>1. PICK r \in Requests : (Step(r) \/ Kill(r)) /\ UNCHANGED request /\ Remember
      BY <2>2 DEF Next
    <3>2. ASSUME NEW q \in Requests, Doomed(q)'
          PROVE  Provoked(q)'
      <4>1. CASE Provoked(q)
        BY <2>2, <3>1, <4>1, ProvokedStays
      <4>2. CASE ~Provoked(q) /\ q # r
        BY <2>2, <3>1, <3>2, <4>2, OthersProvoke DEF OnlyRivalsDoom
      <4>3. CASE ~Provoked(q) /\ q = r
        BY <2>2, <3>1, <3>2, <4>3, OwnProvoked
      <4> QED
        BY <4>1, <4>2, <4>3
    <3> QED
      BY <3>2 DEF OnlyRivalsDoom
  <2> QED
    BY <2>1, <2>2
<1> QED
  BY <1>1, <1>2, Invariance, PTL DEF Spec

\* No request fails with an error unless one that can make it fail has begun: the
\* savepoints and re-selects of protected_routes.py and auth.py leave no other way.
THEOREM ErrorsNeedARivalAlways ==
  Spec => []ErrorsNeedARival
<1>1. OnlyRivalsDoom => ErrorsNeedARival
  BY DEF OnlyRivalsDoom, Doomed, ErrorsNeedARival
<1> QED
  BY <1>1, OnlyRivalsDoomAlways, PTL

=============================================================================
