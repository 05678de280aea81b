------------------------- MODULE BatchLocksProofs -------------------------
(***************************************************************************)
(* Proofs about BatchLocks, for any number of batches and tickers: batches *)
(* that list their tickers in one order never deadlock.                    *)
(***************************************************************************)
EXTENDS BatchLocks, WellFoundedInduction, TLAPS

USE BatchesAssumption, OrdersAssumption, EarlierAssumption

-----------------------------------------------------------------------------
(* The least element of a set of numbers. *)

LessThan == {p \in Nat \X Nat : p[1] < p[2]}

LEMMA LessThanWellFounded == IsWellFoundedOn(LessThan, Nat)
<1>1. LessThan = OpToRel(<, Nat)
  BY Zenon DEF LessThan, OpToRel
<1> QED
  BY <1>1, NatLessThanWellFounded, Zenon

LEMMA LeastElement ==
  ASSUME NEW T, T \subseteq Nat, T # {}
  PROVE  \E x \in T : \A y \in T : x <= y
<1>1. PICK x \in T : \A y \in T : ~(<<y, x>> \in LessThan)
  BY LessThanWellFounded, WFMin
<1>2. \A y \in T : y < x => <<y, x>> \in LessThan
  BY DEF LessThan
<1>3. \A y \in T : x \in Nat /\ y \in Nat /\ ~(y < x)
  BY <1>1, <1>2
<1>4. \A y \in T : x <= y
  BY <1>3
<1> QED
  BY <1>4

-----------------------------------------------------------------------------
(* Types and positions. *)

\* A batch with a ticker left is at one of the tickers of its list.
LEMMA TickerType ==
  ASSUME TypeOK, WithinList, NEW b \in Batches, Busy(b)
  PROVE  /\ Ticker(b) \in Tickers
         /\ pos[b] \in 1..Len(order[b])
         /\ order[b] \in Seq(Tickers)
BY DEF TypeOK, WithinList, Ticker

LEMMA TypeInit == Init => TypeOK /\ WithinList
<1> SUFFICES ASSUME Init PROVE TypeOK /\ WithinList
  OBVIOUS
<1>1. TypeOK
  <2>1. status \in [Tickers -> {"absent", "started", "succeeded", "failed"}]
    BY DEF Init
  <2> QED
    BY <2>1 DEF Init, TypeOK, Labels
<1>2. \A o \in Orders : 1 \in 1..Len(o)
  OBVIOUS
<1> QED
  BY <1>1, <1>2 DEF Init, WithinList

-----------------------------------------------------------------------------
(* One step of a batch. *)

\* The part of the invariant that is about single batches.
BatchInv == TypeOK /\ WithinList /\ HoldsOnlyPassed /\ NoLockWhileWorking

Holds(b) ==
  \A t \in held[b] :
    \/ \E i \in 1..Len(order[b]) : i < pos[b] /\ order[b][i] = t
    \/ pc[b] = "restart" /\ t = Ticker(b)

\* Batch b takes a step and every other one keeps its state.
Moves(b) ==
  /\ order' = order
  /\ \A c \in Batches \ {b} : pos'[c] = pos[c] /\ pc'[c] = pc[c] /\ held'[c] = held[c]

LEMMA StepKeepsBatchInv ==
  ASSUME BatchInv, TypeOK', NEW b \in Batches, Moves(b),
         Busy(b)' => pos'[b] \in 1..Len(order[b]),
         Holds(b)',
         pc'[b] \in {"work", "mark"} => held'[b] = {}
  PROVE  BatchInv'
<1>1. WithinList'
  BY DEF BatchInv, WithinList, Busy, Moves
<1>2. HoldsOnlyPassed'
  <2>1. \A c \in Batches \ {b} : Holds(c) => Holds(c)'
    BY DEF Holds, Moves, Ticker
  <2> QED
    BY <2>1 DEF BatchInv, HoldsOnlyPassed, Holds
<1>3. NoLockWhileWorking'
  BY DEF BatchInv, NoLockWhileWorking, Moves
<1> QED
  BY <1>1, <1>2, <1>3 DEF BatchInv

\* The lock is granted and the ticker finished: it counts as passed.
LEMMA FinishStep ==
  ASSUME BatchInv, NEW b \in Batches, Busy(b), NEW r, Finish(b, r),
         r \in {"replayed", "refused", "succeeded", "failed", "deadlock"},
         status' \in [Tickers -> {"absent", "started", "succeeded", "failed"}],
         pc[b] # "restart",
         NEW H, H \subseteq held[b] \cup {Ticker(b)}, held' = [held EXCEPT ![b] = H]
  PROVE  BatchInv'
<1> DEFINE t == Ticker(b)
<1>1. t \in Tickers /\ pos[b] \in 1..Len(order[b]) /\ order[b] \in Seq(Tickers)
  BY TickerType DEF BatchInv
<1>2. TypeOK'
  BY <1>1 DEF BatchInv, TypeOK, Finish, Labels
<1>3. Moves(b)
  BY DEF Moves, Finish, BatchInv, TypeOK
<1>4. /\ pos'[b] = pos[b] + 1 /\ order'[b] = order[b]
      /\ pc'[b] = IF pos[b] < Len(order[b]) THEN "lookup" ELSE "close"
      /\ held'[b] = H
  BY DEF Finish, BatchInv, TypeOK
<1>5. Busy(b)' => pos'[b] \in 1..Len(order[b])
  BY <1>1, <1>4 DEF Busy
<1>6. Holds(b)'
  <2> SUFFICES ASSUME NEW u \in H
               PROVE  \E i \in 1..Len(order[b]) : i < pos[b] + 1 /\ order[b][i] = u
    BY <1>4 DEF Holds
  <2>1. CASE u = t
    BY <2>1, <1>1 DEF Ticker
  <2>2. CASE u \in held[b]
    <3>1. PICK i \in 1..Len(order[b]) : i < pos[b] /\ order[b][i] = u
      BY <2>2 DEF BatchInv, HoldsOnlyPassed
    <3> QED
      BY <3>1, <1>1
  <2> QED
    BY <2>1, <2>2
<1>7. pc'[b] \notin {"work", "mark"}
  BY <1>4
<1> QED
  BY <1>2, <1>3, <1>5, <1>6, <1>7, StepKeepsBatchInv

\* The batch stays at its ticker, with the locks it has or none.
LEMMA StayStep ==
  ASSUME BatchInv, NEW b \in Batches, NEW label \in Labels, GoTo(b, label),
         status' \in [Tickers -> {"absent", "started", "succeeded", "failed"}],
         Busy(b) \/ label \in {"done", "dead"},
         pc[b] # "restart" \/ held'[b] = {},
         held' = held \/ Release(b),
         label \in {"work", "mark"} => held'[b] = {}
  PROVE  BatchInv'
<1>1. TypeOK'
  BY DEF BatchInv, TypeOK, GoTo, Release
<1>2. Moves(b)
  BY DEF Moves, GoTo, Release, BatchInv, TypeOK
<1>3. pos'[b] = pos[b] /\ order'[b] = order[b] /\ pc'[b] = label
  BY DEF GoTo, BatchInv, TypeOK
<1>4. Busy(b)' => pos'[b] \in 1..Len(order[b])
  BY <1>3 DEF Busy, BatchInv, WithinList
<1>5. Holds(b)'
  <2>1. CASE held'[b] = {}
    BY <2>1 DEF Holds
  <2>2. CASE held'[b] = held[b] /\ pc[b] # "restart"
    BY <2>2, <1>3 DEF Holds, BatchInv, HoldsOnlyPassed
  <2> QED
    BY <2>1, <2>2 DEF Release, BatchInv, TypeOK
<1> QED
  BY <1>1, <1>2, <1>3, <1>4, <1>5, StepKeepsBatchInv

\* The row is locked and dealt with, or about to be restarted.
LEMMA ResolveStep ==
  ASSUME BatchInv, NEW b \in Batches, Resolve(b), Lock(b, Ticker(b)), status' = status,
         pc[b] \in {"lookup", "duplicate", "recover"}
  PROVE  BatchInv'
<1> DEFINE t == Ticker(b)
           H == held[b] \cup {t}
<1>0. Busy(b) /\ pc[b] # "restart"
  BY DEF Busy
<1>1. t \in Tickers
  BY <1>0, TickerType DEF BatchInv
<1>2. held' = [held EXCEPT ![b] = H]
  BY DEF Lock, BatchInv, TypeOK
<1>3. status' \in [Tickers -> {"absent", "started", "succeeded", "failed"}]
  BY DEF BatchInv, TypeOK
<1>4. CASE \E r \in {"replayed", "refused"} : Finish(b, r)
  <2> PICK r \in {"replayed", "refused"} : Finish(b, r)
    BY <1>4
  <2> HIDE DEF t
  <2> QED
    BY <1>0, <1>2, <1>3, FinishStep DEF t
<1>5. CASE GoTo(b, "restart")
  <2>1. TypeOK'
    BY <1>1, <1>2, <1>3, <1>5 DEF BatchInv, TypeOK, GoTo, Labels
  <2>2. Moves(b)
    BY <1>2, <1>5 DEF Moves, GoTo, BatchInv, TypeOK
  <2>3. /\ pos'[b] = pos[b] /\ order'[b] = order[b] /\ pc'[b] = "restart"
        /\ held'[b] = H /\ Ticker(b)' = t
    BY <1>2, <1>5 DEF GoTo, BatchInv, TypeOK, Ticker
  <2>4. Busy(b)' => pos'[b] \in 1..Len(order[b])
    BY <1>0, <2>3 DEF Busy, BatchInv, WithinList
  <2>5. Holds(b)'
    BY <1>0, <2>3 DEF Holds, BatchInv, HoldsOnlyPassed
  <2> QED
    BY <2>1, <2>2, <2>3, <2>4, <2>5, StepKeepsBatchInv
<1> QED
  BY <1>4, <1>5 DEF Resolve

LEMMA BatchStep ==
  ASSUME BatchInv, [Next]_vars
  PROVE  BatchInv'
<1> DEFINE Statuses == {"absent", "started", "succeeded", "failed"}
<1>0. CASE UNCHANGED vars
  BY <1>0 DEF vars, BatchInv, TypeOK, WithinList, HoldsOnlyPassed, NoLockWhileWorking,
              Busy, Ticker
<1>1. ASSUME NEW b \in Batches, Step(b) \/ Kill(b) PROVE BatchInv'
  <2> USE DEF BatchInv
  <2>0. status \in [Tickers -> Statuses] /\ pc[b] \in Labels
    BY DEF TypeOK
  <2>a. ASSUME NEW label \in Labels, Release(b) PROVE held'[b] = {}
    BY <2>a DEF Release, TypeOK
  <2>1. CASE Lookup(b)
    <3>1. CASE GoTo(b, "duplicate") /\ UNCHANGED held
      BY <2>0, <2>1, <3>1, StayStep DEF Lookup, Busy, Labels
    <3>2. CASE Lock(b, Ticker(b)) /\ Resolve(b)
      BY <2>1, <3>2, ResolveStep DEF Lookup
    <3> QED
      BY <2>1, <3>1, <3>2 DEF Lookup
  <2>2. CASE FindDuplicate(b)
    <3>1. CASE GoTo(b, "insert") /\ UNCHANGED held
      BY <2>0, <2>2, <3>1, StayStep DEF FindDuplicate, Busy, Labels
    <3>2. CASE Lock(b, Ticker(b)) /\ Resolve(b)
      BY <2>2, <3>2, ResolveStep DEF FindDuplicate
    <3> QED
      BY <2>2, <3>1, <3>2 DEF FindDuplicate
  <2>3. CASE Insert(b)
    <3>1. status' \in [Tickers -> Statuses]
      BY <2>0, <2>3 DEF Insert
    <3>2. Release(b) /\ pc[b] = "insert"
      BY <2>3 DEF Insert, CommitStart
    <3>3. PICK label \in {"work", "recover"} : GoTo(b, label)
      BY <2>3 DEF Insert
    <3>4. label \in Labels
      BY DEF Labels
    <3> QED
      BY <2>a, <3>1, <3>2, <3>3, <3>4, StayStep DEF Busy
  <2>4. CASE Recover(b)
    BY <2>4, ResolveStep DEF Recover
  <2>5. CASE Restart(b)
    <3>1. status' \in [Tickers -> Statuses]
      BY <2>0, <2>5 DEF Restart
    <3>2. Release(b) /\ pc[b] = "restart" /\ GoTo(b, "work") /\ "work" \in Labels
      BY <2>5 DEF Restart, CommitStart, Labels
    <3> QED
      BY <2>a, <3>1, <3>2, StayStep DEF Busy
  <2>6. CASE Work(b)
    <3>1. pc[b] = "work" /\ GoTo(b, "mark") /\ "mark" \in Labels /\ held' = held
          /\ status' = status
      BY <2>6 DEF Work, Labels
    <3>2. held'[b] = {}
      BY <3>1 DEF NoLockWhileWorking
    <3> QED
      BY <2>0, <3>1, <3>2, StayStep DEF Busy
  <2>7. CASE Mark(b)
    <3>1. PICK s \in {"succeeded", "failed"} :
            status' = [status EXCEPT ![Ticker(b)] = s] /\ Finish(b, s)
      BY <2>7 DEF Mark
    <3>2. status' \in [Tickers -> Statuses]
      BY <2>0, <3>1
    <3>3. held' = [held EXCEPT ![b] = {}] /\ pc[b] = "mark"
      BY <2>7 DEF Mark, Release
    <3> QED
      BY <3>1, <3>2, <3>3, FinishStep DEF Busy
  <2>8. CASE Victim(b)
    <3>1. /\ held' = [held EXCEPT ![b] = {}] /\ Finish(b, "deadlock") /\ status' = status
          /\ pc[b] \in {"lookup", "duplicate", "recover"}
      BY <2>8 DEF Victim, Release
    <3> QED
      BY <2>0, <3>1, FinishStep DEF Busy
  <2>9. CASE Close(b)
    <3>1. Release(b) /\ GoTo(b, "done") /\ "done" \in Labels /\ status' = status
      BY <2>9 DEF Close, Labels
    <3> QED
      BY <2>0, <2>a, <3>1, StayStep
  <2>10. CASE Kill(b)
    <3>1. Release(b) /\ GoTo(b, "dead") /\ "dead" \in Labels /\ status' = status
      BY <2>10 DEF Kill, Labels
    <3> QED
      BY <2>0, <2>a, <3>1, StayStep
  <2> QED
    BY <1>1, <2>1, <2>2, <2>3, <2>4, <2>5, <2>6, <2>7, <2>8, <2>9, <2>10 DEF Step
<1> QED
  BY <1>0, <1>1 DEF Next

-----------------------------------------------------------------------------
(* Deadlocks. *)

InOrder == \A b \in Batches : Ascending(order[b])

\* Who is waited for and waits itself, waits for a later ticker.
LEMMA WaitsAscend ==
  ASSUME BatchInv, InOrder, NEW x \in Batches, NEW y \in Batches, NEW z \in Batches,
         Waits(x, y), Waits(y, z)
  PROVE  Ticker(x) < Ticker(y)
<1>1. Busy(y) /\ pc[y] # "restart" /\ Ticker(x) \in held[y]
  BY DEF Waits, Wants, Busy
<1>2. PICK i \in 1..Len(order[y]) : i < pos[y] /\ order[y][i] = Ticker(x)
  BY <1>1 DEF BatchInv, HoldsOnlyPassed
<1>3. pos[y] \in 1..Len(order[y])
  BY <1>1, TickerType DEF BatchInv
<1> QED
  BY <1>2, <1>3 DEF InOrder, Ascending, Ticker

\* A circle would need a batch whose ticker is the last of the waited-for ones.
LEMMA NoDeadlock ==
  ASSUME BatchInv, InOrder, NEW b \in Batches
  PROVE  ~Deadlocked(b)
<1> SUFFICES ASSUME NEW S \in SUBSET Batches, b \in S,
                    \A x \in S : \E y \in S : Waits(x, y)
             PROVE  FALSE
  BY DEF Deadlocked
<1>1. \A x \in S : Busy(x) /\ Ticker(x) \in Tickers
  <2> SUFFICES ASSUME NEW x \in S PROVE Busy(x) /\ Ticker(x) \in Tickers
    OBVIOUS
  <2>1. Busy(x)
    BY DEF Waits, Wants, Busy
  <2> QED
    BY <2>1, TickerType DEF BatchInv
<1> DEFINE T == {N - Ticker(x) : x \in S}
<1>2. T \subseteq Nat /\ T # {}
  BY <1>1 DEF Tickers
<1> HIDE DEF T
<1>3. PICK m \in T : \A n \in T : m <= n
  BY <1>2, LeastElement
<1>4. PICK x \in S : m = N - Ticker(x)
  BY <1>3 DEF T
<1>5. PICK y \in S : Waits(x, y)
  OBVIOUS
<1>6. Ticker(x) < Ticker(y)
  BY <1>5, WaitsAscend
<1>7. m <= N - Ticker(y)
  BY <1>3 DEF T
<1> QED
  BY <1>1, <1>4, <1>6, <1>7 DEF Tickers

LEMMA InOrderStep ==
  ASSUME BatchInv, InOrderNoDeadlock, [Next]_vars
  PROVE  InOrderNoDeadlock'
<1> SUFFICES ASSUME InOrder', NEW c \in Batches
             PROVE  result'[c] # "deadlock"
  BY DEF InOrderNoDeadlock, InOrder
<1>1. order' = order
  BY DEF Next, Step, vars, Lookup, FindDuplicate, Insert, Recover, Restart, Work, Mark,
         Victim, Close, Kill, Resolve, GoTo, Finish
<1>2. InOrder /\ result[c] # "deadlock"
  BY <1>1 DEF InOrder, Ascending, InOrderNoDeadlock
<1>3. ASSUME NEW b \in Batches PROVE ~Victim(b)
  BY <1>2, NoDeadlock DEF Victim
<1> QED
  BY <1>2, <1>3 DEF BatchInv, TypeOK, Next, Step, vars, Lookup, FindDuplicate, Insert,
         Recover, Restart, Work, Mark, Close, Kill, Resolve, GoTo, Finish

-----------------------------------------------------------------------------

\* The inductive invariant holds in every reachable state.
THEOREM Invariance == Spec => []IInv
<1>1. Init => IInv
  <2> SUFFICES ASSUME Init PROVE IInv
    OBVIOUS
  <2>1. TypeOK /\ WithinList
    BY TypeInit
  <2>2. HoldsOnlyPassed /\ NoLockWhileWorking /\ InOrderNoDeadlock
    BY DEF Init, HoldsOnlyPassed, NoLockWhileWorking, InOrderNoDeadlock
  <2> QED
    BY <2>1, <2>2 DEF IInv
<1>2. IInv /\ [Next]_vars => IInv'
  BY BatchStep, InOrderStep DEF IInv, BatchInv
<1> QED
  BY <1>1, <1>2, PTL DEF Spec

\* No ledger row is locked while a batch works or marks.
THEOREM NoLockWhileWorkingAlways == Spec => []NoLockWhileWorking
<1>1. IInv => NoLockWhileWorking
  BY DEF IInv
<1> QED
  BY <1>1, Invariance, PTL

\* Requests in one common order never deadlock, whatever their number.
THEOREM InOrderNoDeadlockAlways == Spec => []InOrderNoDeadlock
<1>1. IInv => InOrderNoDeadlock
  BY DEF IInv
<1> QED
  BY <1>1, Invariance, PTL
=============================================================================
