----------------------------- MODULE ChatProofs -----------------------------
(***************************************************************************)
(* Proofs about Chat: the inductive invariant IInv, what it says of the    *)
(* stored sessions, what the answers rest on, and the refinement of        *)
(* ChatPromise.                                                            *)
(***************************************************************************)
EXTENDS Chat, FiniteSetTheorems, FunctionTheorems, SequenceTheorems, TLAPS

USE DEF At, GoTo, tables, User, NoReply

LEMMA InitInvariant ==
  Init => IInv
BY NamesAssumption, LimitsAssumption DEF Init, IInv, TypeOK, AttemptsAreCounted,
   DraftsAreExclusive, TransactionsAreReady, MessagesArePlaced, Ended, Exchange

LEMMA InputShape ==
  ASSUME TypeOK, NEW r \in Calls
  PROVE  /\ input[r] \in Inputs /\ Target(r) \in Sessions
         /\ User(r) \in Users \cup {Guest} /\ input[r].chats \in BOOLEAN
         /\ ~input[r].chats => User(r) # Guest
         /\ User(r) # Nobody
BY InputsAssumption, NamesAssumption DEF TypeOK, Input, Target, Sessions

LEMMA TypeKept ==
  ASSUME IInv, NEW r \in Calls, Step(r) \/ Kill(r)
  PROVE  TypeOK'
<1> USE DEF IInv
<1>1. CASE Read(r)
  BY <1>1, InputShape, LimitsAssumption DEF Read, TypeOK, AttemptsAreCounted, TransactionsAreReady, AsksModel, Exchange, Ended
<1>2. CASE Compose(r)
  BY <1>2, InputShape, LimitsAssumption DEF Compose, TypeOK, AttemptsAreCounted, TransactionsAreReady, AsksModel, Exchange, Ended
<1>3. CASE Call(r)
  BY <1>3, InputShape, LimitsAssumption DEF Call, TypeOK, AttemptsAreCounted, TransactionsAreReady, AsksModel, Exchange, Ended
<1>4. CASE CallFails(r)
  BY <1>4, InputShape, LimitsAssumption DEF CallFails, TypeOK, AttemptsAreCounted, TransactionsAreReady, AsksModel, Exchange, Ended
<1>5. CASE UseTool(r)
  BY <1>5, InputShape, LimitsAssumption DEF UseTool, TypeOK, AttemptsAreCounted, TransactionsAreReady, AsksModel, Exchange, Ended
<1>6. CASE \E a \in Answers : BedrockAnswers(r, a)
  BY <1>6, InputShape, LimitsAssumption DEF BedrockAnswers, Take, TypeOK, AttemptsAreCounted, TransactionsAreReady, AsksModel, Exchange, Ended
<1>7. CASE \E a \in RuntimeAnswers(r) : AgentAnswers(r, a)
  BY <1>7, InputShape, LimitsAssumption DEF AgentAnswers, Take, TypeOK, AttemptsAreCounted, TransactionsAreReady, AsksModel, Exchange, Ended
<1>8. CASE Normalise(r)
  BY <1>8, InputShape, LimitsAssumption DEF Normalise, TypeOK, AttemptsAreCounted, TransactionsAreReady, AsksModel, Exchange, Ended
<1>9. CASE FindSession(r)
  BY <1>9, InputShape, LimitsAssumption DEF FindSession, OwnsTarget, TypeOK, AttemptsAreCounted, TransactionsAreReady, AsksModel, Exchange, Ended
<1>10. CASE InsertSession(r)
  BY <1>10, InputShape, LimitsAssumption DEF InsertSession, Inserting, TypeOK, AttemptsAreCounted, TransactionsAreReady, AsksModel, Exchange, Ended
<1>11. CASE Commit(r)
  BY <1>11, InputShape, LimitsAssumption DEF Commit, TypeOK, AttemptsAreCounted, TransactionsAreReady, AsksModel, Exchange, Ended
<1>12. CASE Respond(r)
  BY <1>12, InputShape, LimitsAssumption DEF Respond, TypeOK, AttemptsAreCounted, TransactionsAreReady, AsksModel, Exchange, Ended
<1>13. CASE CreateSession(r)
  BY <1>13, InputShape, LimitsAssumption DEF CreateSession, Inserting, TypeOK, AttemptsAreCounted, TransactionsAreReady, AsksModel, Exchange, Ended
<1>14. CASE Kill(r)
  BY <1>14, InputShape, LimitsAssumption DEF Kill, Ended, TypeOK, AttemptsAreCounted, TransactionsAreReady, AsksModel, Exchange, Ended
<1> QED
  BY <1>1, <1>2, <1>3, <1>4, <1>5, <1>6, <1>7, <1>8, <1>9, <1>10, <1>11, <1>12, <1>13, <1>14 DEF Step

LEMMA AttemptsKept ==
  ASSUME IInv, NEW r \in Calls, Step(r) \/ Kill(r)
  PROVE  AttemptsAreCounted'
<1> USE DEF IInv
<1>1. CASE Read(r)
  BY <1>1, LimitsAssumption DEF Read, TypeOK, AttemptsAreCounted, AsksModel, BedrockVerdict, AgentVerdict, Ended
<1>2. CASE Compose(r)
  BY <1>2, LimitsAssumption DEF Compose, TypeOK, AttemptsAreCounted, AsksModel, BedrockVerdict, AgentVerdict, Ended
<1>3. CASE Call(r)
  BY <1>3, LimitsAssumption DEF Call, TypeOK, AttemptsAreCounted, AsksModel, BedrockVerdict, AgentVerdict, Ended
<1>4. CASE CallFails(r)
  BY <1>4, LimitsAssumption DEF CallFails, TypeOK, AttemptsAreCounted, AsksModel, BedrockVerdict, AgentVerdict, Ended
<1>5. CASE UseTool(r)
  BY <1>5, LimitsAssumption DEF UseTool, TypeOK, AttemptsAreCounted, AsksModel, BedrockVerdict, AgentVerdict, Ended
<1>6. CASE \E a \in Answers : BedrockAnswers(r, a)
  BY <1>6, LimitsAssumption DEF BedrockAnswers, Take, TypeOK, AttemptsAreCounted, AsksModel, BedrockVerdict, AgentVerdict, Ended
<1>7. CASE \E a \in RuntimeAnswers(r) : AgentAnswers(r, a)
  BY <1>7, LimitsAssumption DEF AgentAnswers, Take, TypeOK, AttemptsAreCounted, AsksModel, BedrockVerdict, AgentVerdict, Ended
<1>8. CASE Normalise(r)
  BY <1>8, LimitsAssumption DEF Normalise, TypeOK, AttemptsAreCounted, AsksModel, BedrockVerdict, AgentVerdict, Ended
<1>9. CASE FindSession(r)
  BY <1>9, LimitsAssumption DEF FindSession, OwnsTarget, TypeOK, AttemptsAreCounted, AsksModel, BedrockVerdict, AgentVerdict, Ended
<1>10. CASE InsertSession(r)
  BY <1>10, LimitsAssumption DEF InsertSession, Inserting, TypeOK, AttemptsAreCounted, AsksModel, BedrockVerdict, AgentVerdict, Ended
<1>11. CASE Commit(r)
  BY <1>11, LimitsAssumption DEF Commit, TypeOK, AttemptsAreCounted, AsksModel, BedrockVerdict, AgentVerdict, Ended
<1>12. CASE Respond(r)
  BY <1>12, LimitsAssumption DEF Respond, TypeOK, AttemptsAreCounted, AsksModel, BedrockVerdict, AgentVerdict, Ended
<1>13. CASE CreateSession(r)
  BY <1>13, LimitsAssumption DEF CreateSession, Inserting, TypeOK, AttemptsAreCounted, AsksModel, BedrockVerdict, AgentVerdict, Ended
<1>14. CASE Kill(r)
  BY <1>14, LimitsAssumption DEF Kill, Ended, TypeOK, AttemptsAreCounted, AsksModel, BedrockVerdict, AgentVerdict, Ended
<1> QED
  BY <1>1, <1>2, <1>3, <1>4, <1>5, <1>6, <1>7, <1>8, <1>9, <1>10, <1>11, <1>12, <1>13, <1>14 DEF Step

LEMMA DraftsKept ==
  ASSUME IInv, NEW r \in Calls, Step(r) \/ Kill(r)
  PROVE  DraftsAreExclusive'
<1> USE DEF IInv
<1>1. CASE Read(r)
  BY <1>1, InputShape DEF Read, TypeOK, DraftsAreExclusive, TransactionsAreReady, Target, Ended
<1>2. CASE Compose(r)
  BY <1>2, InputShape DEF Compose, TypeOK, DraftsAreExclusive, TransactionsAreReady, Target, Ended
<1>3. CASE Call(r)
  BY <1>3, InputShape DEF Call, AttemptsAreCounted, AsksModel, TypeOK, DraftsAreExclusive, TransactionsAreReady, Target, Ended
<1>4. CASE CallFails(r)
  BY <1>4, InputShape DEF CallFails, TypeOK, DraftsAreExclusive, TransactionsAreReady, Target, Ended
<1>5. CASE UseTool(r)
  BY <1>5, InputShape DEF UseTool, TypeOK, DraftsAreExclusive, TransactionsAreReady, Target, Ended
<1>6. CASE \E a \in Answers : BedrockAnswers(r, a)
  BY <1>6, InputShape DEF BedrockAnswers, Take, TypeOK, DraftsAreExclusive, TransactionsAreReady, Target, Ended
<1>7. CASE \E a \in RuntimeAnswers(r) : AgentAnswers(r, a)
  BY <1>7, InputShape DEF AgentAnswers, Take, TypeOK, DraftsAreExclusive, TransactionsAreReady, Target, Ended
<1>8. CASE Normalise(r)
  BY <1>8, InputShape DEF Normalise, TypeOK, DraftsAreExclusive, TransactionsAreReady, Target, Ended
<1>9. CASE FindSession(r)
  BY <1>9, InputShape DEF FindSession, OwnsTarget, TypeOK, DraftsAreExclusive, TransactionsAreReady, Target, Ended
<1>10. CASE InsertSession(r)
  BY <1>10, InputShape DEF InsertSession, Inserting, TypeOK, DraftsAreExclusive, TransactionsAreReady, Target, Ended
<1>11. CASE Commit(r)
  BY <1>11, InputShape DEF Commit, TypeOK, DraftsAreExclusive, TransactionsAreReady, Target, Ended
<1>12. CASE Respond(r)
  BY <1>12, InputShape DEF Respond, TypeOK, DraftsAreExclusive, TransactionsAreReady, Target, Ended
<1>13. CASE CreateSession(r)
  BY <1>13, InputShape DEF CreateSession, Inserting, TypeOK, DraftsAreExclusive, TransactionsAreReady, Target, Ended
<1>14. CASE Kill(r)
  BY <1>14, InputShape DEF Kill, Ended, TypeOK, DraftsAreExclusive, TransactionsAreReady, Target, Ended
<1> QED
  BY <1>1, <1>2, <1>3, <1>4, <1>5, <1>6, <1>7, <1>8, <1>9, <1>10, <1>11, <1>12, <1>13, <1>14 DEF Step

LEMMA ReadyKept ==
  ASSUME IInv, NEW r \in Calls, Step(r) \/ Kill(r)
  PROVE  TransactionsAreReady'
<1> USE DEF IInv
<1>1. CASE Read(r)
  BY <1>1, InputShape DEF Read, TypeOK, DraftsAreExclusive, TransactionsAreReady, OwnsTarget, Target, Ended
<1>2. CASE Compose(r)
  BY <1>2, InputShape DEF Compose, TypeOK, DraftsAreExclusive, TransactionsAreReady, OwnsTarget, Target, Ended
<1>3. CASE Call(r)
  BY <1>3, InputShape DEF Call, AttemptsAreCounted, AsksModel, TypeOK, DraftsAreExclusive, TransactionsAreReady, OwnsTarget, Target, Ended
<1>4. CASE CallFails(r)
  BY <1>4, InputShape DEF CallFails, TypeOK, DraftsAreExclusive, TransactionsAreReady, OwnsTarget, Target, Ended
<1>5. CASE UseTool(r)
  BY <1>5, InputShape DEF UseTool, TypeOK, DraftsAreExclusive, TransactionsAreReady, OwnsTarget, Target, Ended
<1>6. CASE \E a \in Answers : BedrockAnswers(r, a)
  BY <1>6, InputShape DEF BedrockAnswers, Take, TypeOK, DraftsAreExclusive, TransactionsAreReady, OwnsTarget, Target, Ended
<1>7. CASE \E a \in RuntimeAnswers(r) : AgentAnswers(r, a)
  BY <1>7, InputShape DEF AgentAnswers, Take, TypeOK, DraftsAreExclusive, TransactionsAreReady, OwnsTarget, Target, Ended
<1>8. CASE Normalise(r)
  BY <1>8, InputShape DEF Normalise, TypeOK, DraftsAreExclusive, TransactionsAreReady, OwnsTarget, Target, Ended
<1>9. CASE FindSession(r)
  BY <1>9, InputShape DEF FindSession, OwnsTarget, TypeOK, DraftsAreExclusive, TransactionsAreReady, OwnsTarget, Target, Ended
<1>10. CASE InsertSession(r)
  BY <1>10, InputShape DEF InsertSession, Inserting, TypeOK, DraftsAreExclusive, TransactionsAreReady, OwnsTarget, Target, Ended
<1>11. CASE Commit(r)
  BY <1>11, InputShape DEF Commit, TypeOK, DraftsAreExclusive, TransactionsAreReady, OwnsTarget, Target, Ended
<1>12. CASE Respond(r)
  BY <1>12, InputShape DEF Respond, TypeOK, DraftsAreExclusive, TransactionsAreReady, OwnsTarget, Target, Ended
<1>13. CASE CreateSession(r)
  BY <1>13, InputShape DEF CreateSession, Inserting, TypeOK, DraftsAreExclusive, TransactionsAreReady, OwnsTarget, Target, Ended
<1>14. CASE Kill(r)
  BY <1>14, InputShape DEF Kill, Ended, TypeOK, DraftsAreExclusive, TransactionsAreReady, OwnsTarget, Target, Ended
<1> QED
  BY <1>1, <1>2, <1>3, <1>4, <1>5, <1>6, <1>7, <1>8, <1>9, <1>10, <1>11, <1>12, <1>13, <1>14 DEF Step

LEMMA PlacedKept ==
  ASSUME IInv, NEW r \in Calls, Step(r) \/ Kill(r)
  PROVE  MessagesArePlaced'
<1> USE DEF IInv
<1>1. CASE Read(r)
  BY <1>1, InputShape DEF Read, TypeOK, DraftsAreExclusive, TransactionsAreReady, MessagesArePlaced, OwnsTarget, Exchange, Target, Ended
<1>2. CASE Compose(r)
  BY <1>2, InputShape DEF Compose, TypeOK, DraftsAreExclusive, TransactionsAreReady, MessagesArePlaced, OwnsTarget, Exchange, Target, Ended
<1>3. CASE Call(r)
  BY <1>3, InputShape DEF Call, AttemptsAreCounted, AsksModel, TypeOK, DraftsAreExclusive, TransactionsAreReady, MessagesArePlaced, OwnsTarget, Exchange, Target, Ended
<1>4. CASE CallFails(r)
  BY <1>4, InputShape DEF CallFails, TypeOK, DraftsAreExclusive, TransactionsAreReady, MessagesArePlaced, OwnsTarget, Exchange, Target, Ended
<1>5. CASE UseTool(r)
  BY <1>5, InputShape DEF UseTool, TypeOK, DraftsAreExclusive, TransactionsAreReady, MessagesArePlaced, OwnsTarget, Exchange, Target, Ended
<1>6. CASE \E a \in Answers : BedrockAnswers(r, a)
  BY <1>6, InputShape DEF BedrockAnswers, Take, TypeOK, DraftsAreExclusive, TransactionsAreReady, MessagesArePlaced, OwnsTarget, Exchange, Target, Ended
<1>7. CASE \E a \in RuntimeAnswers(r) : AgentAnswers(r, a)
  BY <1>7, InputShape DEF AgentAnswers, Take, TypeOK, DraftsAreExclusive, TransactionsAreReady, MessagesArePlaced, OwnsTarget, Exchange, Target, Ended
<1>8. CASE Normalise(r)
  BY <1>8, InputShape DEF Normalise, TypeOK, DraftsAreExclusive, TransactionsAreReady, MessagesArePlaced, OwnsTarget, Exchange, Target, Ended
<1>9. CASE FindSession(r)
  BY <1>9, InputShape DEF FindSession, OwnsTarget, TypeOK, DraftsAreExclusive, TransactionsAreReady, MessagesArePlaced, OwnsTarget, Exchange, Target, Ended
<1>10. CASE InsertSession(r)
  BY <1>10, InputShape DEF InsertSession, Inserting, TypeOK, DraftsAreExclusive, TransactionsAreReady, MessagesArePlaced, OwnsTarget, Exchange, Target, Ended
<1>11. CASE Commit(r)
  BY <1>11, InputShape DEF Commit, TypeOK, DraftsAreExclusive, TransactionsAreReady, MessagesArePlaced, OwnsTarget, Exchange, Target, Ended
<1>12. CASE Respond(r)
  BY <1>12, InputShape DEF Respond, TypeOK, DraftsAreExclusive, TransactionsAreReady, MessagesArePlaced, OwnsTarget, Exchange, Target, Ended
<1>13. CASE CreateSession(r)
  BY <1>13, InputShape DEF CreateSession, Inserting, TypeOK, DraftsAreExclusive, TransactionsAreReady, MessagesArePlaced, OwnsTarget, Exchange, Target, Ended
<1>14. CASE Kill(r)
  BY <1>14, InputShape DEF Kill, Ended, TypeOK, DraftsAreExclusive, TransactionsAreReady, MessagesArePlaced, OwnsTarget, Exchange, Target, Ended
<1> QED
  BY <1>1, <1>2, <1>3, <1>4, <1>5, <1>6, <1>7, <1>8, <1>9, <1>10, <1>11, <1>12, <1>13, <1>14 DEF Step

LEMMA StepKeepsInvariant ==
  IInv /\ [Next]_vars => IInv'
<1>1. ASSUME IInv, NEW r \in Calls, Step(r) \/ Kill(r)  PROVE IInv'
  BY <1>1, TypeKept, AttemptsKept, DraftsKept, ReadyKept, PlacedKept DEF IInv
<1>2. ASSUME IInv, UNCHANGED vars  PROVE IInv'
  BY <1>2 DEF vars, IInv, TypeOK, AttemptsAreCounted, AsksModel, DraftsAreExclusive,
     TransactionsAreReady, OwnsTarget, MessagesArePlaced, Exchange, Target
<1> QED
  BY <1>1, <1>2 DEF Next

\* The invariant of the requests, their transactions and the stored exchanges.
THEOREM Invariance ==
  Spec => []IInv
BY InitInvariant, StepKeepsInvariant, PTL DEF Spec

\* A user's session shows that user's exchanges only, whoever sends its id.
THEOREM SessionsStayPrivate ==
  Spec => []SessionsArePrivate
<1>1. IInv => SessionsArePrivate
  BY DEF IInv, SessionsArePrivate, Detail, MessagesArePlaced
<1> QED
  BY <1>1, Invariance, PTL

\* A guest's request, and one that fails before its commit, leaves no message.
THEOREM NoTraceOfFailures ==
  Spec => []FailuresLeaveNoTrace
<1>1. IInv => FailuresLeaveNoTrace
  BY DEF IInv, FailuresLeaveNoTrace, MessagesArePlaced, Exchange
<1> QED
  BY <1>1, Invariance, PTL

-----------------------------------------------------------------------------
(* Citations. *)

\* Each element of a finite set of places has a rank of its own, and all ranks are taken.
LEMMA PlacesAreRanked ==
  ASSUME NEW P \in SUBSET Nat, IsFiniteSet(P)
  PROVE  /\ Cardinality(P) \in Nat
         /\ \A n \in 1..Cardinality(P) : \E p \in P : Cardinality({q \in P : q < p}) = n - 1
         /\ \A p \in P : Cardinality({q \in P : q < p}) \in 0..(Cardinality(P) - 1)
         /\ \A p, q \in P : p # q => Cardinality({x \in P : x < p}) # Cardinality({x \in P : x < q})
<1> DEFINE below(p) == {q \in P : q < p}
           rank == [p \in P |-> Cardinality(below(p))]
           ranks == 0..(Cardinality(P) - 1)
<1>1. Cardinality(P) \in Nat
  BY FS_CardinalityType
<1>2. \A p \in P : IsFiniteSet(below(p)) /\ Cardinality(below(p)) \in ranks
  <2> TAKE p \in P
  <2>1. below(p) \subseteq P /\ p \notin below(p)
    OBVIOUS
  <2>2. IsFiniteSet(below(p)) /\ Cardinality(below(p)) <= Cardinality(P) /\ Cardinality(P) # Cardinality(below(p))
    BY <2>1, FS_Subset
  <2>3. Cardinality(below(p)) \in Nat
    BY <2>2, FS_CardinalityType
  <2> HIDE DEF below
  <2> QED
    BY <1>1, <2>2, <2>3
<1>3. \A p, q \in P : p < q => Cardinality(below(p)) < Cardinality(below(q))
  <2> SUFFICES ASSUME NEW p \in P, NEW q \in P, p < q
               PROVE  Cardinality(below(p)) < Cardinality(below(q))
    OBVIOUS
  <2>1. below(p) \subseteq below(q) /\ p \notin below(p) /\ p \in below(q)
    <3>1. (\A x \in P : x < p => x < q) /\ ~(p < p)
      OBVIOUS
    <3> QED
      BY <3>1, Zenon
  <2> HIDE DEF below
  <2>2. Cardinality(below(p)) <= Cardinality(below(q)) /\ Cardinality(below(q)) # Cardinality(below(p))
    BY <1>2, <2>1, FS_Subset
  <2> QED
    BY <1>1, <1>2, <2>2
<1>4. \A p, q \in P : p # q => Cardinality(below(p)) # Cardinality(below(q))
  <2> SUFFICES ASSUME NEW p \in P, NEW q \in P, p # q
               PROVE  Cardinality(below(p)) # Cardinality(below(q))
    OBVIOUS
  <2>1. p < q \/ q < p
    OBVIOUS
  <2> HIDE DEF below
  <2> QED
    BY <1>1, <1>2, <1>3, <2>1
<1> HIDE DEF below
<1>5. rank \in Injection(P, ranks)
  BY <1>2, <1>4 DEF Injection, IsInjective
<1>6. IsFiniteSet(ranks) /\ Cardinality(ranks) = Cardinality(P)
  <2>1. /\ IsFiniteSet(ranks)
        /\ Cardinality(ranks) = IF 0 > Cardinality(P) - 1 THEN 0 ELSE (Cardinality(P) - 1) - 0 + 1
    BY <1>1, FS_Interval
  <2> QED
    BY <1>1, <2>1
<1>7. rank \in Surjection(P, ranks)
  BY <1>5, <1>6, FS_Injection
<1>8. \A n \in 1..Cardinality(P) : \E p \in P : Cardinality(below(p)) = n - 1
  <2> TAKE n \in 1..Cardinality(P)
  <2>1. n - 1 \in ranks
    BY <1>1
  <2> QED
    BY <1>7, <2>1 DEF Surjection
<1> QED
  BY <1>1, <1>2, <1>4, <1>8 DEF below

\* The elements at some places of a sequence: their number, their set, and that none
\* is there twice if none is at two of the places.
LEMMA PickedElements ==
  ASSUME NEW T, NEW s \in Seq(T), NEW P \in SUBSET (DOMAIN s)
  PROVE  /\ Picked(s, P) \in Seq(T)
         /\ ToSet(Picked(s, P)) = {s[p] : p \in P}
         /\ (\A p, q \in P : s[p] = s[q] => p = q) => IsInjective(Picked(s, P))
<1> DEFINE rank(p) == Cardinality({q \in P : q < p})
           N == Cardinality(P)
           place(n) == CHOOSE p \in P : rank(p) = n - 1
<1>1. DOMAIN s \subseteq Nat /\ IsFiniteSet(DOMAIN s)
  <2>1. DOMAIN s = 1..Len(s) /\ Len(s) \in Nat
    BY LenProperties
  <2> QED
    BY <2>1, FS_Interval
<1>2. P \in SUBSET Nat /\ IsFiniteSet(P)
  BY <1>1, FS_Subset
<1>3. /\ N \in Nat /\ \A n \in 1..N : \E p \in P : rank(p) = n - 1
      /\ \A p \in P : rank(p) \in 0..(N - 1)
      /\ \A p, q \in P : p # q => rank(p) # rank(q)
  BY <1>2, PlacesAreRanked
<1>4. Picked(s, P) = [n \in 1..N |-> s[place(n)]]
  BY DEF Picked
<1> HIDE DEF rank, N
<1>5. \A n \in 1..N : place(n) \in P /\ rank(place(n)) = n - 1
  BY <1>3
<1>6. \A p \in P : rank(p) + 1 \in 1..N /\ place(rank(p) + 1) = p
  <2> TAKE p \in P
  <2>1. rank(p) \in Int /\ rank(p) + 1 \in 1..N
    BY <1>3
  <2>2. place(rank(p) + 1) \in P /\ rank(place(rank(p) + 1)) = rank(p)
    BY <1>5, <2>1
  <2> QED
    BY <1>3, <2>1, <2>2
<1> HIDE DEF place
<1>7. \A p \in P : s[p] \in T
  BY ElementOfSeq, LenProperties
<1>8. Picked(s, P) \in Seq(T)
  BY <1>3, <1>4, <1>5, <1>7, IsASeq
<1>9. ToSet(Picked(s, P)) = {s[p] : p \in P}
  BY <1>4, <1>5, <1>6 DEF ToSet
<1>10. ASSUME \A p, q \in P : s[p] = s[q] => p = q
       PROVE  IsInjective(Picked(s, P))
  <2> SUFFICES ASSUME NEW m \in 1..N, NEW n \in 1..N, s[place(m)] = s[place(n)]
               PROVE  m = n
    BY <1>4 DEF IsInjective
  <2>1. place(m) = place(n)
    BY <1>5, <1>10
  <2> QED
    BY <1>3, <1>5, <2>1
<1> QED
  BY <1>8, <1>9, <1>10

\* The first places of a sequence are the first of it.
LEMMA PrefixElements ==
  ASSUME NEW T, NEW s \in Seq(T), NEW m \in Nat
  PROVE  LET first == SubSeq(s, 1, IF Len(s) < m THEN Len(s) ELSE m)
         IN  /\ first \in Seq(T) /\ ToSet(first) \subseteq ToSet(s)
             /\ IsInjective(s) => IsInjective(first)
<1> DEFINE n == IF Len(s) < m THEN Len(s) ELSE m
           first == SubSeq(s, 1, n)
<1>1. n \in 0..Len(s) /\ Len(s) \in Nat /\ DOMAIN s = 1..Len(s)
  BY LenProperties
<1> HIDE DEF n
<1>2. first = [k \in 1..n |-> s[k]]
  BY <1>1, SubSeqProperties
<1>3. \A k \in 1..Len(s) : s[k] \in T
  BY ElementOfSeq
<1> HIDE DEF first
<1>4. first \in Seq(T)
  BY <1>1, <1>2, <1>3, IsASeq
<1>5. ToSet(first) \subseteq ToSet(s)
  BY <1>1, <1>2 DEF ToSet
<1>6. IsInjective(s) => IsInjective(first)
  BY <1>1, <1>2 DEF IsInjective
<1> QED
  BY <1>4, <1>5, <1>6 DEF first, n

\* Two sequences one after the other.
LEMMA JoinedElements ==
  ASSUME NEW T, NEW s \in Seq(T), NEW t \in Seq(T)
  PROVE  /\ s \o t \in Seq(T) /\ ToSet(s \o t) = ToSet(s) \cup ToSet(t)
         /\ IsInjective(s) /\ IsInjective(t) /\ ToSet(s) \cap ToSet(t) = {} => IsInjective(s \o t)
<1>1. /\ Len(s) \in Nat /\ DOMAIN s = 1..Len(s) /\ Len(t) \in Nat /\ DOMAIN t = 1..Len(t)
  BY LenProperties
<1>2. /\ s \o t \in Seq(T) /\ DOMAIN (s \o t) = 1..(Len(s) + Len(t))
      /\ \A k \in 1..(Len(s) + Len(t)) : (s \o t)[k] = IF k <= Len(s) THEN s[k] ELSE t[k - Len(s)]
  BY <1>1, ConcatProperties, LenProperties
<1> DEFINE j == s \o t
<1> HIDE DEF j
<1>3. \A k \in DOMAIN j : \/ k \in DOMAIN s /\ j[k] = s[k]
                          \/ k \notin DOMAIN s /\ k - Len(s) \in DOMAIN t /\ j[k] = t[k - Len(s)]
  BY <1>1, <1>2 DEF j
<1>4. (\A k \in DOMAIN s : k \in DOMAIN j /\ j[k] = s[k])
      /\ \A k \in DOMAIN t : k + Len(s) \in DOMAIN j /\ j[k + Len(s)] = t[k]
  <2>1. \A k \in DOMAIN t : (k + Len(s)) - Len(s) = k /\ ~(k + Len(s) <= Len(s)) /\ k + Len(s) \in 1..(Len(s) + Len(t))
    BY <1>1
  <2> QED
    BY <1>1, <1>2, <2>1 DEF j
<1>5. ToSet(j) = ToSet(s) \cup ToSet(t)
  BY <1>3, <1>4 DEF ToSet
<1>6. ASSUME IsInjective(s), IsInjective(t), ToSet(s) \cap ToSet(t) = {}
      PROVE  IsInjective(j)
  <2> SUFFICES ASSUME NEW a \in DOMAIN j, NEW b \in DOMAIN j, j[a] = j[b]
               PROVE  a = b
    BY DEF IsInjective
  <2>1. a \in Int /\ b \in Int
    BY <1>1, <1>2 DEF j
  <2>2. CASE a \in DOMAIN s /\ b \in DOMAIN s
    BY <1>3, <1>6, <2>2 DEF IsInjective
  <2>3. CASE a \notin DOMAIN s /\ b \notin DOMAIN s
    <3>1. a - Len(s) = b - Len(s)
      BY <1>3, <1>6, <2>3 DEF IsInjective
    <3> QED
      BY <1>1, <2>1, <3>1
  <2>4. ASSUME NEW x \in DOMAIN j, NEW y \in DOMAIN j, x \in DOMAIN s, y \notin DOMAIN s
        PROVE  j[x] # j[y]
    <3>1. j[x] \in ToSet(s) /\ j[y] \in ToSet(t)
      BY <1>3, <2>4 DEF ToSet
    <3> QED
      BY <1>6, <3>1
  <2> QED
    BY <2>2, <2>3, <2>4
<1> QED
  BY <1>2, <1>5, <1>6 DEF j

\* A list of citations is of the request's evidence, and has no item twice.
Fits(c, i) == ToSet(c) \subseteq ToSet(i.evidence) /\ IsInjective(c)

\* The composer's citations fit the evidence, whatever the reasons name.
LEMMA ComposedCitationsFit ==
  ASSUME NEW i \in Inputs
  PROVE  Citations(i) \in Seq(Evidence) /\ Fits(Citations(i), i)
<1> DEFINE reasons == i.reasons
           evidence == i.evidence
           A == {n \in DOMAIN reasons : reasons[n] \in ToSet(evidence) \ {reasons[m] : m \in 1..(n - 1)}}
           chosen == Picked(reasons, A)
           B == {n \in DOMAIN evidence : evidence[n] \notin ToSet(chosen)}
           others == Picked(evidence, B)
           ranked == IF Len(chosen) < FewCitations THEN chosen \o others ELSE chosen
<1>1. reasons \in Seq(Evidence) /\ evidence \in Seq(Evidence) /\ IsInjective(evidence)
  BY InputsAssumption DEF Input
<1>2. Citations(i) = SubSeq(ranked, 1, IF Len(ranked) < MaxCitations THEN Len(ranked) ELSE MaxCitations)
  BY DEF Citations
<1> HIDE DEF reasons, evidence
<1>3. chosen \in Seq(Evidence) /\ ToSet(chosen) = {reasons[n] : n \in A} /\ IsInjective(chosen)
  <2>1. \A m, n \in A : reasons[m] = reasons[n] => m = n
    <3> SUFFICES ASSUME NEW m \in A, NEW n \in A, reasons[m] = reasons[n]
                 PROVE  m = n
      OBVIOUS
    <3>1. m \in Nat \ {0} /\ n \in Nat \ {0}
      BY <1>1, LenProperties
    <3>2. m \notin 1..(n - 1) /\ n \notin 1..(m - 1)
      OBVIOUS
    <3> QED
      BY <3>1, <3>2
  <2> HIDE DEF A
  <2>2. A \in SUBSET (DOMAIN reasons)
    BY DEF A
  <2> QED
    BY <1>1, <2>1, <2>2, PickedElements
<1>4. ToSet(chosen) \subseteq ToSet(evidence)
  BY <1>3
<1> HIDE DEF A, chosen
<1>5. others \in Seq(Evidence) /\ ToSet(others) = {evidence[n] : n \in B} /\ IsInjective(others)
  <2>1. /\ B \in SUBSET (DOMAIN evidence)
        /\ \A m, n \in B : evidence[m] = evidence[n] => m = n
    BY <1>1 DEF IsInjective
  <2> HIDE DEF B
  <2> QED
    BY <1>1, <2>1, PickedElements
<1>6. ToSet(others) \subseteq ToSet(evidence) /\ ToSet(chosen) \cap ToSet(others) = {}
  BY <1>5 DEF ToSet
<1> HIDE DEF B, others
<1>7. ranked \in Seq(Evidence) /\ ToSet(ranked) \subseteq ToSet(evidence) /\ IsInjective(ranked)
  <2>1. CASE ranked = chosen
    BY <1>3, <1>4, <2>1
  <2>2. CASE ranked = chosen \o others
    <3>1. /\ chosen \o others \in Seq(Evidence) /\ IsInjective(chosen \o others)
          /\ ToSet(chosen \o others) = ToSet(chosen) \cup ToSet(others)
      BY <1>3, <1>5, <1>6, JoinedElements
    <3> QED
      BY <1>4, <1>6, <2>2, <3>1
  <2> QED
    BY <2>1, <2>2
<1> HIDE DEF ranked
<1>8. MaxCitations \in Nat
  BY LimitsAssumption
<1> QED
  BY <1>2, <1>7, <1>8, PrefixElements DEF Fits, evidence

\* So do those an answer of AgentCore is shown with.
LEMMA AgentCitationsFit ==
  ASSUME NEW i \in Inputs, NEW a
  PROVE  Fits(AgentCitations(a, i), i)
<1> DEFINE evidence == i.evidence
           P == {n \in DOMAIN evidence : evidence[n] \in a.cites}
<1>1. evidence \in Seq(Evidence) /\ IsInjective(evidence)
  BY InputsAssumption DEF Input
<1>2. AgentCitations(a, i) \in {Picked(evidence, P), Citations(i)}
  BY DEF AgentCitations
<1> HIDE DEF evidence
<1>3. ToSet(Picked(evidence, P)) = {evidence[n] : n \in P} /\ IsInjective(Picked(evidence, P))
  <2>1. /\ P \in SUBSET (DOMAIN evidence)
        /\ \A m, n \in P : evidence[m] = evidence[n] => m = n
    BY <1>1 DEF IsInjective
  <2> HIDE DEF P
  <2> QED
    BY <1>1, <2>1, PickedElements
<1>4. ToSet(Picked(evidence, P)) \subseteq ToSet(evidence)
  BY <1>3 DEF ToSet
<1> HIDE DEF P
<1> QED
  BY <1>2, <1>3, <1>4, ComposedCitationsFit DEF Fits, evidence

-----------------------------------------------------------------------------
(* What is shown rests on the guards. *)

Shaped(a) ==
  a = [text |-> a.text, cites |-> a.cites, unsafe |-> a.unsafe, hidden |-> a.hidden,
       loose |-> a.loose]

IsReply(p) ==
  /\ p.by \in {"composer", "model"} /\ Shaped(p.answer)
  /\ p = [by |-> p.by, citations |-> p.citations, answer |-> p.answer]

\* A reply has its three fields, and there is one by the time it is normalised.
ReplyShape ==
  \A r \in Calls :
    /\ reply[r] = NoReply \/ IsReply(reply[r])
    /\ pc[r] = "normalise" => IsReply(reply[r])

GroundInv ==
  /\ reply = [r \in Calls |-> reply[r]] /\ ReplyShape
  /\ ShownAnswersAreGrounded /\ CitationsAreEvidence

LEMMA ReplyKept ==
  ASSUME IInv, GroundInv, NEW r \in Calls, UNCHANGED <<deployed, input, reply>>,
         NEW l, l # "normalise", pc' = [pc EXCEPT ![r] = l]
  PROVE  GroundInv'
<1>1. \A q \in Calls : pc'[q] = "normalise" => pc[q] = "normalise"
  BY DEF IInv, TypeOK
<1>2. ReplyShape'
  BY <1>1 DEF GroundInv, ReplyShape
<1>3. ShownAnswersAreGrounded'
  BY <1>1 DEF GroundInv, ShownAnswersAreGrounded
<1>4. CitationsAreEvidence'
  BY DEF GroundInv, CitationsAreEvidence
<1> QED
  BY <1>2, <1>3, <1>4 DEF GroundInv

LEMMA ReplySet ==
  ASSUME IInv, GroundInv, NEW r \in Calls, UNCHANGED <<deployed, input>>,
         NEW b \in {"composer", "model"}, NEW a, Shaped(a), NEW c, NEW l,
         pc' = [pc EXCEPT ![r] = l],
         reply' = [reply EXCEPT ![r] = [by |-> b, citations |-> c, answer |-> a]],
         b = "composer" => c = Citations(input[r]), Fits(c, input[r]),
         b = "model" => /\ input[r].policy = "allowed" /\ ~a.unsafe /\ a.cites \subseteq ToSet(c)
                        /\ l = "normalise" => a.cites # {}
                        /\ deployed.provider = "agentcore" => ~a.hidden
  PROVE  GroundInv'
<1>1. reply'[r] = [by |-> b, citations |-> c, answer |-> a] /\ pc'[r] = l
  BY DEF IInv, TypeOK, GroundInv
<1>2. \A q \in Calls \ {r} : reply'[q] = reply[q] /\ pc'[q] = pc[q]
  BY DEF IInv, TypeOK, GroundInv
<1>3. reply' = [q \in Calls |-> reply'[q]]
  BY DEF GroundInv
<1>4. ReplyShape'
  BY <1>1, <1>2 DEF GroundInv, ReplyShape, IsReply
<1>5. ShownAnswersAreGrounded'
  <2> SUFFICES ASSUME NEW q \in Calls
               PROVE  (/\ reply[q].by = "composer" => reply[q].citations = Citations(input[q])
                       /\ reply[q].by = "model" =>
                            /\ input[q].policy = "allowed" /\ ~reply[q].answer.unsafe
                            /\ reply[q].answer.cites \subseteq ToSet(reply[q].citations)
                            /\ pc[q] = "normalise" => reply[q].answer.cites # {}
                            /\ deployed.provider = "agentcore" => ~reply[q].answer.hidden)'
    BY DEF ShownAnswersAreGrounded
  <2>1. CASE q = r
    BY <1>1, <2>1
  <2>2. CASE q # r
    BY <1>2, <2>2 DEF GroundInv, ShownAnswersAreGrounded
  <2> QED
    BY <2>1, <2>2
<1>6. CitationsAreEvidence'
  BY <1>1, <1>2 DEF GroundInv, CitationsAreEvidence, Fits
<1> QED
  BY <1>3, <1>4, <1>5, <1>6 DEF GroundInv

LEMMA ComposedShape ==
  ASSUME NEW i
  PROVE  /\ Shaped(Composed(i).answer)
         /\ Composed(i) = [by |-> "composer", citations |-> Citations(i), answer |-> Composed(i).answer]
BY DEF Composed, Shaped

LEMMA AnswerShape ==
  /\ \A a \in Answers : Shaped(a)
  /\ \A i : Shaped(DevAnswer(i))
BY AnswersAssumption DEF DevAnswer, Answer, Shaped

LEMMA NormalisedShape ==
  ASSUME NEW a, Shaped(a)
  PROVE  /\ Shaped(Normalised(a)) /\ Normalised(a).cites = {} /\ ~Normalised(a).hidden
         /\ Normalised(a).unsafe = a.unsafe /\ Normalised(a).loose = a.loose
BY DEF Shaped, Normalised

LEMMA GroundKept ==
  ASSUME IInv, GroundInv, NEW r \in Calls, Step(r) \/ Kill(r)
  PROVE  GroundInv'
<1>0. input[r] \in Inputs
  BY InputShape DEF IInv
<1>1. CASE Read(r) \/ Call(r) \/ CallFails(r) \/ FindSession(r) \/ InsertSession(r)
           \/ Commit(r) \/ Respond(r) \/ CreateSession(r) \/ Kill(r)
  <2>1. CASE Call(r)
    BY <2>1, ReplyKept DEF Call, IInv, AttemptsAreCounted, AsksModel
  <2> QED
    BY <1>1, <2>1, ReplyKept DEF Read, CallFails, FindSession, InsertSession, Commit, Respond,
       CreateSession, Kill
<1>2. CASE UseTool(r)
  <2>1. pc' = [pc EXCEPT ![r] = "agentcore"]
    BY <1>2 DEF UseTool, IInv, TypeOK
  <2> QED
    BY <1>2, <2>1, ReplyKept DEF UseTool
<1>3. CASE Compose(r)
  <2>1. CASE GoTo(r, "unavailable") /\ UNCHANGED reply
    BY <1>3, <2>1, ReplyKept DEF Compose
  <2>2. CASE GoTo(r, "call") /\ UNCHANGED reply
    BY <1>3, <2>2, ReplyKept DEF Compose
  <2>3. CASE GoTo(r, "normalise") /\ reply' = [reply EXCEPT ![r] = Composed(input[r])]
    BY <1>0, <1>3, <2>3, ComposedShape, ComposedCitationsFit, ReplySet DEF Compose
  <2> QED
    BY <1>3, <2>1, <2>2, <2>3 DEF Compose
<1>4. CASE \E a \in Answers : BedrockAnswers(r, a)
  <2>1. PICK a \in Answers : BedrockAnswers(r, a)
    BY <1>4
  <2>2. Shaped(a) /\ deployed.provider = "bedrock" /\ input[r].policy = "allowed"
    BY <2>1, AnswerShape DEF BedrockAnswers, IInv, AttemptsAreCounted, AsksModel
  <2>3. CASE UNCHANGED reply /\ \E l \in {"call", "unavailable"} : GoTo(r, l)
    BY <2>1, <2>3, ReplyKept DEF BedrockAnswers
  <2>4. CASE BedrockVerdict(a, input[r], calls[r]) = "take" /\ Take(r, a)
    <3>1. ~a.unsafe /\ CitesOnly(a, Allowed(input[r]))
      BY <2>2, <2>4, Zenon DEF BedrockVerdict
    <3> QED
      BY <1>0, <2>1, <2>2, <2>4, <3>1, ComposedCitationsFit, ReplySet
         DEF BedrockAnswers, Take, TakenCitations, CitesOnly, Allowed
  <2> QED
    BY <2>1, <2>3, <2>4 DEF BedrockAnswers
<1>5. CASE \E a \in RuntimeAnswers(r) : AgentAnswers(r, a)
  <2>1. PICK a \in RuntimeAnswers(r) : AgentAnswers(r, a)
    BY <1>5
  <2>2. Shaped(a) /\ deployed.provider = "agentcore" /\ input[r].policy = "allowed"
    BY <2>1, AnswerShape
       DEF AgentAnswers, RuntimeAnswers, IInv, AttemptsAreCounted, AsksModel
  <2>3. CASE UNCHANGED reply /\ GoTo(r, "unavailable")
    BY <2>1, <2>3, ReplyKept DEF AgentAnswers
  <2>4. CASE AgentVerdict(a, input[r]) = "take" /\ Take(r, a)
    <3>1. ~a.hidden /\ ~a.unsafe /\ CitesOnly(a, ToSet(AgentCitations(a, input[r])))
      BY <2>2, <2>4, Zenon DEF AgentVerdict
    <3> QED
      BY <1>0, <2>1, <2>2, <2>4, <3>1, AgentCitationsFit, ReplySet
         DEF AgentAnswers, Take, TakenCitations, CitesOnly
  <2>5. CASE GoTo(r, "normalise") /\ reply' = [reply EXCEPT ![r] = Composed(input[r])]
    BY <1>0, <2>1, <2>5, ComposedShape, ComposedCitationsFit, ReplySet DEF AgentAnswers
  <2> QED
    BY <2>1, <2>3, <2>4, <2>5 DEF AgentAnswers
<1>6. CASE Normalise(r)
  <2>0. UNCHANGED <<deployed, input>>
    BY <1>6 DEF Normalise
  <2>1. IsReply(reply[r])
    BY <1>6 DEF Normalise, GroundInv, ReplyShape
  <2>2. PICK l \in {"answered", "find"} : pc' = [pc EXCEPT ![r] = l]
    BY <1>6 DEF Normalise
  <2> DEFINE a == reply[r].answer
             b == reply[r].by
             c == reply[r].citations
  <2>3. CASE a.loose
    <3>1. Shown(r) = Composed(input[r])
      BY <2>1, <2>3 DEF Shown, Normalised, IsReply, Shaped
    <3>2. reply' = [reply EXCEPT ![r] = Composed(input[r])]
      BY <1>6, <3>1 DEF Normalise
    <3> QED
      BY <1>0, <2>0, <2>2, <3>2, ComposedShape, ComposedCitationsFit, ReplySet
  <2>4. CASE ~a.loose
    <3>0. ~Normalised(a).loose /\ [reply[r] EXCEPT !.answer = Normalised(a)]
                                   = [by |-> b, citations |-> c, answer |-> Normalised(a)]
      <4>1. ~Normalised(a).loose
        BY <2>1, <2>4, NormalisedShape DEF IsReply
      <4>2. reply[r] = [by |-> b, citations |-> c, answer |-> a]
        BY <2>1 DEF IsReply
      <4> QED
        BY <4>1, <4>2
    <3>1. Shown(r) = [by |-> b, citations |-> c, answer |-> Normalised(a)]
      BY <3>0 DEF Shown
    <3>2. Shaped(Normalised(a)) /\ Normalised(a).cites = {} /\ ~Normalised(a).hidden
          /\ Normalised(a).unsafe = a.unsafe
      BY <2>1, NormalisedShape DEF IsReply
    <3>3. /\ b = "composer" => c = Citations(input[r])
          /\ b = "model" => input[r].policy = "allowed" /\ ~a.unsafe
      BY DEF GroundInv, ShownAnswersAreGrounded
    <3>4. reply' = [reply EXCEPT ![r] = [by |-> b, citations |-> c, answer |-> Normalised(a)]]
      BY <1>6, <3>1 DEF Normalise
    <3>5. Normalised(a).cites \subseteq ToSet(c) /\ b \in {"composer", "model"}
      BY <2>1, <3>2 DEF IsReply
    <3>6. Fits(c, input[r])
      BY <3>5 DEF GroundInv, CitationsAreEvidence, Fits
    <3> HIDE DEF a, b, c
    <3> QED
      BY <2>0, <2>2, <3>2, <3>3, <3>4, <3>5, <3>6, ReplySet
  <2> QED
    BY <2>3, <2>4
<1> QED
  BY <1>1, <1>2, <1>3, <1>4, <1>5, <1>6 DEF Step

\* Every stored or shown reply has passed its provider's guards.
LEMMA GroundInvariance ==
  Spec => []GroundInv
<1>1. Init => GroundInv
  BY DEF Init, GroundInv, ReplyShape, ShownAnswersAreGrounded, CitationsAreEvidence
<1>2. IInv /\ GroundInv /\ [Next]_vars => GroundInv'
  <2>1. ASSUME IInv, GroundInv, UNCHANGED vars  PROVE GroundInv'
    BY <2>1 DEF vars, GroundInv, ReplyShape, ShownAnswersAreGrounded, CitationsAreEvidence
  <2> QED
    BY <2>1, GroundKept DEF Next
<1> QED
  BY <1>1, <1>2, Invariance, PTL DEF Spec

\* What is shown passed its provider's guards, with the citations it rests on.
THEOREM AnswersStayGrounded ==
  Spec => []ShownAnswersAreGrounded
<1>1. GroundInv => ShownAnswersAreGrounded
  BY DEF GroundInv
<1> QED
  BY <1>1, GroundInvariance, PTL

\* Whatever the reasons and the model name, what is cited is evidence the request has
\* read, and no item is cited twice.
THEOREM CitationsStayEvidence ==
  Spec => []CitationsAreEvidence
<1>1. GroundInv => CitationsAreEvidence
  BY DEF GroundInv
<1> QED
  BY <1>1, GroundInvariance, PTL

-----------------------------------------------------------------------------
(* Refinement of ChatPromise. *)

LEMMA StepRefines ==
  ASSUME IInv, IInv', NEW r \in Calls, Step(r) \/ Kill(r)
  PROVE  [Promise!Next]_(Promise!vars)
<1> DEFINE status == [q \in Calls |-> Map(q)]
<1> USE DEF IInv, Promise!vars
<1>1. CASE UNCHANGED <<input, owner, messages>> /\ pc[r] \notin Ended /\ pc'[r] \notin Ended
           /\ \A q \in Calls \ {r} : pc'[q] = pc[q]
  <2>1. \A q \in Calls : Map(q)' = Map(q)
    BY <1>1 DEF Map, Ended
  <2> QED
    BY <1>1, <2>1
<1>2. CASE UNCHANGED <<input, owner, messages>> /\ pc[r] \notin Ended
           /\ pc' = [pc EXCEPT ![r] = pc'[r]] /\ pc'[r] \in Ended \ {"answered"}
  <2>1. status' = [status EXCEPT ![r] = "failed"] /\ status[r] = "open"
    BY <1>2 DEF Map, Ended, TypeOK
  <2> QED
    BY <1>2, <2>1 DEF Promise!Next, Promise!Fail
<1>3. CASE UNCHANGED <<input, owner, messages>> /\ pc[r] \notin Ended /\ input[r].chats
           /\ pc' = [pc EXCEPT ![r] = "answered"]
  <2>1. status' = [status EXCEPT ![r] = "answered"] /\ status[r] = "open"
    BY <1>3 DEF Map, Ended, TypeOK
  <2>2. User(r) # Guest => Promise!Exchange(r) \subseteq messages[Promise!Target(r)]
    BY <1>3, <2>1 DEF MessagesArePlaced, Exchange, Target, Promise!Exchange, Promise!Target, TypeOK
  <2> QED
    BY <1>3, <2>1, <2>2 DEF Promise!Next, Promise!Answer
<1>4. CASE Commit(r)
  <2>1. status[r] = "open" /\ status' = status
    BY <1>4 DEF Commit, Map, Ended, TypeOK
  <2>2. input[r].chats /\ User(r) # Guest /\ Target(r) \in Sessions
    BY <1>4, InputShape DEF Commit, TransactionsAreReady
  <2>3. owner[Target(r)] \in {User(r), Nobody} /\ owner' = [owner EXCEPT ![Target(r)] = User(r)]
    <3>1. CASE draft[r]
      BY <1>4, <3>1 DEF Commit, DraftsAreExclusive
    <3>2. CASE ~draft[r]
      <4>1. owner' = owner /\ owner[Target(r)] = User(r)
        BY <1>4, <3>2 DEF Commit, TransactionsAreReady, OwnsTarget
      <4> QED
        BY <2>2, <4>1 DEF TypeOK
    <3> QED
      BY <3>1, <3>2
  <2>4. Exchange(r) \cap messages[Target(r)] = {}
    BY <1>4, <2>2 DEF Commit, MessagesArePlaced, Exchange
  <2> QED
    BY <1>4, <2>1, <2>2, <2>3, <2>4 DEF Commit, Exchange, Target, Promise!Next, Promise!Store,
       Promise!Exchange, Promise!Target
<1>5. CASE CreateSession(r) /\ owner[Target(r)] = Nobody
  <2>1. status[r] = "open" /\ status' = [status EXCEPT ![r] = "answered"]
    BY <1>5 DEF CreateSession, Map, Ended, TypeOK
  <2> QED
    BY <1>5, <2>1 DEF CreateSession, Target, Promise!Next, Promise!Create, Promise!Target
<1>6. CASE CreateSession(r) /\ owner[Target(r)] # Nobody
  BY <1>2, <1>6 DEF CreateSession, TypeOK, Ended
<1>7. CASE Kill(r)
  BY <1>2, <1>7 DEF Kill, TypeOK, Ended
<1>8. CASE Read(r) \/ Compose(r) \/ Call(r) \/ CallFails(r) \/ UseTool(r) \/ FindSession(r)
           \/ InsertSession(r)
  <2>1. UNCHANGED <<input, owner, messages>> /\ pc[r] \notin Ended
    BY <1>8 DEF Read, Compose, Call, CallFails, UseTool, FindSession, InsertSession, Ended
  <2>2. pc' = [pc EXCEPT ![r] = pc'[r]] /\ pc'[r] # "answered"
    BY <1>8 DEF Read, Compose, Call, CallFails, UseTool, FindSession, InsertSession, TypeOK,
       AttemptsAreCounted, AsksModel
  <2>3. \A q \in Calls \ {r} : pc'[q] = pc[q]
    BY <2>2 DEF TypeOK
  <2> QED
    BY <1>1, <1>2, <2>1, <2>2, <2>3
<1>9. CASE (\E a \in Answers : BedrockAnswers(r, a)) \/ \E a \in RuntimeAnswers(r) : AgentAnswers(r, a)
  <2>1. UNCHANGED <<input, owner, messages>> /\ pc[r] \notin Ended
    BY <1>9 DEF BedrockAnswers, AgentAnswers, Ended
  <2>2. \E l \in {"normalise", "call", "unavailable"} : pc' = [pc EXCEPT ![r] = l]
    BY <1>9 DEF BedrockAnswers, AgentAnswers, Take
  <2>3. pc' = [pc EXCEPT ![r] = pc'[r]] /\ pc'[r] # "answered"
        /\ \A q \in Calls \ {r} : pc'[q] = pc[q]
    BY <2>2 DEF TypeOK
  <2> QED
    BY <1>1, <1>2, <2>1, <2>3
<1>10. CASE Normalise(r)
  <2>1. UNCHANGED <<input, owner, messages>> /\ pc[r] \notin Ended /\ input[r].chats
    BY <1>10 DEF Normalise, Ended, TransactionsAreReady
  <2>2. CASE User(r) = Guest
    BY <1>3, <1>10, <2>1, <2>2 DEF Normalise
  <2>3. CASE User(r) # Guest
    BY <1>1, <1>10, <2>1, <2>3 DEF Normalise, TypeOK, Ended
  <2> QED
    BY <2>2, <2>3
<1>11. CASE Respond(r)
  BY <1>3, <1>11 DEF Respond, Ended, TransactionsAreReady
<1> QED
  BY <1>4, <1>5, <1>6, <1>7, <1>8, <1>9, <1>10, <1>11 DEF Step

\* Every step of a request is a step of the promise, or none that it can see.
THEOREM RefinesChatPromise ==
  Spec => KeepsPromise
<1>1. Init => Promise!Init
  BY DEF Init, Promise!Init, Map, Ended
<1>2. IInv /\ IInv' /\ [Next]_vars => [Promise!Next]_(Promise!vars)
  <2>1. ASSUME UNCHANGED vars
        PROVE  UNCHANGED Promise!vars
    BY <2>1 DEF vars, Map, Promise!vars
  <2>2. ASSUME IInv, IInv', Next
        PROVE  [Promise!Next]_(Promise!vars)
    BY <2>2, StepRefines DEF Next
  <2> QED
    BY <2>1, <2>2
<1> QED
  BY <1>1, <1>2, Invariance, PTL DEF Spec, KeepsPromise, Promise!Spec, Promise!vars

=============================================================================
