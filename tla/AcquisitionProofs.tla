------------------------- MODULE AcquisitionProofs -------------------------
(***************************************************************************)
(* Proofs about Acquisition, in layers, each an inductive invariant        *)
(* that uses those before it:                                              *)
(*   FetchInv   what is cached, noted and got rests on the provider        *)
(*   Inv        sessions are whole, and write what they alone write        *)
(*   PlacedInv  writes are of the items a run has passed; actors have met  *)
(*   SightInv   what a run has seen of the cache and the store is current  *)
(*   OwnerInv   a document and its row name one ticker                     *)
(* Together they are the module's IInv.  That nothing is stored which no   *)
(* provider has answered follows from the first and the third, that a run  *)
(* fails only beside a rival from the fourth.                              *)
(***************************************************************************)
EXTENDS Acquisition, SequenceTheorems, TLAPS

USE DEF At, GoTo

-----------------------------------------------------------------------------
(* What the calls of a run rest on. *)

\* What is cached, noted and got has its type, and rests on answers.
FetchInv == FetchTypeOK /\ CallsRest

\* What a run is about, and the parts of its call.
LEMMA AskShape ==
  ASSUME FetchTypeOK, NEW r \in Runs
  PROVE  /\ Ticker(r) \in Tickers /\ ask[r].ready \in BOOLEAN
         /\ Parts(r) \in Seq(Part) /\ Len(Parts(r)) \in 1..2 /\ DOMAIN Parts(r) = 1..Len(Parts(r))
         /\ ask[r].provider # "OpenDART" => Len(Parts(r)) = 1
         /\ \A i \in 1..Len(Parts(r)) : Parts(r)[i] \in ToSet(Parts(r))
         /\ \A p \in ToSet(Parts(r)) : \E i \in 1..Len(Parts(r)) : Parts(r)[i] = p
<1>1. ask \in Asks /\ ask \in [Runs -> Request]
  BY AsksAssumption DEF FetchTypeOK
<1>2. ask[r] \in Request /\ Parts(r) \in Seq(Part) /\ Ticker(r) \in Tickers /\ ask[r].ready \in BOOLEAN
  BY <1>1 DEF Request, Parts, Ticker
<1>3. Len(Parts(r)) = IF ask[r].provider = "OpenDART" THEN 2 ELSE 1
  BY <1>1, AsksAssumption DEF Parts
<1>4. DOMAIN Parts(r) = 1..Len(Parts(r))
  BY <1>2, LenProperties
<1> QED
  BY <1>2, <1>3, <1>4 DEF ToSet

\* A part of a call has its keys; only statements have years, each with a call of its own.
LEMMA PartShape ==
  ASSUME FetchTypeOK, NEW r \in Runs, NEW p \in ToSet(Parts(r))
  PROVE  /\ p.key \in CacheKeys /\ p.spare \in CacheKeys /\ p.years \in Seq(Seq(CacheKeys))
         /\ DOMAIN p.years = 1..Len(p.years) /\ Len(p.years) \in Nat
         /\ p.years = <<>> <=> Len(p.years) = 0
         /\ ask[r].provider # "OpenDART" => p.years = <<>>
         /\ \A y \in 1..Len(p.years) :
              /\ p.years[y] \in Seq(CacheKeys) /\ Len(p.years[y]) \in Nat \ {0}
              /\ DOMAIN p.years[y] = 1..Len(p.years[y])
              /\ \A d \in 1..Len(p.years[y]) : p.years[y][d] \in CacheKeys /\ p.years[y][d] \in ToSet(p.years[y])
<1>1. ask \in Asks /\ p \in ToSet(ask[r].parts)
  BY DEF FetchTypeOK, Parts
<1>2. p \in Part
  BY AskShape, ElementOfSeq
<1>3. p.key \in CacheKeys /\ p.spare \in CacheKeys /\ p.years \in Seq(Seq(CacheKeys))
  BY <1>2 DEF Part
<1>4. /\ DOMAIN p.years = 1..Len(p.years) /\ Len(p.years) \in Nat
      /\ p.years = <<>> <=> Len(p.years) = 0
  BY <1>3, LenProperties, EmptySeq
<1>5. ask[r].provider # "OpenDART" => p.years = <<>>
  BY <1>1, AsksAssumption
<1>6. ASSUME NEW y \in 1..Len(p.years)
      PROVE  /\ p.years[y] \in Seq(CacheKeys) /\ Len(p.years[y]) \in Nat \ {0}
             /\ DOMAIN p.years[y] = 1..Len(p.years[y])
  <2>1. p.years[y] \in Seq(CacheKeys)
    BY <1>3, ElementOfSeq
  <2>2. p.years[y] # <<>>
    BY <1>1, <1>4, AsksAssumption
  <2> QED
    BY <2>1, <2>2, LenProperties, EmptySeq
<1>7. ASSUME NEW y \in 1..Len(p.years), NEW d \in 1..Len(p.years[y])
      PROVE  p.years[y][d] \in CacheKeys /\ p.years[y][d] \in ToSet(p.years[y])
  <2>1. p.years[y] \in Seq(CacheKeys) /\ d \in DOMAIN p.years[y]
    BY <1>6
  <2>2. p.years[y][d] \in CacheKeys
    BY <1>6, <1>7, ElementOfSeq
  <2> QED
    BY <2>1, <2>2 DEF ToSet
<1> QED
  BY <1>3, <1>4, <1>5, <1>6, <1>7

\* The calls of a year are none of a part's.
LEMMA YearKeysDiffer ==
  ASSUME FetchTypeOK, NEW r \in Runs, NEW p \in ToSet(Parts(r)), NEW q \in Runs, NEW o \in ToSet(Parts(q))
  PROVE  /\ p.key = o.key => p.years = o.years
         /\ \A y \in DOMAIN p.years : \A c \in ToSet(p.years[y]) : c # o.key /\ c # o.spare
<1>1. ask \in Asks /\ p \in ToSet(ask[r].parts) /\ o \in ToSet(ask[q].parts)
  BY DEF FetchTypeOK, Parts
<1>2. /\ p.key = o.key => p.years = o.years
      /\ \A y \in DOMAIN p.years : {o.key, o.spare} \cap ToSet(p.years[y]) = {}
  BY <1>1, CacheKeysAssumption
<1> QED
  BY <1>2

\* The items of two answers as one.
LEMMA JoinedItems ==
  ASSUME NEW T, NEW s \in Seq(T), NEW t \in Seq(T)
  PROVE  s \o t \in Seq(T) /\ ToSet(s \o t) = ToSet(s) \cup ToSet(t)
<1>1. /\ Len(s) \in Nat /\ DOMAIN s = 1..Len(s) /\ Len(t) \in Nat /\ DOMAIN t = 1..Len(t)
  BY LenProperties
<1>2. /\ s \o t \in Seq(T) /\ DOMAIN (s \o t) = 1..(Len(s) + Len(t))
      /\ \A k \in 1..(Len(s) + Len(t)) : (s \o t)[k] = IF k <= Len(s) THEN s[k] ELSE t[k - Len(s)]
  BY <1>1, ConcatProperties, LenProperties
<1> DEFINE j == s \o t
<1> HIDE DEF j
<1>3. \A k \in DOMAIN j : \/ k \in DOMAIN s /\ j[k] = s[k]
                          \/ k \notin DOMAIN s /\ k - Len(s) \in DOMAIN t /\ j[k] = t[k - Len(s)]
  BY <1>1, <1>2 DEF j
<1>4. (\A k \in DOMAIN s : k \in DOMAIN j /\ j[k] = s[k])
      /\ \A k \in DOMAIN t : k + Len(s) \in DOMAIN j /\ j[k + Len(s)] = t[k]
  <2>1. \A k \in DOMAIN t : (k + Len(s)) - Len(s) = k /\ ~(k + Len(s) <= Len(s)) /\ k + Len(s) \in 1..(Len(s) + Len(t))
    BY <1>1
  <2> QED
    BY <1>1, <1>2, <2>1 DEF j
<1>5. ToSet(j) = ToSet(s) \cup ToSet(t)
  BY <1>3, <1>4 DEF ToSet
<1> QED
  BY <1>2, <1>5 DEF j

\* Two results as one.
LEMMA MergeShape ==
  ASSUME NEW a \in Results, NEW b \in Results
  PROVE  /\ Merge(a, b) \in Results
         /\ Merge(a, b).ok <=> (a.ok \/ b.ok)
         /\ Merge(a, b).missing <=> (a.missing \/ b.missing)
         /\ Merge(a, b).items = a.items \o b.items
         /\ ToSet(Merge(a, b).items) = ToSet(a.items) \cup ToSet(b.items)
<1>1. a.items \in Seq(Keys) /\ b.items \in Seq(Keys)
  BY DEF Results
<1>2. /\ a.items \o b.items \in Seq(Keys)
      /\ ToSet(a.items \o b.items) = ToSet(a.items) \cup ToSet(b.items)
  BY <1>1, JoinedItems
<1>3. Merge(a, b).items = a.items \o b.items
  BY DEF Merge
<1>4. Merge(a, b) \in Results
  BY <1>2 DEF Merge, Results
<1>5. (Merge(a, b).ok <=> (a.ok \/ b.ok)) /\ (Merge(a, b).missing <=> (a.missing \/ b.missing))
  BY DEF Merge, Results
<1> QED
  BY <1>2, <1>3, <1>4, <1>5

\* What rests on answers goes on to when more calls are answered.
LEMMA AnswersGrow ==
  ASSUME answered \subseteq answered'
  PROVE  /\ \A S : Supplied(S) \subseteq Supplied(S)'
         /\ \A calls : YearAnswered(calls) => YearAnswered(calls)'
         /\ \A p : Answered(p) => Answered(p)'
         /\ \A p, result : Rests(p, result) => Rests(p, result)'
<1>1. \A S : Supplied(S) \subseteq Supplied(S)'
  BY DEF Supplied
<1>2. \A calls : YearAnswered(calls) => YearAnswered(calls)'
  BY DEF YearAnswered
<1>3. \A p : Answered(p) => Answered(p)'
  BY <1>2 DEF Answered
<1> QED
  BY <1>1, <1>2, <1>3 DEF Rests

\* A fallback claims nothing.
LEMMA FallbackRests ==
  \A p : Rests(p, Fallback)
BY DEF Rests, Fallback, ToSet

\* A part's result rests on answers for every part with its key and years.
LEMMA SameKeyRests ==
  ASSUME NEW p, NEW o, p.key = o.key, p.years = o.years, NEW result, Rests(p, result)
  PROVE  Rests(o, result)
BY DEF Rests, Sources, Answered

\* Results are told apart by what they hold.
LEMMA RestsByFields ==
  ASSUME NEW p, NEW a, NEW b, a.ok = b.ok, a.items = b.items, a.missing = b.missing, Rests(p, a)
  PROVE  Rests(p, b)
BY DEF Rests

\* Every part of a run's call is kept with the run.
LEMMA PartsStay ==
  ASSUME UNCHANGED ask, NEW r \in Runs
  PROVE  /\ Parts(r)' = Parts(r) /\ Ticker(r)' = Ticker(r)
         /\ place'[r] = place[r] => ThePart(r)' = ThePart(r) /\ CallKey(r)' = CallKey(r) /\ (AtYear(r)' <=> AtYear(r))
         /\ place'[r].part = place[r].part => ThePart(r)' = ThePart(r)
BY DEF Parts, Ticker, ThePart, CallKey, AtYear

\* The cached results still rest on answers when more calls are answered.
LEMMA CacheStays ==
  ASSUME FetchInv, UNCHANGED <<ask, cache>>, answered \subseteq answered'
  PROVE  CacheRests'
<1>1. ASSUME NEW r \in Runs, NEW p \in ToSet(Parts(r)), NEW e, e = cache[p.key], e.there
      PROVE  Rests(p, e)'
  <2>1. Rests(p, e)
    BY <1>1 DEF FetchInv, CallsRest, CacheRests
  <2> QED
    BY <2>1, AnswersGrow
<1> QED
  BY <1>1, PartsStay DEF FetchInv, CallsRest, CacheRests, Rests

\* A run stays where it is while others are answered.
LEMMA OthersRest ==
  ASSUME FetchInv, UNCHANGED ask, answered \subseteq answered', NEW q \in Runs,
         pc'[q] = pc[q], place'[q] = place[q], got'[q] = got[q], note'[q] = note[q]
  PROVE  PlaceRests(q)' /\ GotRests(q)'
<1>1. /\ Parts(q)' = Parts(q) /\ ThePart(q)' = ThePart(q) /\ CallKey(q)' = CallKey(q)
      /\ AtYear(q)' <=> AtYear(q)
      /\ Items(q)' = Items(q)
  BY PartsStay DEF Items
<1>2. PlaceRests(q) /\ GotRests(q)
  BY DEF FetchInv, CallsRest
<1>3. NoteRests(q) => NoteRests(q)'
  BY <1>1, AnswersGrow DEF NoteRests
<1>4. PlaceRests(q)'
  BY <1>1, <1>2, <1>3, AnswersGrow DEF PlaceRests
<1>5. GotRests(q)'
  <2> DEFINE taken == {Parts(q)[i] : i \in 1..(place[q].part - 1)}
  <2>1. {Parts(q)'[i] : i \in 1..(place'[q].part - 1)} = taken
    BY <1>1
  <2>2. ASSUME NEW p \in taken
        PROVE  Supplied(Sources(p)) \subseteq Supplied(Sources(p))' /\ (Answered(p) => Answered(p)')
    BY AnswersGrow DEF Sources
  <2> QED
    BY <1>1, <1>2, <2>1, <2>2 DEF GotRests
<1> QED
  BY <1>4, <1>5

\* So does a run that goes on to persist what it has got, or ends.
LEMMA PersistRests ==
  ASSUME FetchInv, UNCHANGED <<ask, answered>>, NEW r \in Runs,
         place'[r] = place[r], got'[r] = got[r],
         pc'[r] \notin Calling, pc'[r] \in {"failed", "dead"} \/ pc[r] \notin Calling \cup {"failed", "dead"}
  PROVE  PlaceRests(r)' /\ GotRests(r)'
<1>1. Parts(r)' = Parts(r) /\ Items(r)' = Items(r)
  BY PartsStay DEF Items
<1>2. PlaceRests(r) /\ GotRests(r)
  BY DEF FetchInv, CallsRest
<1>3. PlaceRests(r)'
  BY <1>1, <1>2 DEF PlaceRests, Calling
<1>4. GotRests(r)'
  <2> DEFINE taken == {Parts(r)[i] : i \in 1..(place[r].part - 1)}
  <2>1. {Parts(r)'[i] : i \in 1..(place'[r].part - 1)} = taken
    BY <1>1
  <2>2. ASSUME NEW p \in taken
        PROVE  Supplied(Sources(p))' = Supplied(Sources(p)) /\ (Answered(p)' <=> Answered(p))
    BY DEF Sources, Supplied, Answered, YearAnswered
  <2> QED
    BY <1>1, <1>2, <2>1, <2>2 DEF GotRests
<1> QED
  BY <1>3, <1>4

\* The part a run is at.
LEMMA AtPart ==
  ASSUME FetchInv, NEW r \in Runs, pc[r] \in Calling
  PROVE  /\ ThePart(r) \in ToSet(Parts(r)) /\ place[r].part \in 1..Len(Parts(r))
         /\ PlaceRests(r) /\ GotRests(r)
<1>1. PlaceRests(r) /\ GotRests(r) /\ FetchTypeOK
  BY DEF FetchInv, CallsRest
<1>2. place[r].part \in 1..(Len(Parts(r)) + 1) /\ place[r].part <= Len(Parts(r))
  BY <1>1 DEF PlaceRests
<1>3. place[r].part \in 1..Len(Parts(r))
  BY <1>1, <1>2, AskShape
<1> QED
  BY <1>1, <1>3, AskShape DEF ThePart

\* A part that is taken is a result.
LEMMA TakePartType ==
  ASSUME FetchTypeOK, NEW r \in Runs, NEW result \in Results, TakePart(r, result)
  PROVE  /\ got' \in [Runs -> Results] /\ pc' \in [Runs -> Labels]
         /\ place' \in [Runs -> [part : Nat, year : Nat, div : Nat, rows : Seq(Keys), missing : BOOLEAN]]
         /\ \A q \in Runs \ {r} : pc'[q] = pc[q] /\ place'[q] = place[q] /\ got'[q] = got[q]
<1>1. /\ got' = [got EXCEPT ![r] = Merge(got[r], result)] /\ place' = [place EXCEPT ![r] = Begin(place[r].part + 1)]
      /\ pc' = [pc EXCEPT ![r] = IF place[r].part = Len(Parts(r)) THEN "archive" ELSE "look"]
  BY DEF TakePart
<1>2. Merge(got[r], result) \in Results
  BY MergeShape DEF FetchTypeOK
<1>3. got' \in [Runs -> Results]
  BY <1>1, <1>2 DEF FetchTypeOK
<1>4. Begin(place[r].part + 1) \in [part : Nat, year : Nat, div : Nat, rows : Seq(Keys), missing : BOOLEAN]
  BY EmptySeq DEF FetchTypeOK, Begin
<1>5. place' \in [Runs -> [part : Nat, year : Nat, div : Nat, rows : Seq(Keys), missing : BOOLEAN]]
  BY <1>1, <1>4 DEF FetchTypeOK
<1>6. pc' \in [Runs -> Labels]
  BY <1>1 DEF FetchTypeOK, Labels
<1>7. \A q \in Runs \ {r} : pc'[q] = pc[q] /\ place'[q] = place[q] /\ got'[q] = got[q]
  BY <1>1 DEF FetchTypeOK
<1> QED
  BY <1>3, <1>5, <1>6, <1>7

\* With a result that rests on answers the next part does.
LEMMA TakePartRests ==
  ASSUME FetchInv, NEW r \in Runs, pc[r] \in Calling, UNCHANGED <<ask, answered>>,
         NEW result \in Results, Rests(ThePart(r), result), TakePart(r, result)
  PROVE  PlaceRests(r)' /\ GotRests(r)'
<1> DEFINE n == place[r].part
<1>0. FetchTypeOK /\ PlaceRests(r) /\ GotRests(r) /\ ThePart(r) \in ToSet(Parts(r)) /\ n \in 1..Len(Parts(r))
  BY AtPart DEF FetchInv
<1>1. Parts(r)' = Parts(r) /\ Len(Parts(r)) \in 1..2
  BY <1>0, PartsStay, AskShape
<1>2. got' = [got EXCEPT ![r] = Merge(got[r], result)] /\ place' = [place EXCEPT ![r] = Begin(n + 1)]
      /\ pc' = [pc EXCEPT ![r] = IF n = Len(Parts(r)) THEN "archive" ELSE "look"]
  BY DEF TakePart
<1>3. /\ got'[r] = Merge(got[r], result) /\ place'[r] = Begin(n + 1)
      /\ pc'[r] = IF n = Len(Parts(r)) THEN "archive" ELSE "look"
  BY <1>0, <1>2 DEF FetchTypeOK
<1>4. /\ place'[r].part = n + 1 /\ place'[r].year = 1 /\ place'[r].rows = <<>>
      /\ place'[r] = Begin(place'[r].part)
  BY <1>3 DEF Begin
<1>5. PlaceRests(r)'
  <2>1. place'[r].part \in 1..(Len(Parts(r)) + 1) /\ 1..(place'[r].year - 1) = {} /\ ToSet(place'[r].rows) = {}
    BY <1>0, <1>1, <1>4 DEF ToSet
  <2>2. pc'[r] \in {"archive", "look"} /\ (pc'[r] = "look" => n + 1 <= Len(Parts(r)))
        /\ (pc'[r] = "archive" => n + 1 > Len(Parts(r)))
    BY <1>0, <1>1, <1>3
  <2> QED
    BY <1>1, <1>4, <2>1, <2>2 DEF PlaceRests, Calling
<1>6. got[r] \in Results
  BY <1>0 DEF FetchTypeOK
<1>7. /\ got'[r].ok <=> (got[r].ok \/ result.ok)
      /\ got'[r].missing <=> (got[r].missing \/ result.missing)
      /\ ToSet(got'[r].items) = ToSet(got[r].items) \cup ToSet(result.items)
  <2>1. /\ Merge(got[r], result).ok <=> (got[r].ok \/ result.ok)
        /\ Merge(got[r], result).missing <=> (got[r].missing \/ result.missing)
        /\ ToSet(Merge(got[r], result).items) = ToSet(got[r].items) \cup ToSet(result.items)
    BY <1>6, MergeShape
  <2>2. got'[r] = Merge(got[r], result)
    BY <1>3
  <2> QED
    BY <2>1, <2>2, Zenon
<1>8. {Parts(r)[i] : i \in 1..n} = {Parts(r)[i] : i \in 1..(n - 1)} \cup {ThePart(r)}
  BY <1>0, <1>1 DEF ThePart
<1>9. GotRests(r)'
  <2> DEFINE taken == {Parts(r)[i] : i \in 1..(n - 1)}
             done == {Parts(r)[i] : i \in 1..n}
  <2>1. {Parts(r)'[i] : i \in 1..(place'[r].part - 1)} = done
    <3>1. 1..(place'[r].part - 1) = 1..n
      BY <1>0, <1>1, <1>4
    <3> QED
      BY <1>1, <3>1
  <2>2. \A p \in done : Supplied(Sources(p))' = Supplied(Sources(p)) /\ (Answered(p)' <=> Answered(p))
    BY DEF Sources, Supplied, Answered, YearAnswered
  <2>3. place'[r].part # 1
    BY <1>0, <1>1, <1>4
  <2>4. ToSet(Items(r)') \subseteq UNION {Supplied(Sources(p)) : p \in done}
    <3>1. ToSet(got[r].items) \subseteq UNION {Supplied(Sources(p)) : p \in taken}
      BY <1>0 DEF GotRests, Items
    <3>2. ToSet(result.items) \subseteq Supplied(Sources(ThePart(r)))
      BY DEF Rests
    <3> QED
      BY <1>7, <1>8, <3>1, <3>2 DEF Items
  <2>5. CASE ask[r].provider = "OpenDART"
    <3>1. ~got[r].missing => \A p \in taken : Answered(p)
      BY <1>0, <2>5 DEF GotRests
    <3>2. ~result.missing => Answered(ThePart(r))
      BY DEF Rests
    <3>3. ~got'[r].missing => \A p \in done : Answered(p)
      BY <1>7, <1>8, <3>1, <3>2
    <3> QED
      BY <2>1, <2>2, <2>3, <2>4, <2>5, <3>3 DEF GotRests, Items
  <2>6. CASE ask[r].provider # "OpenDART"
    <3>1. n = 1 /\ ThePart(r).years = <<>>
      BY <1>0, <2>6, AskShape, PartShape
    <3>2. got[r] = Nothing /\ 1..(n - 1) = {}
      BY <1>0, <3>1 DEF GotRests
    <3>3. result.ok => Answered(ThePart(r))
      BY <3>1 DEF Rests
    <3>4. done = {ThePart(r)}
      <4>1. taken = {}
        BY <3>2
      <4> QED
        BY <1>8, <4>1
    <3>6. ~got[r].ok
      BY <3>2 DEF Nothing
    <3>5. got'[r].ok => \A p \in done : Answered(p)
      BY <1>7, <3>3, <3>4, <3>6
    <3> QED
      BY <2>1, <2>2, <2>3, <2>4, <2>6, <3>5 DEF GotRests, Items
  <2> QED
    BY <2>5, <2>6
<1> QED
  BY <1>5, <1>9

\* A step of one run.
LEMMA RunRests ==
  ASSUME FetchInv, NEW r \in Runs, UNCHANGED ask, answered \subseteq answered', FetchTypeOK', CacheRests',
         PlaceRests(r)', GotRests(r)',
         \A q \in Runs \ {r} :
           pc'[q] = pc[q] /\ place'[q] = place[q] /\ got'[q] = got[q] /\ note'[q] = note[q]
  PROVE  FetchInv'
<1>1. \A q \in Runs \ {r} : PlaceRests(q)' /\ GotRests(q)'
  BY OthersRest
<1> QED
  BY <1>1 DEF FetchInv, CallsRest

\* A run starts.
LEMMA StartRests ==
  ASSUME FetchInv, NEW r \in Runs, Start(r), UNCHANGED ask
  PROVE  FetchInv'
<1>0. FetchTypeOK /\ PlaceRests(r) /\ GotRests(r) /\ CacheRests /\ pc[r] = "idle" /\ pc[r] \in Calling
  BY DEF FetchInv, CallsRest, Start, Calling
<1>1. /\ pc' = [pc EXCEPT ![r] = IF Ticker(r) \in Registered THEN "look" ELSE "failed"]
      /\ UNCHANGED <<cache, place, note, got, answered>>
  BY DEF Start, fetch
<1>2. FetchTypeOK'
  BY <1>0, <1>1 DEF FetchTypeOK, Labels, Ended
<1>3. pc'[r] \in {"look", "failed"}
  BY <1>0, <1>1 DEF FetchTypeOK
<1>4. CacheRests'
  BY <1>1, CacheStays
<1>5. PlaceRests(r)' /\ GotRests(r)'
  <2>1. /\ Parts(r)' = Parts(r) /\ ThePart(r)' = ThePart(r) /\ Items(r)' = Items(r)
    BY <1>1, PartsStay DEF Items
  <2>2. PlaceRests(r)'
    <3>1. /\ Supplied(Sources(ThePart(r)))' = Supplied(Sources(ThePart(r)))
          /\ \A calls : YearAnswered(calls)' <=> YearAnswered(calls)
      BY <1>1, <2>1 DEF Supplied, Sources, YearAnswered
    <3> QED
      BY <1>0, <1>1, <1>3, <2>1, <3>1 DEF PlaceRests, Calling
  <2>3. GotRests(r)'
    <3> DEFINE taken == {Parts(r)[i] : i \in 1..(place[r].part - 1)}
    <3>1. {Parts(r)'[i] : i \in 1..(place'[r].part - 1)} = taken
      BY <1>1, <2>1
    <3>2. \A p \in taken : Supplied(Sources(p))' = Supplied(Sources(p)) /\ (Answered(p)' <=> Answered(p))
      BY <1>1 DEF Sources, Supplied, Answered, YearAnswered
    <3> QED
      BY <1>0, <1>1, <2>1, <3>1, <3>2 DEF GotRests
  <2> QED
    BY <2>2, <2>3
<1>6. \A q \in Runs \ {r} : pc'[q] = pc[q] /\ place'[q] = place[q] /\ got'[q] = got[q] /\ note'[q] = note[q]
  BY <1>0, <1>1 DEF FetchTypeOK
<1> QED
  BY <1>1, <1>2, <1>4, <1>5, <1>6, RunRests

\* A run notes what it is about to cache: it stays at its place.
LEMMA NoteKept ==
  ASSUME FetchInv, NEW r \in Runs, UNCHANGED <<ask, cache, place, got>>, answered \subseteq answered',
         pc[r] \in Calling, NEW c \in CacheKeys, NEW result \in Results, Note(r, c, result), answered' \subseteq CacheKeys,
         NEW p, p = ThePart(r),
         \/ c \in {p.key, p.spare} /\ Rests(p, result)' /\ (c = p.key \/ result = Fallback)
         \/ /\ p.years # <<>> /\ AtYear(r) /\ c = CallKey(r)
            /\ result.items # <<>> => c \in answered' /\ result.items = Feed[c]
  PROVE  FetchInv'
<1>0. FetchTypeOK /\ PlaceRests(r) /\ GotRests(r) /\ CacheRests /\ p \in ToSet(Parts(r))
  BY AtPart DEF FetchInv, CallsRest
<1>1. /\ note' = [note EXCEPT ![r] = [key |-> c, result |-> result, found |-> cache[c].there]]
      /\ pc' = [pc EXCEPT ![r] = "cache"]
  BY DEF Note
<1>2. FetchTypeOK'
  <2>1. cache[c].there \in BOOLEAN
    BY <1>0 DEF FetchTypeOK
  <2>2. note' \in [Runs -> [key : CacheKeys, result : Results, found : BOOLEAN]]
    BY <1>0, <1>1, <2>1 DEF FetchTypeOK
  <2>3. pc' \in [Runs -> Labels]
    BY <1>0, <1>1 DEF FetchTypeOK, Labels
  <2> QED
    BY <1>0, <2>2, <2>3 DEF FetchTypeOK
<1>3. /\ pc'[r] = "cache" /\ note'[r].key = c /\ note'[r].result = result
      /\ \A q \in Runs \ {r} : pc'[q] = pc[q] /\ place'[q] = place[q] /\ got'[q] = got[q] /\ note'[q] = note[q]
  BY <1>0, <1>1 DEF FetchTypeOK
<1>4. /\ Parts(r)' = Parts(r) /\ ThePart(r)' = p /\ Items(r)' = Items(r) /\ CallKey(r)' = CallKey(r)
      /\ AtYear(r)' <=> AtYear(r)
  BY PartsStay DEF Items
<1>5. NoteRests(r)'
  BY <1>3, <1>4 DEF NoteRests, Rests
<1>6. PlaceRests(r)'
  <2>1. /\ Supplied(Sources(p)) \subseteq Supplied(Sources(p))'
        /\ \A calls : YearAnswered(calls) => YearAnswered(calls)'
    BY AnswersGrow DEF Sources
  <2> QED
    BY <1>0, <1>3, <1>4, <1>5, <2>1 DEF PlaceRests, Calling
<1>7. GotRests(r)'
  <2> DEFINE taken == {Parts(r)[i] : i \in 1..(place[r].part - 1)}
  <2>1. {Parts(r)'[i] : i \in 1..(place'[r].part - 1)} = taken
    BY <1>4
  <2>2. ASSUME NEW o \in taken
        PROVE  Supplied(Sources(o)) \subseteq Supplied(Sources(o))' /\ (Answered(o) => Answered(o)')
    BY AnswersGrow DEF Sources
  <2> QED
    BY <1>0, <1>4, <2>1, <2>2 DEF GotRests
<1>8. CacheRests'
  BY CacheStays
<1> QED
  BY <1>2, <1>3, <1>6, <1>7, <1>8, RunRests

\* The call a run makes is its part's, or that of the year and division it is at.
LEMMA CallShape ==
  ASSUME FetchInv, NEW r \in Runs, pc[r] \in Calling, NEW p, p = ThePart(r)
  PROVE  /\ p.years = <<>> => CallKey(r) = p.key
         /\ p.years # <<>> /\ AtYear(r) =>
              /\ CallKey(r) = p.years[place[r].year][place[r].div]
              /\ place[r].year \in 1..Len(p.years) /\ place[r].div \in 1..Len(p.years[place[r].year])
              /\ CallKey(r) \in ToSet(p.years[place[r].year])
              /\ \A q \in Runs : \A o \in ToSet(Parts(q)) : CallKey(r) # o.key /\ CallKey(r) # o.spare
         /\ AtYear(r) => CallKey(r) \in CacheKeys /\ CallKey(r) \in Sources(p)
<1>0. FetchTypeOK /\ p \in ToSet(Parts(r))
  BY AtPart DEF FetchInv
<1>1. p.years = <<>> => CallKey(r) = p.key
  BY DEF CallKey
<1>2. ASSUME p.years # <<>>, AtYear(r)
      PROVE  /\ CallKey(r) = p.years[place[r].year][place[r].div]
             /\ place[r].year \in 1..Len(p.years) /\ place[r].div \in 1..Len(p.years[place[r].year])
             /\ CallKey(r) \in ToSet(p.years[place[r].year]) /\ CallKey(r) \in CacheKeys
             /\ \A q \in Runs : \A o \in ToSet(Parts(q)) : CallKey(r) # o.key /\ CallKey(r) # o.spare
             /\ CallKey(r) \in Sources(p)
  <2>1. CallKey(r) = p.years[place[r].year][place[r].div]
    BY <1>2 DEF CallKey
  <2>2. place[r].year \in DOMAIN p.years /\ place[r].div \in DOMAIN p.years[place[r].year]
    BY <1>2 DEF AtYear
  <2>3. place[r].year \in 1..Len(p.years) /\ place[r].div \in 1..Len(p.years[place[r].year])
    BY <1>0, <2>2, PartShape
  <2>4. CallKey(r) \in ToSet(p.years[place[r].year]) /\ CallKey(r) \in CacheKeys
    BY <1>0, <2>1, <2>3, PartShape
  <2>5. \A q \in Runs : \A o \in ToSet(Parts(q)) : CallKey(r) # o.key /\ CallKey(r) # o.spare
    BY <1>0, <2>2, <2>4, YearKeysDiffer
  <2>6. CallKey(r) \in Sources(p)
    BY <2>2, <2>4 DEF Sources
  <2> QED
    BY <2>1, <2>3, <2>4, <2>5, <2>6
<1>3. p.years = <<>> => CallKey(r) \in CacheKeys /\ CallKey(r) \in Sources(p)
  BY <1>0, <1>1, PartShape DEF Sources
<1> QED
  BY <1>1, <1>2, <1>3

\* A run that is not configured notes a fallback.
LEMMA NotReadyRests ==
  ASSUME FetchInv, NEW r \in Runs, NotReady(r), UNCHANGED ask
  PROVE  FetchInv'
<1>0. PICK p : p = ThePart(r)
  OBVIOUS
<1>1. /\ pc[r] \in Calling /\ Note(r, p.spare, Fallback)
      /\ UNCHANGED <<cache, place, got, answered>>
  BY <1>0 DEF NotReady, Calling
<1>2. FetchTypeOK /\ p \in ToSet(Parts(r)) /\ p.spare \in CacheKeys /\ answered \subseteq CacheKeys
  BY <1>0, <1>1, AtPart, PartShape DEF FetchInv, FetchTypeOK
<1>3. Fallback \in Results
  BY EmptySeq DEF Fallback, Results
<1>4. Rests(p, Fallback)'
  BY DEF Rests, Fallback, ToSet
<1> QED
  BY <1>0, <1>1, <1>2, <1>3, <1>4, NoteKept

\* The statements of all years are noted.
LEMMA CombineRests ==
  ASSUME FetchInv, NEW r \in Runs, Combine(r), UNCHANGED ask
  PROVE  FetchInv'
<1>0. PICK p, result :
        /\ p = ThePart(r)
        /\ result = [ok |-> place[r].rows # <<>>, items |-> place[r].rows, missing |-> place[r].missing]
  OBVIOUS
<1>1. /\ pc[r] = "combine" /\ pc[r] \in Calling /\ Note(r, p.key, result)
      /\ UNCHANGED <<cache, place, got, answered>>
  BY <1>0 DEF Combine, Calling
<1>2. /\ FetchTypeOK /\ p \in ToSet(Parts(r)) /\ PlaceRests(r)
      /\ place[r].rows \in Seq(Keys) /\ place[r].missing \in BOOLEAN
  BY <1>0, <1>1, AtPart DEF FetchInv, FetchTypeOK
<1>3. p.key \in CacheKeys /\ answered \subseteq CacheKeys
  BY <1>2, PartShape DEF FetchTypeOK
<1>4. result \in Results
  BY <1>0, <1>2 DEF Results
<1>5. /\ p.years # <<>> /\ place[r].year = Len(p.years) + 1
      /\ ToSet(place[r].rows) \subseteq Supplied(Sources(p))
      /\ ~place[r].missing => \A y \in 1..(place[r].year - 1) : y \in DOMAIN p.years => YearAnswered(p.years[y])
  BY <1>0, <1>1, <1>2 DEF PlaceRests, Calling
<1>6. ~place[r].missing => Answered(p)
  <2>1. 1..(place[r].year - 1) = DOMAIN p.years
    BY <1>2, <1>5, PartShape
  <2> QED
    BY <1>5, <2>1 DEF Answered
<1>7. Rests(p, result)
  BY <1>0, <1>5, <1>6 DEF Rests
<1>8. Rests(p, result)'
  BY <1>1, <1>7, AnswersGrow
<1> QED
  BY <1>0, <1>1, <1>2, <1>3, <1>4, <1>8, NoteKept

\* A cached result is taken, or the part is asked for.
LEMMA FromCacheRests ==
  ASSUME FetchInv, NEW r \in Runs, FromCache(r), UNCHANGED ask
  PROVE  FetchInv'
<1>0. PICK p : p = ThePart(r)
  OBVIOUS
<1>1. /\ FetchTypeOK /\ CacheRests /\ pc[r] = "look" /\ pc[r] \in Calling
      /\ UNCHANGED <<cache, note, answered>>
  BY DEF FetchInv, CallsRest, FromCache, Calling
<1>2. p \in ToSet(Parts(r)) /\ PlaceRests(r) /\ GotRests(r) /\ p.key \in CacheKeys
  BY <1>0, <1>1, AtPart, PartShape
<1>3. CacheRests'
  BY <1>1, CacheStays
<1>4. CASE cache[p.key].live
  <2>1. PICK result : result = Cached(p.key)
    OBVIOUS
  <2>2. result \in Results /\ TakePart(r, result)
    BY <1>0, <1>1, <1>2, <1>4, <2>1 DEF FromCache, Cached, Results, FetchTypeOK
  <2>3. Rests(p, result)
    <3>1. cache[p.key].there
      BY <1>1, <1>2, <1>4 DEF CacheRests
    <3>2. Rests(p, cache[p.key])
      BY <1>1, <1>2, <3>1 DEF CacheRests
    <3>3. result.ok = cache[p.key].ok /\ result.items = cache[p.key].items /\ result.missing = cache[p.key].missing
      BY <2>1 DEF Cached
    <3> QED
      BY <3>2, <3>3, RestsByFields
  <2>4. PlaceRests(r)' /\ GotRests(r)'
    BY <1>0, <1>1, <2>2, <2>3, TakePartRests
  <2>5. FetchTypeOK'
    BY <1>1, <2>2, TakePartType DEF FetchTypeOK
  <2>6. \A q \in Runs \ {r} : pc'[q] = pc[q] /\ place'[q] = place[q] /\ got'[q] = got[q] /\ note'[q] = note[q]
    BY <1>1, <2>2 DEF TakePart, FetchTypeOK
  <2> QED
    BY <1>1, <1>3, <2>4, <2>5, <2>6, RunRests
<1>5. CASE ~cache[p.key].live
  <2>1. /\ pc' = [pc EXCEPT ![r] = IF ask[r].ready THEN "request" ELSE "unready"]
        /\ UNCHANGED <<place, got>>
    BY <1>0, <1>5 DEF FromCache
  <2>2. FetchTypeOK'
    BY <1>1, <2>1 DEF FetchTypeOK, Labels
  <2>3. pc'[r] \in {"request", "unready"}
    BY <1>1, <2>1 DEF FetchTypeOK
  <2>4. \A q \in Runs \ {r} : pc'[q] = pc[q] /\ place'[q] = place[q] /\ got'[q] = got[q] /\ note'[q] = note[q]
    BY <1>1, <2>1 DEF FetchTypeOK
  <2>5. /\ Parts(r)' = Parts(r) /\ ThePart(r)' = p /\ Items(r)' = Items(r) /\ (AtYear(r)' <=> AtYear(r))
    BY <1>0, <2>1, PartsStay DEF Items
  <2>6. AtYear(r)
    <3>1. place[r].year = 1 /\ place[r].div = 1
      BY <1>1, <1>2 DEF PlaceRests, Begin
    <3>2. p.years # <<>> => 1 \in DOMAIN p.years /\ 1 \in DOMAIN p.years[1]
      <4>1. /\ DOMAIN p.years = 1..Len(p.years) /\ Len(p.years) \in Nat /\ (p.years = <<>> <=> Len(p.years) = 0)
            /\ \A y \in 1..Len(p.years) : Len(p.years[y]) \in Nat \ {0} /\ DOMAIN p.years[y] = 1..Len(p.years[y])
        BY <1>1, <1>2, PartShape
      <4>2. p.years # <<>> => 1 \in 1..Len(p.years)
        BY <4>1
      <4> QED
        BY <4>1, <4>2
    <3> QED
      BY <1>0, <3>1, <3>2 DEF AtYear
  <2>7. PlaceRests(r)'
    <3>1. /\ Supplied(Sources(p))' = Supplied(Sources(p))
          /\ \A calls : YearAnswered(calls)' <=> YearAnswered(calls)
      BY <1>1 DEF Supplied, Sources, YearAnswered
    <3> QED
      BY <1>0, <1>1, <1>2, <2>1, <2>3, <2>5, <2>6, <3>1 DEF PlaceRests, Calling
  <2>8. GotRests(r)'
    <3> DEFINE taken == {Parts(r)[i] : i \in 1..(place[r].part - 1)}
    <3>1. {Parts(r)'[i] : i \in 1..(place'[r].part - 1)} = taken
      BY <2>1, <2>5
    <3>2. \A o \in taken : Supplied(Sources(o))' = Supplied(Sources(o)) /\ (Answered(o)' <=> Answered(o))
      BY <1>1 DEF Sources, Supplied, Answered, YearAnswered
    <3> QED
      BY <1>2, <2>1, <2>5, <3>1, <3>2 DEF GotRests
  <2> QED
    BY <1>1, <1>3, <2>2, <2>4, <2>7, <2>8, RunRests
<1> QED
  BY <1>4, <1>5

\* The provider's answer, or a fallback, is noted.
LEMMA RequestRests ==
  ASSUME FetchInv, NEW r \in Runs, RequestResult(r), UNCHANGED ask
  PROVE  FetchInv'
<1>0. PICK p, c : p = ThePart(r) /\ c = CallKey(r)
  OBVIOUS
<1>1. /\ FetchTypeOK /\ pc[r] = "request" /\ pc[r] \in Calling
      /\ UNCHANGED <<cache, place, got>>
  BY DEF FetchInv, CallsRest, RequestResult, Calling
<1>2. p \in ToSet(Parts(r)) /\ PlaceRests(r) /\ AtYear(r) /\ c \in CacheKeys /\ c \in Sources(p)
  <2>1. p \in ToSet(Parts(r)) /\ PlaceRests(r)
    BY <1>0, <1>1, AtPart
  <2>2. AtYear(r)
    BY <1>1, <2>1 DEF PlaceRests
  <2> QED
    BY <1>0, <1>1, <2>1, <2>2, CallShape
<1>3. PICK o, result :
        /\ Note(r, c, result)
        /\ result = CASE o = "ok" -> Answer(Feed[c]) [] o = "empty" -> Answer(<<>>) [] OTHER -> Fallback
        /\ answered' = IF o \in {"ok", "empty"} THEN answered \cup {c} ELSE answered
  BY <1>0 DEF RequestResult
<1>4. answered \subseteq answered' /\ answered' \subseteq CacheKeys
  BY <1>1, <1>2, <1>3 DEF FetchTypeOK
<1>5. \/ o = "ok" /\ result = Answer(Feed[c]) /\ c \in answered'
      \/ o = "empty" /\ result = Answer(<<>>) /\ c \in answered'
      \/ result = Fallback
  BY <1>3
<1>6. result \in Results
  <2>1. Feed[c] \in Seq(Keys) /\ <<>> \in Seq(Keys)
    BY <1>2, StoreAssumption, EmptySeq
  <2>2. \A items \in Seq(Keys) : Answer(items) \in Results
    BY DEF Answer, Results
  <2>3. Fallback \in Results
    BY <2>1 DEF Fallback, Results
  <2> QED
    BY <1>5, <2>1, <2>2, <2>3
<1>7. /\ result.items # <<>> => c \in answered' /\ result.items = Feed[c]
      /\ result.ok => c \in answered'
      /\ ~result.missing => c \in answered'
  BY <1>5 DEF Answer, Fallback
<1>8. CASE p.years = <<>>
  <2>1. c = p.key
    BY <1>0, <1>1, <1>8, CallShape
  <2>2. ToSet(result.items) \subseteq Supplied(Sources(p))'
    <3>1. CASE result.items = <<>>
      BY <3>1 DEF ToSet
    <3>2. CASE result.items # <<>>
      BY <1>2, <1>7, <3>2 DEF Supplied, Sources
    <3> QED
      BY <3>1, <3>2
  <2>3. Rests(p, result)'
    BY <1>7, <1>8, <2>1, <2>2 DEF Rests, Answered
  <2> QED
    BY <1>0, <1>1, <1>2, <1>3, <1>4, <1>6, <2>1, <2>3, NoteKept
<1>9. CASE p.years # <<>>
  BY <1>0, <1>1, <1>2, <1>3, <1>4, <1>6, <1>7, <1>9, NoteKept
<1> QED
  BY <1>8, <1>9

\* Entries that hold what they held, or rest on answers, keep the cache so.
LEMMA CacheSetRests ==
  ASSUME FetchInv, UNCHANGED <<ask, answered>>, NEW c \in CacheKeys, NEW result \in Results,
         cache' = [cache EXCEPT ![c] = Entry(result)],
         \A q \in Runs : \A o \in ToSet(Parts(q)) : o.key = c => Rests(o, result)
  PROVE  /\ CacheRests'
         /\ cache' \in [CacheKeys -> [ok : BOOLEAN, items : Seq(Keys), missing : BOOLEAN,
                                      live : BOOLEAN, there : BOOLEAN]]
<1>0. FetchTypeOK /\ CacheRests
  BY DEF FetchInv, CallsRest
<1>1. Entry(result) \in [ok : BOOLEAN, items : Seq(Keys), missing : BOOLEAN, live : BOOLEAN, there : BOOLEAN]
  BY DEF Entry, Results
<1>2. cache' \in [CacheKeys -> [ok : BOOLEAN, items : Seq(Keys), missing : BOOLEAN,
                                live : BOOLEAN, there : BOOLEAN]]
  BY <1>0, <1>1 DEF FetchTypeOK
<1>3. /\ cache'[c] = Entry(result) /\ \A d \in CacheKeys \ {c} : cache'[d] = cache[d]
  BY <1>0 DEF FetchTypeOK
<1>4. ASSUME NEW q \in Runs, NEW o \in ToSet(Parts(q)), NEW e, e = cache'[o.key], e.there
      PROVE  Rests(o, e)'
  <2>1. o.key \in CacheKeys
    BY <1>0, PartShape
  <2>2. CASE o.key = c
    <3>1. Rests(o, result) /\ e = Entry(result)
      BY <1>3, <1>4, <2>2
    <3>2. Rests(o, e)
      BY <3>1, RestsByFields DEF Entry
    <3> QED
      BY <3>2, AnswersGrow
  <2>3. CASE o.key # c
    <3>1. e = cache[o.key]
      BY <1>3, <1>4, <2>1, <2>3
    <3>2. Rests(o, e)
      BY <1>0, <1>4, <3>1 DEF CacheRests
    <3> QED
      BY <3>2, AnswersGrow
  <2> QED
    BY <2>2, <2>3
<1>5. \A d \in CacheKeys : cache'[d].live => cache'[d].there
  BY <1>0, <1>3 DEF CacheRests, Entry
<1> QED
  BY <1>2, <1>4, <1>5, PartsStay DEF CacheRests, Rests

\* With the statements of a call the place in the part rests on answers.
LEMMA TakeStatementsRests ==
  ASSUME FetchInv, NEW r \in Runs, pc[r] \in Calling, UNCHANGED <<ask, answered>>,
         NEW p, p = ThePart(r), p.years # <<>>, AtYear(r), NEW items \in Seq(Keys),
         items # <<>> => CallKey(r) \in answered /\ items = Feed[CallKey(r)],
         TakeStatements(r, items)
  PROVE  /\ PlaceRests(r)' /\ GotRests(r)' /\ UNCHANGED got
         /\ place' \in [Runs -> [part : Nat, year : Nat, div : Nat, rows : Seq(Keys), missing : BOOLEAN]]
         /\ pc' \in [Runs -> Labels] /\ \A q \in Runs \ {r} : place'[q] = place[q] /\ pc'[q] = pc[q]
<1>0. /\ FetchTypeOK /\ PlaceRests(r) /\ GotRests(r) /\ p \in ToSet(Parts(r))
      /\ place[r].part \in 1..Len(Parts(r)) /\ Len(Parts(r)) \in 1..2
  BY AtPart, AskShape DEF FetchInv
<1>1. /\ CallKey(r) = p.years[place[r].year][place[r].div]
      /\ place[r].year \in 1..Len(p.years) /\ place[r].div \in 1..Len(p.years[place[r].year])
      /\ CallKey(r) \in ToSet(p.years[place[r].year]) /\ CallKey(r) \in Sources(p)
  BY CallShape
<1>2. /\ Len(p.years) \in Nat /\ DOMAIN p.years = 1..Len(p.years)
      /\ \A y \in 1..Len(p.years) : Len(p.years[y]) \in Nat \ {0} /\ DOMAIN p.years[y] = 1..Len(p.years[y])
  BY <1>0, PartShape
<1>3. PICK n, y, d : n = place[r].part /\ y = place[r].year /\ d = place[r].div
  OBVIOUS
<1> DEFINE turn == items # <<>> \/ place[r].div = Len(ThePart(r).years[place[r].year])
<1>t. place[r] \in [part : Nat, year : Nat, div : Nat, rows : Seq(Keys), missing : BOOLEAN]
  BY <1>0, <1>3 DEF FetchTypeOK
<1>u. turn <=> items # <<>> \/ d = Len(p.years[y])
  BY <1>3
<1>4. PICK there :
        /\ there = [part |-> place[r].part, year |-> IF turn THEN place[r].year + 1 ELSE place[r].year,
                    div |-> IF turn THEN 1 ELSE place[r].div + 1, rows |-> place[r].rows \o items,
                    missing |-> place[r].missing \/ (turn /\ items = <<>>)]
        /\ place' = [place EXCEPT ![r] = there]
        /\ pc' = [pc EXCEPT ![r] = IF turn /\ place[r].year = Len(ThePart(r).years) THEN "combine" ELSE "request"]
        /\ got' = got
  BY DEF TakeStatements
<1> HIDE DEF turn
<1>5. /\ there.part = n /\ there.rows = place[r].rows \o items
      /\ turn => there.year = y + 1 /\ there.div = 1 /\ (there.missing <=> (place[r].missing \/ items = <<>>))
      /\ ~turn => there.year = y /\ there.div = d + 1 /\ (there.missing <=> place[r].missing)
  <2>1. there.part = n /\ there.rows = place[r].rows \o items
    BY <1>3, <1>4
  <2>2. there.year = (IF turn THEN y + 1 ELSE y) /\ there.div = (IF turn THEN 1 ELSE d + 1)
    BY <1>3, <1>4
  <2>3. there.missing <=> (place[r].missing \/ (turn /\ items = <<>>))
    BY <1>4, <1>t
  <2> QED
    BY <1>t, <2>1, <2>2, <2>3
<1>6. /\ there.rows \in Seq(Keys) /\ ToSet(there.rows) = ToSet(place[r].rows) \cup ToSet(items)
  BY <1>t, <1>5, JoinedItems
<1>7. there \in [part : Nat, year : Nat, div : Nat, rows : Seq(Keys), missing : BOOLEAN]
  <2>1. place[r].rows \o items \in Seq(Keys) /\ place[r].part \in Nat
    BY <1>t, <1>5, <1>6
  <2>2. (IF turn THEN place[r].year + 1 ELSE place[r].year) \in Nat /\ (IF turn THEN 1 ELSE place[r].div + 1) \in Nat
    BY <1>t
  <2> QED
    BY <1>4, <2>1, <2>2
<1>8. /\ place' \in [Runs -> [part : Nat, year : Nat, div : Nat, rows : Seq(Keys), missing : BOOLEAN]]
      /\ place'[r] = there /\ \A q \in Runs \ {r} : place'[q] = place[q]
  BY <1>0, <1>4, <1>7 DEF FetchTypeOK
<1>9. /\ pc' \in [Runs -> Labels] /\ \A q \in Runs \ {r} : pc'[q] = pc[q]
      /\ pc'[r] = IF turn /\ y = Len(p.years) THEN "combine" ELSE "request"
  BY <1>0, <1>3, <1>4 DEF FetchTypeOK, Labels
<1>10. /\ Parts(r)' = Parts(r) /\ ThePart(r)' = p /\ Items(r)' = Items(r) /\ Supplied(Sources(p))' = Supplied(Sources(p))
       /\ \A calls : YearAnswered(calls)' <=> YearAnswered(calls)
  BY <1>3, <1>4, <1>5, <1>8, PartsStay DEF Items, Supplied, Sources, YearAnswered
<1>11. pc'[r] = "request" => AtYear(r)'
  <2>1. CASE turn /\ y # Len(p.years)
    <3>1. there.year \in 1..Len(p.years) /\ there.div = 1
      BY <1>1, <1>2, <1>3, <1>5, <2>1
    <3>2. 1 \in 1..Len(p.years[there.year])
      BY <1>2, <3>1
    <3> QED
      BY <1>2, <1>8, <1>10, <3>1, <3>2 DEF AtYear
  <2>2. CASE ~turn
    <3>1. d + 1 \in 1..Len(p.years[y]) /\ y \in 1..Len(p.years)
      <4>1. y \in 1..Len(p.years) /\ d \in 1..Len(p.years[y])
        BY <1>1, <1>3
      <4>2. d # Len(p.years[y])
        BY <1>u, <2>2
      <4>3. Len(p.years[y]) \in Nat
        BY <1>2, <4>1
      <4> QED
        BY <4>1, <4>2, <4>3
    <3>2. there.year = y /\ there.div = d + 1
      BY <1>5, <2>2
    <3>3. place'[r] = there /\ ThePart(r)' = p
      BY <1>8, <1>10
    <3>4. there.year \in DOMAIN p.years /\ there.div \in DOMAIN p.years[there.year]
      BY <1>2, <3>1, <3>2
    <3> QED
      BY <3>3, <3>4 DEF AtYear
  <2> QED
    BY <1>9, <2>1, <2>2
<1>12. ToSet(there.rows) \subseteq Supplied(Sources(p))
  <2>1. ToSet(place[r].rows) \subseteq Supplied(Sources(p))
    BY <1>0 DEF PlaceRests
  <2>2. CASE items = <<>>
    <3>1. ToSet(items) = {}
      BY <2>2, EmptySeq DEF ToSet
    <3> QED
      BY <1>6, <2>1, <3>1
  <2>3. CASE items # <<>>
    <3>1. CallKey(r) \in Sources(p) \cap answered /\ items = Feed[CallKey(r)]
      BY <1>1, <2>3
    <3>2. ToSet(items) \subseteq Supplied(Sources(p))
      BY <3>1 DEF Supplied
    <3> QED
      BY <1>6, <2>1, <3>2
  <2> QED
    BY <2>2, <2>3
<1>13. ASSUME ~there.missing, NEW x \in 1..(there.year - 1), x \in DOMAIN p.years
       PROVE  YearAnswered(p.years[x])
  <2>0. turn => items # <<>>
    BY <1>5, <1>13
  <2>1. ~place[r].missing
    BY <1>5, <1>13
  <2>2. \A z \in 1..(y - 1) : z \in DOMAIN p.years => YearAnswered(p.years[z])
    BY <1>0, <1>3, <2>1 DEF PlaceRests
  <2>3. CASE x \in 1..(y - 1)
    BY <1>13, <2>2, <2>3
  <2>4. CASE x \notin 1..(y - 1)
    <3>1. turn /\ x = y
      BY <1>3, <1>t, <1>5, <1>13, <2>4
    <3>2. items # <<>>
      BY <2>0, <3>1
    <3> QED
      BY <1>1, <1>3, <3>1, <3>2 DEF YearAnswered
  <2> QED
    BY <2>3, <2>4
<1>14. PlaceRests(r)'
  <2>1. pc'[r] \in {"combine", "request"} /\ (pc'[r] = "combine" => there.year = Len(p.years) + 1)
    BY <1>5, <1>9
  <2>2. there.part \in 1..(Len(Parts(r)) + 1) /\ there.part <= Len(Parts(r))
    BY <1>0, <1>3, <1>5
  <2> QED
    BY <1>8, <1>10, <1>11, <1>12, <1>13, <2>1, <2>2 DEF PlaceRests, Calling
<1>15. GotRests(r)'
  <2> DEFINE taken == {Parts(r)[i] : i \in 1..(n - 1)}
  <2>1. /\ {Parts(r)'[i] : i \in 1..(place'[r].part - 1)} = taken
        /\ {Parts(r)[i] : i \in 1..(place[r].part - 1)} = taken
    <3>1. place'[r].part = n /\ place[r].part = n
      BY <1>3, <1>5, <1>8
    <3> QED
      BY <1>10, <3>1
  <2>2. \A o \in taken : Supplied(Sources(o))' = Supplied(Sources(o)) /\ (Answered(o)' <=> Answered(o))
    BY DEF Sources, Supplied, Answered, YearAnswered
  <2>3. got'[r] = got[r] /\ place'[r].part = place[r].part
    BY <1>3, <1>4, <1>5, <1>8
  <2> QED
    BY <1>0, <1>10, <2>1, <2>2, <2>3 DEF GotRests
<1> QED
  BY <1>4, <1>8, <1>9, <1>14, <1>15

\* What a run noted is cached, and taken.
LEMMA CacheRunRests ==
  ASSUME FetchInv, NEW r \in Runs, CacheSet(r), UNCHANGED ask
  PROVE  FetchInv'
<1>0. PICK p, c, result : p = ThePart(r) /\ c = note[r].key /\ result = note[r].result
  OBVIOUS
<1>1. /\ FetchTypeOK /\ CacheRests /\ pc[r] = "cache" /\ pc[r] \in Calling
      /\ UNCHANGED answered
      /\ note' = [note EXCEPT ![r] = NoNote(c)]
  BY <1>0 DEF FetchInv, CallsRest, CacheSet, Calling
<1>2. p \in ToSet(Parts(r)) /\ PlaceRests(r) /\ GotRests(r) /\ c \in CacheKeys /\ result \in Results
  BY <1>0, <1>1, AtPart DEF FetchTypeOK
<1>3. NoteRests(r)
  BY <1>1, <1>2 DEF PlaceRests
<1>4. /\ note' \in [Runs -> [key : CacheKeys, result : Results, found : BOOLEAN]]
      /\ \A q \in Runs \ {r} : note'[q] = note[q]
  <2>1. NoNote(c) \in [key : CacheKeys, result : Results, found : BOOLEAN]
    <3>1. Nothing \in Results
      BY EmptySeq DEF Nothing, Results
    <3> QED
      BY <1>2, <3>1 DEF NoNote
  <2> QED
    BY <1>1, <2>1 DEF FetchTypeOK
<1>5. CASE ~note[r].found /\ cache[c].there
  <2>1. pc' = [pc EXCEPT ![r] = "failed"] /\ UNCHANGED <<cache, place, got>>
    BY <1>0, <1>5 DEF CacheSet
  <2>2. FetchTypeOK'
    BY <1>1, <1>4, <2>1 DEF FetchTypeOK, Labels, Ended
  <2>3. pc'[r] = "failed" /\ \A q \in Runs \ {r} : pc'[q] = pc[q]
    BY <1>1, <2>1 DEF FetchTypeOK
  <2>4. PlaceRests(r)' /\ GotRests(r)'
    BY <1>1, <2>1, <2>3, PersistRests DEF Calling
  <2>5. CacheRests'
    BY <1>1, <2>1, CacheStays
  <2> QED
    BY <1>1, <1>4, <2>1, <2>2, <2>3, <2>4, <2>5, RunRests
<1>6. CASE ~(~note[r].found /\ cache[c].there) /\ c \in {p.key, p.spare}
  <2>1. cache' = [cache EXCEPT ![c] = Entry(result)] /\ TakePart(r, result)
    BY <1>0, <1>6 DEF CacheSet
  <2>2. Rests(p, result) /\ (c = p.key \/ result = Fallback)
    <3>1. CASE p.years # <<>> /\ AtYear(r) /\ c = CallKey(r)
      BY <1>0, <1>1, <1>2, <1>6, <3>1, CallShape
    <3>2. CASE Rests(p, result) /\ (c = p.key \/ result = Fallback)
      BY <3>2
    <3> QED
      BY <1>0, <1>3, <3>1, <3>2 DEF NoteRests
  <2>3. ASSUME NEW q \in Runs, NEW o \in ToSet(Parts(q)), o.key = c
        PROVE  Rests(o, result)
    <3>1. CASE c = p.key
      <4>1. p.years = o.years
        BY <1>1, <1>2, <2>3, <3>1, YearKeysDiffer
      <4> QED
        BY <2>2, <2>3, <3>1, <4>1, SameKeyRests
    <3>2. CASE result = Fallback
      BY <3>2, FallbackRests
    <3> QED
      BY <2>2, <3>1, <3>2
  <2>4. /\ CacheRests'
        /\ cache' \in [CacheKeys -> [ok : BOOLEAN, items : Seq(Keys), missing : BOOLEAN,
                                     live : BOOLEAN, there : BOOLEAN]]
    BY <1>1, <1>2, <2>1, <2>3, CacheSetRests
  <2>5. PlaceRests(r)' /\ GotRests(r)'
    BY <1>0, <1>1, <1>2, <2>1, <2>2, TakePartRests
  <2>6. /\ got' \in [Runs -> Results] /\ pc' \in [Runs -> Labels]
        /\ place' \in [Runs -> [part : Nat, year : Nat, div : Nat, rows : Seq(Keys), missing : BOOLEAN]]
        /\ \A q \in Runs \ {r} : pc'[q] = pc[q] /\ place'[q] = place[q] /\ got'[q] = got[q]
    BY <1>1, <1>2, <2>1, TakePartType
  <2>7. FetchTypeOK'
    BY <1>1, <1>4, <2>4, <2>6 DEF FetchTypeOK
  <2> QED
    BY <1>1, <1>4, <2>4, <2>5, <2>6, <2>7, RunRests
<1>7. CASE ~(~note[r].found /\ cache[c].there) /\ c \notin {p.key, p.spare}
  <2>1. cache' = [cache EXCEPT ![c] = Entry(result)] /\ TakeStatements(r, result.items)
    BY <1>0, <1>7 DEF CacheSet
  <2>2. /\ p.years # <<>> /\ AtYear(r) /\ c = CallKey(r)
        /\ result.items # <<>> => c \in answered /\ result.items = Feed[c]
    BY <1>0, <1>3, <1>7 DEF NoteRests
  <2>3. \A q \in Runs : \A o \in ToSet(Parts(q)) : o.key # c
    BY <1>0, <1>1, <2>2, CallShape
  <2>4. /\ CacheRests'
        /\ cache' \in [CacheKeys -> [ok : BOOLEAN, items : Seq(Keys), missing : BOOLEAN,
                                     live : BOOLEAN, there : BOOLEAN]]
    BY <1>1, <1>2, <2>1, <2>3, CacheSetRests
  <2>5. result.items \in Seq(Keys)
    BY <1>2 DEF Results
  <2>6. /\ PlaceRests(r)' /\ GotRests(r)' /\ UNCHANGED got
        /\ place' \in [Runs -> [part : Nat, year : Nat, div : Nat, rows : Seq(Keys), missing : BOOLEAN]]
        /\ pc' \in [Runs -> Labels] /\ \A q \in Runs \ {r} : place'[q] = place[q] /\ pc'[q] = pc[q]
    BY <1>0, <1>1, <2>1, <2>2, <2>5, TakeStatementsRests
  <2>7. FetchTypeOK'
    BY <1>1, <1>4, <2>4, <2>6 DEF FetchTypeOK
  <2> QED
    BY <1>1, <1>4, <2>4, <2>6, <2>7, RunRests
<1> QED
  BY <1>5, <1>6, <1>7

\* A cached result expires.
LEMMA ExpireRests ==
  ASSUME FetchInv, NEW c \in CacheKeys, Expire(c), UNCHANGED ask
  PROVE  FetchInv'
<1>0. FetchTypeOK /\ CacheRests
  BY DEF FetchInv, CallsRest
<1>1. cache' = [cache EXCEPT ![c].live = FALSE] /\ UNCHANGED <<pc, place, note, got, answered>>
  BY DEF Expire
<1>2. cache' \in [CacheKeys -> [ok : BOOLEAN, items : Seq(Keys), missing : BOOLEAN, live : BOOLEAN, there : BOOLEAN]]
  BY <1>0, <1>1 DEF FetchTypeOK
<1>3. \A d \in CacheKeys :
        /\ cache'[d].ok = cache[d].ok /\ cache'[d].items = cache[d].items /\ cache'[d].missing = cache[d].missing
        /\ cache'[d].there = cache[d].there
  BY <1>0, <1>1 DEF FetchTypeOK
<1>4. \A d \in CacheKeys : cache'[d].live => cache'[d].there
  BY <1>0, <1>1, <1>3 DEF FetchTypeOK, CacheRests
<1>5. ASSUME NEW q \in Runs, NEW o \in ToSet(Parts(q)), NEW e, e = cache'[o.key], e.there
      PROVE  Rests(o, e)'
  <2>1. o.key \in CacheKeys
    BY <1>0, PartShape
  <2>2. Rests(o, cache[o.key])
    BY <1>0, <1>3, <1>5, <2>1 DEF CacheRests
  <2>3. Rests(o, e)
    BY <1>3, <1>5, <2>1, <2>2, RestsByFields
  <2> QED
    BY <1>1, <2>3, AnswersGrow
<1>6. CacheRests'
  BY <1>4, <1>5, PartsStay DEF CacheRests, Rests
<1>7. \A q \in Runs : PlaceRests(q)' /\ GotRests(q)'
  BY <1>1, OthersRest
<1>8. FetchTypeOK'
  BY <1>0, <1>1, <1>2 DEF FetchTypeOK
<1> QED
  BY <1>6, <1>7, <1>8 DEF FetchInv, CallsRest

\* The upserts of a run leave its calls as they are.
LEMMA PersistKeepsCalls ==
  ASSUME FetchInv, NEW r \in Runs, Persist(r) \/ Kill(r), UNCHANGED ask
  PROVE  /\ FetchInv' /\ UNCHANGED fetch /\ (pc'[r] = "succeeded" => Commit(r))
         /\ pc'[r] \notin Calling \cup {"archive"} /\ \A q \in Runs \ {r} : pc'[q] = pc[q]
         /\ pc'[r] \in {"failed", "dead"} \/ pc[r] \notin Calling \cup Ended
         /\ pc'[r] \in {"failed", "dead"} \/ Archive(r) \/ pc[r] # "archive"
<1>0. FetchTypeOK
  BY DEF FetchInv
<1> DEFINE L == {"document", "flush document", "chunk", "savepoint", "reselect", "row",
                    "flush list", "flush"}
           Goes(l) ==
             /\ UNCHANGED fetch /\ pc' = [pc EXCEPT ![r] = l]
             /\ l \in L \cup {"failed", "dead", "succeeded", "partial_failed"}
             /\ l = "succeeded" => Commit(r)
             /\ l \in {"failed", "dead"} \/ pc[r] \in L \/ (pc[r] = "archive" /\ Archive(r))
<1>1. (\E l : Goes(l)) \/ (UNCHANGED <<pc, fetch>> /\ pc[r] \in L)
  <2>1. CASE Archive(r)
    <3>1. \E l \in {"document", "flush", "failed"} : Goes(l)
      BY <2>1 DEF Archive
    <3> QED
      BY <3>1
  <2>2. CASE Skip(r)
    BY <2>2 DEF Skip
  <2>3. CASE UpsertDocument(r)
    <3>1. \E l \in {"flush document", "chunk", "row"} : Goes(l)
      BY <2>3 DEF UpsertDocument, Persisting, AfterDocument
    <3> QED
      BY <3>1
  <2>4. CASE DocumentFlushed(r)
    <3>1. Goes(AfterDocument(r))
      BY <2>4 DEF DocumentFlushed, AfterDocument
    <3> QED
      BY <3>1
  <2>5. CASE UpsertChunk(r)
    <3>1. \E l \in {"row", "savepoint"} : Goes(l)
      BY <2>5 DEF UpsertChunk, Persisting
    <3> QED
      BY <3>1
  <2>6. CASE InsertChunk(r)
    <3>1. \E l \in {"row", "reselect"} : Goes(l)
      BY <2>6 DEF InsertChunk, Persisting
    <3> QED
      BY <3>1
  <2>7. CASE ReselectChunk(r)
    <3>1. \E l \in {"row", "failed"} : Goes(l)
      BY <2>7 DEF ReselectChunk, Persisting, Failed
    <3> QED
      BY <3>1
  <2>8. CASE UpsertRow(r)
    <3>1. \E l \in {"document", "flush list"} : Goes(l)
      BY <2>8 DEF UpsertRow, Persisting, AfterRow
    <3> QED
      BY <3>1
  <2>9. CASE ListFlushed(r) \/ LastFlush(r)
    <3>1. \E l \in {"document", "flush"} : Goes(l)
      BY <2>9 DEF ListFlushed, LastFlush
    <3> QED
      BY <3>1
  <2>10. CASE Flush(r)
    <3>1. /\ pc[r] \in L /\ UNCHANGED fetch
          /\ pc' = pc \/ pc' = [pc EXCEPT ![r] = "failed"]
      BY <2>10 DEF Flush, Flushing, Failed
    <3>2. pc' = pc \/ Goes("failed")
      BY <3>1
    <3> QED
      BY <3>1, <3>2
  <2>11. CASE Commit(r)
    <3>1. Goes(Result(r))
      BY <2>11 DEF Commit, Result
    <3> QED
      BY <3>1
  <2>12. CASE DataError(r) \/ Victim(r) \/ Kill(r)
    <3>1. Goes("failed") \/ Goes("dead")
      BY <2>12 DEF DataError, Victim, Failed, Kill
    <3> QED
      BY <3>1
  <2> QED
    BY <2>1, <2>2, <2>3, <2>4, <2>5, <2>6, <2>7, <2>8, <2>9, <2>10, <2>11, <2>12 DEF Persist
<1>2. /\ UNCHANGED fetch /\ pc' \in [Runs -> Labels] /\ \A q \in Runs \ {r} : pc'[q] = pc[q]
      /\ pc'[r] \notin Calling \cup {"archive"}
      /\ pc'[r] \in {"failed", "dead"} \/ pc[r] \notin Calling \cup Ended
      /\ pc'[r] \in {"failed", "dead"} \/ Archive(r) \/ pc[r] # "archive"
      /\ pc'[r] = "succeeded" => Commit(r)
  <2>1. CASE UNCHANGED <<pc, fetch>> /\ pc[r] \in L
    <3>1. pc[r] \notin Calling \cup Ended \cup {"archive"}
      BY <2>1 DEF Calling, Ended
    <3> QED
      BY <1>0, <2>1, <3>1 DEF FetchTypeOK, Ended
  <2>2. ASSUME NEW l, Goes(l)
        PROVE  /\ UNCHANGED fetch /\ pc' \in [Runs -> Labels] /\ \A q \in Runs \ {r} : pc'[q] = pc[q]
               /\ pc'[r] \notin Calling \cup {"archive"}
               /\ pc'[r] \in {"failed", "dead"} \/ pc[r] \notin Calling \cup Ended
               /\ pc'[r] \in {"failed", "dead"} \/ Archive(r) \/ pc[r] # "archive"
               /\ pc'[r] = "succeeded" => Commit(r)
    <3>1. l \in Labels
      BY <2>2 DEF Labels, Ended
    <3>2. pc' \in [Runs -> Labels] /\ pc'[r] = l /\ \A q \in Runs \ {r} : pc'[q] = pc[q]
      BY <1>0, <2>2, <3>1 DEF FetchTypeOK
    <3> QED
      BY <2>2, <3>2 DEF Calling, Ended
  <2> QED
    BY <1>1, <2>1, <2>2
<1>3. UNCHANGED <<cache, place, note, got, answered>>
  BY <1>2 DEF fetch
<1>4. FetchTypeOK'
  BY <1>0, <1>2, <1>3 DEF FetchTypeOK
<1>5. CacheRests'
  BY <1>3, CacheStays
<1>6. PlaceRests(r)' /\ GotRests(r)'
  BY <1>2, <1>3, PersistRests DEF Ended
<1> QED
  BY <1>2, <1>3, <1>4, <1>5, <1>6, RunRests

\* At first nothing is cached but what was answered.
LEMMA InitRests ==
  Init => FetchInv
<1> SUFFICES ASSUME Init PROVE FetchInv
  OBVIOUS
<1>1. /\ ask \in Asks /\ pc = [r \in Runs |-> "idle"]
      /\ cache = [c \in CacheKeys |-> IF c \in Warm THEN Entry(Answer(Feed[c])) ELSE NoEntry]
      /\ place = [r \in Runs |-> Begin(1)] /\ note = [r \in Runs |-> NoNote(ask[r].parts[1].key)]
      /\ got = [r \in Runs |-> Nothing] /\ answered = Warm
  BY DEF Init
<1>2. \A r \in Runs : Parts(r) \in Seq(Part) /\ Len(Parts(r)) \in 1..2 /\ Parts(r)[1] \in Part
  <2>1. ask \in [Runs -> Request]
    BY <1>1, AsksAssumption
  <2>2. \A r \in Runs : Parts(r) \in Seq(Part)
    BY <2>1 DEF Request, Parts
  <2>3. \A r \in Runs : Len(Parts(r)) \in 1..2
    <3>1. \A r \in Runs : Len(Parts(r)) = IF ask[r].provider = "OpenDART" THEN 2 ELSE 1
      BY <1>1, AsksAssumption DEF Parts
    <3> QED
      BY <3>1
  <2>4. ASSUME NEW r \in Runs
        PROVE  Parts(r)[1] \in Part
    <3>1. 1 \in 1..Len(Parts(r)) /\ Parts(r) \in Seq(Part)
      <4>1. Len(Parts(r)) \in 1..2
        BY <2>3
      <4> QED
        BY <2>2, <4>1
    <3> QED
      BY <3>1, ElementOfSeq
  <2> QED
    BY <2>2, <2>3, <2>4
<1>3. <<>> \in Seq(Keys) /\ Nothing \in Results
  BY EmptySeq DEF Nothing, Results
<1>4. \A c \in CacheKeys : Feed[c] \in Seq(Keys)
  BY StoreAssumption
<1>5. FetchTypeOK
  <2>1. pc \in [Runs -> Labels]
    BY <1>1 DEF Labels
  <2>2. cache \in [CacheKeys -> [ok : BOOLEAN, items : Seq(Keys), missing : BOOLEAN, live : BOOLEAN, there : BOOLEAN]]
    <3>1. \A c \in CacheKeys : Entry(Answer(Feed[c])) \in
            [ok : BOOLEAN, items : Seq(Keys), missing : BOOLEAN, live : BOOLEAN, there : BOOLEAN]
      BY <1>4 DEF Entry, Answer
    <3>2. NoEntry \in [ok : BOOLEAN, items : Seq(Keys), missing : BOOLEAN, live : BOOLEAN, there : BOOLEAN]
      BY <1>3 DEF NoEntry
    <3> QED
      BY <1>1, <3>1, <3>2
  <2>3. place \in [Runs -> [part : Nat, year : Nat, div : Nat, rows : Seq(Keys), missing : BOOLEAN]]
    <3>1. Begin(1) \in [part : Nat, year : Nat, div : Nat, rows : Seq(Keys), missing : BOOLEAN]
      BY <1>3 DEF Begin
    <3> QED
      BY <1>1, <3>1
  <2>4. note \in [Runs -> [key : CacheKeys, result : Results, found : BOOLEAN]]
    <3>1. \A r \in Runs : ask[r].parts[1].key \in CacheKeys
      BY <1>2 DEF Part, Parts
    <3>2. \A c \in CacheKeys : NoNote(c) \in [key : CacheKeys, result : Results, found : BOOLEAN]
      BY <1>3 DEF NoNote
    <3> QED
      BY <1>1, <3>1, <3>2
  <2>5. got \in [Runs -> Results] /\ answered \subseteq CacheKeys
    BY <1>1, <1>3, StoreAssumption
  <2> QED
    BY <1>1, <2>1, <2>2, <2>3, <2>4, <2>5 DEF FetchTypeOK
<1>6. CacheRests
  <2>1. ASSUME NEW c \in CacheKeys, cache[c].live
        PROVE  cache[c].there
    BY <1>1, <2>1 DEF Entry, NoEntry
  <2>2. ASSUME NEW r \in Runs, NEW p \in ToSet(Parts(r)), cache[p.key].there
        PROVE  Rests(p, cache[p.key])
    <3>1. p.key \in CacheKeys
      BY <1>5, PartShape
    <3>2. p.key \in Warm /\ cache[p.key] = Entry(Answer(Feed[p.key]))
      BY <1>1, <2>2, <3>1 DEF NoEntry
    <3>3. Answered(p)
      <4>1. p \in ToSet(ask[r].parts)
        BY DEF Parts
      <4>2. \A y \in DOMAIN p.years : YearAnswered(p.years[y])
        BY <1>1, <3>2, <4>1, WarmAssumption DEF YearAnswered
      <4> QED
        BY <1>1, <3>2, <4>2 DEF Answered
    <3>4. ToSet(Feed[p.key]) \subseteq Supplied(Sources(p))
      BY <1>1, <3>2 DEF Supplied, Sources
    <3>5. Rests(p, Answer(Feed[p.key]))
      BY <3>3, <3>4 DEF Rests, Answer
    <3> QED
      BY <3>2, <3>5, RestsByFields DEF Entry
  <2> QED
    BY <2>1, <2>2 DEF CacheRests
<1>7. ASSUME NEW r \in Runs
      PROVE  PlaceRests(r) /\ GotRests(r)
  <2>1. /\ place[r].part = 1 /\ place[r].year = 1 /\ place[r].rows = <<>> /\ place[r] = Begin(1)
        /\ pc[r] = "idle" /\ got[r] = Nothing
    BY <1>1 DEF Begin
  <2>2. 1..(place[r].year - 1) = {} /\ 1..(place[r].part - 1) = {} /\ ToSet(<<>>) = {}
    BY <2>1 DEF ToSet
  <2>3. {Parts(r)[i] : i \in 1..(place[r].part - 1)} = {}
    BY <2>2
  <2>4. ToSet(Items(r)) = {}
    BY <2>1, <2>2 DEF Items, Nothing
  <2>5. GotRests(r)
    BY <2>1, <2>3, <2>4 DEF GotRests
  <2>6. PlaceRests(r)
    BY <1>2, <2>1, <2>2 DEF PlaceRests, Calling
  <2> QED
    BY <2>5, <2>6
<1> QED
  BY <1>5, <1>6, <1>7 DEF FetchInv, CallsRest

\* The fetched data rests on answers whatever the runs do.
LEMMA CallsStep ==
  ASSUME FetchInv, [Next]_vars
  PROVE  FetchInv'
<1>1. CASE Next
  <2>0. UNCHANGED ask
    BY <1>1 DEF Next
  <2>1. ASSUME NEW r \in Runs, Fetch(r)
        PROVE  FetchInv'
    BY <2>0, <2>1, StartRests, FromCacheRests, NotReadyRests, RequestRests, CombineRests, CacheRunRests DEF Fetch
  <2>2. ASSUME NEW r \in Runs, Persist(r) \/ Kill(r)
        PROVE  FetchInv'
    BY <2>0, <2>2, PersistKeepsCalls
  <2>3. ASSUME CleanUp
        PROVE  FetchInv'
    <3>1. UNCHANGED <<pc, fetch>>
      BY <2>3 DEF CleanUp, Select, Delete, CommitSweep, SweepVictim
    <3>2. \A q \in Runs : PlaceRests(q)' /\ GotRests(q)'
      BY <2>0, <3>1, OthersRest DEF fetch
    <3>3. CacheRests' /\ FetchTypeOK'
      BY <2>0, <3>1, CacheStays DEF fetch, FetchInv, FetchTypeOK
    <3> QED
      BY <3>2, <3>3 DEF FetchInv, CallsRest
  <2>4. ASSUME NEW c \in CacheKeys, Expire(c)
        PROVE  FetchInv'
    BY <2>0, <2>4, ExpireRests
  <2> QED
    BY <1>1, <2>1, <2>2, <2>3, <2>4 DEF Next
<1>2. CASE UNCHANGED vars
  <2>1. UNCHANGED <<ask, pc, cache, place, note, got, answered>>
    BY <1>2 DEF vars, fetch
  <2>2. \A q \in Runs : PlaceRests(q)' /\ GotRests(q)'
    BY <2>1, OthersRest
  <2>3. CacheRests' /\ FetchTypeOK'
    BY <2>1, CacheStays DEF FetchInv, FetchTypeOK
  <2> QED
    BY <2>2, <2>3 DEF FetchInv, CallsRest
<1> QED
  BY <1>1, <1>2

\* The data every run has fetched rests on answers of the provider.
THEOREM CallsAlwaysRest ==
  Spec => []FetchInv
BY InitRests, CallsStep, PTL DEF Spec

-----------------------------------------------------------------------------
(* The rows that sessions write. *)

\* The variables the proofs are about are functions and records.
Shape ==
  /\ ask \in Asks
  /\ pc = [r \in Runs |-> pc[r]] /\ got = [r \in Runs |-> got[r]]
  /\ pos = [r \in Runs |-> pos[r]]
  /\ dirty = [r \in Runs |-> dirty[r]] /\ held = [r \in Runs |-> held[r]]
  /\ doc = [k \in Keys |-> doc[k]] /\ row = [k \in Keys |-> row[k]]
  /\ sweep = [pc |-> sweep.pc, stale |-> sweep.stale, gone |-> sweep.gone]
  /\ swept = [owners |-> swept.owners, lost |-> swept.lost]

\* The inductive invariant.
Inv ==
  /\ Shape
  /\ WritesAreExclusive
  /\ SessionsAreWhole
  /\ SweepIsExcused
  /\ OwnersHaveEvidence

\* Writes and the rows they write.
LEMMA SlotShape ==
  ASSUME NEW r \in Runs
  PROVE  /\ \A w : w.what # "chunk" => Slot(r, w) = <<w.what, w.key>>
         /\ \A w : w.what = "chunk" => Slot(r, w) = <<"chunk", w.key, Ticker(r)>>
         /\ \A w, k : Slot(r, w) = <<"doc", k>> => w.what = "doc" /\ w.key = k
         /\ \A w, k : Slot(r, w) = <<"row", k>> => w.what = "row" /\ w.key = k
         /\ \A w, k, t : Slot(r, w) = <<"chunk", k, t>> => w.what = "chunk" /\ w.key = k
<1>1. \A w : w.what # "chunk" => Slot(r, w) = <<w.what, w.key>>
  BY DEF Slot
<1>2. \A w : w.what = "chunk" => Slot(r, w) = <<"chunk", w.key, Ticker(r)>>
  BY DEF Slot
<1>3. ASSUME NEW w, NEW k, NEW x \in {"doc", "row"}, Slot(r, w) = <<x, k>>
      PROVE  w.what = x /\ w.key = k
  <2>1. Slot(r, w)[1] = w.what
    BY <1>1, <1>2
  <2>2. w.what = x
    BY <1>3, <2>1
  <2>3. Slot(r, w)[2] = w.key
    BY <1>1, <2>2
  <2> QED
    BY <1>3, <2>2, <2>3
<1>4. ASSUME NEW w, NEW k, NEW t, Slot(r, w) = <<"chunk", k, t>>
      PROVE  w.what = "chunk" /\ w.key = k
  <2>1. Slot(r, w)[1] = w.what
    BY <1>1, <1>2
  <2>2. w.what = "chunk"
    BY <1>4, <2>1
  <2>3. Slot(r, w)[2] = w.key
    BY <1>2, <2>2
  <2> QED
    BY <1>4, <2>2, <2>3
<1> QED
  BY <1>1, <1>2, <1>3, <1>4

\* The rows a set of writes is for.
LEMMA SlotsShape ==
  ASSUME NEW r \in Runs
  PROVE  /\ Slots(r, {}) = {}
         /\ \A A, w : Slots(r, A \cup {w}) = Slots(r, A) \cup {Slot(r, w)}
         /\ \A A, B : A \subseteq B => Slots(r, A) \subseteq Slots(r, B)
         /\ \A A, s : s \in Slots(r, A) <=> \E w \in A : s = Slot(r, w)
BY DEF Slots

\* A run keeps its ticker, and so the rows its writes are for.
LEMMA AskStays ==
  ASSUME NEW r \in Runs, UNCHANGED ask
  PROVE  /\ Ticker(r)' = Ticker(r)
         /\ Touched(r)' = Slots(r, dirty'[r] \cup held'[r])
         /\ Slots(r, held[r])' = Slots(r, held'[r])
BY DEF Ticker, Touched, Slots, Slot

-----------------------------------------------------------------------------
(* The forms of a run's steps. *)

\* Nothing is stored or swept.
Quiet == UNCHANGED <<store, sweep, swept>>

\* Run r calls its provider, or begins to persist.
Fetches(r) ==
  /\ pc[r] \notin Dealing \cup {"document", "flush list", "flush"} /\ pc'[r] \notin Dealing
  /\ UNCHANGED session

\* Run r goes on within its upserts.
Proceeds(r) ==
  /\ pc[r] \in Dealing \cup {"document"}
  /\ pc'[r] \in Dealing \cup {"flush list", "flush"}
  /\ pc'[r] \in Dealing => pc[r] \in Dealing
  /\ pc'[r] = "row" => Item(r) \notin Chunked
  /\ UNCHANGED <<session, got>>
  /\ pc'[r] \notin Dealing => pc[r] = "document"

\* Run r has a write more, for the item it deals with; the row of the item is the last.
Writes1(r, w) ==
  /\ w.key = Item(r)
  /\ Slots(r, dirty'[r] \cup held'[r]) = Touched(r) \cup {Slot(r, w)}
  /\ dirty'[r] \cup held'[r] \in {dirty[r] \cup held[r], dirty[r] \cup held[r] \cup {w}}
  /\ \/ /\ w.what = "doc" /\ pc[r] = "document" /\ pc'[r] \in Dealing
        /\ pc'[r] = "row" => Item(r) \notin Chunked
        /\ UNCHANGED pos
     \/ w.what = "chunk" /\ pc[r] \in Dealing /\ pc'[r] = "row" /\ UNCHANGED pos
     \/ w.what = "row" /\ pc[r] = "row" /\ pc'[r] \in {"document", "flush list"}
  /\ w.what \in {"doc", "row"} /\ w.key \in Keys => w.own \/ doc[w.key] # NoRow
  /\ UNCHANGED got

\* Run r flushes one of its writes.
Flushes(r) ==
  \E w \in dirty[r] :
    /\ pc[r] \in Dealing \cup {"flush list", "flush"}
    /\ dirty' = [dirty EXCEPT ![r] = @ \ {w}] /\ held' = [held EXCEPT ![r] = @ \cup {w}]
    /\ UNCHANGED <<pc, pos, got>>

\* Run r passes over an item, or has flushed its list.
Skips(r) ==
  /\ pc[r] \in {"document", "flush list"} /\ pc'[r] = "document"
  /\ UNCHANGED <<dirty, held, got>>

\* Run r ends without a trace.
Ends(r) ==
  /\ pc'[r] \in Ended
  /\ dirty'[r] = {} /\ held'[r] = {}

\* What run r writes is its own, and the other runs stay where they are.
Alone(r) ==
  /\ UNCHANGED ask
  /\ \A s \in Slots(r, held'[r]) \ Slots(r, held[r]) : \A q \in Runs \ {r} : s \notin Slots(q, held[q])
  /\ \A q \in Runs \ {r} :
       /\ pc'[q] = pc[q] /\ got'[q] = got[q] /\ pos'[q] = pos[q]
       /\ dirty'[q] = dirty[q] /\ held'[q] = held[q]

\* A step of the provider call leaves the session empty and the store as it is.
LEMMA FetchForm ==
  ASSUME Inv, NEW r \in Runs, UNCHANGED ask, Fetch(r) \/ Archive(r)
  PROVE  (Fetches(r) \/ Ends(r)) /\ Alone(r) /\ Quiet
<1> USE DEF Inv, Shape
<1>e. (dirty[r] = {} /\ held[r] = {}) \/ pc[r] \in Dealing \cup {"document", "flush list", "flush"}
  BY DEF SessionsAreWhole, SessionIsWhole
<1>1. CASE Start(r)
  BY <1>1 DEF Start, Fetches, Alone, Quiet, Dealing, Ended, fetch, session, store
<1>2. CASE FromCache(r)
  BY <1>2 DEF FromCache, TakePart, Fetches, Alone, Quiet, Dealing, Ended, fetch, session, store, history
<1>3. CASE NotReady(r)
  BY <1>3 DEF NotReady, Note, Fetches, Alone, Quiet, Dealing, Ended, fetch, session, store, history
<1>4. CASE RequestResult(r)
  <2>1. pc[r] = "request" /\ pc' = [pc EXCEPT ![r] = "cache"] /\ UNCHANGED <<got, session, store, sweep, history>>
    BY <1>4 DEF RequestResult, Note
  <2> QED
    BY <2>1 DEF Fetches, Alone, Quiet, Dealing, Ended, session, store, history
<1>5. CASE Combine(r)
  BY <1>5 DEF Combine, Note, Fetches, Alone, Quiet, Dealing, Ended, fetch, session, store, history
<1>6. CASE CacheSet(r)
  <2>1. /\ pc[r] = "cache" /\ UNCHANGED <<session, store, sweep, history>>
        /\ \E l \in {"failed", "archive", "look", "combine", "request"} : pc' = [pc EXCEPT ![r] = l]
        /\ \A q \in Runs \ {r} : got'[q] = got[q]
    BY <1>6 DEF CacheSet, TakePart, TakeStatements
  <2> QED
    BY <2>1 DEF Fetches, Alone, Quiet, Dealing, Ended, session, store, history
<1>7. CASE Archive(r)
  <2>1. /\ pc[r] = "archive" /\ UNCHANGED <<got, session, store, sweep, swept>>
        /\ \E l \in {"failed", "document", "flush"} : pc' = [pc EXCEPT ![r] = l]
    BY <1>7 DEF Archive, fetch
  <2> QED
    BY <2>1 DEF Fetches, Alone, Quiet, Dealing, Ended, session, store
<1> QED
  BY <1>1, <1>2, <1>3, <1>4, <1>5, <1>6, <1>7 DEF Fetch

\* A write that waits in the session, or changes one that does.
LEMMA TouchForm ==
  ASSUME Shape, NEW r \in Runs, NEW w, Touch(r, w), UNCHANGED <<ask, held>>
  PROVE  /\ Slots(r, dirty'[r] \cup held'[r]) = Touched(r) \cup {Slot(r, w)}
         /\ dirty'[r] \cup held'[r] \in {dirty[r] \cup held[r], dirty[r] \cup held[r] \cup {w}}
         /\ \A q \in Runs \ {r} : dirty'[q] = dirty[q]
<1>1. CASE ~w.make /\ Slot(r, w) \in Slots(r, dirty[r] \cup held[r])
  <2>1. dirty' = [dirty EXCEPT ![r] = dirty[r]]
    BY <1>1 DEF Touch
  <2>2. dirty' = dirty
    BY <2>1 DEF Shape
  <2> QED
    BY <1>1, <2>2 DEF Touched
<1>2. CASE ~(~w.make /\ Slot(r, w) \in Slots(r, dirty[r] \cup held[r]))
  <2>1. dirty' = [dirty EXCEPT ![r] = dirty[r] \cup {w}]
    BY <1>2 DEF Touch
  <2>2. dirty'[r] = dirty[r] \cup {w} /\ \A q \in Runs \ {r} : dirty'[q] = dirty[q]
    BY <2>1 DEF Shape
  <2>3. dirty'[r] \cup held'[r] = (dirty[r] \cup held[r]) \cup {w}
    BY <2>2
  <2> QED
    BY <2>2, <2>3, SlotsShape DEF Touched
<1> QED
  BY <1>1, <1>2

\* A session that is rolled back.
LEMMA EndForm ==
  ASSUME Shape, NEW r \in Runs, UNCHANGED <<ask, fetch, pos, store, sweep, history>>,
         NEW l \in Ended, pc' = [pc EXCEPT ![r] = l],
         dirty' = [dirty EXCEPT ![r] = {}], held' = [held EXCEPT ![r] = {}]
  PROVE  Ends(r) /\ Alone(r) /\ Quiet
<1>1. Ends(r)
  BY DEF Shape, Ends
<1>2. Slots(r, held'[r]) = {}
  BY SlotsShape DEF Shape
<1>3. Alone(r) /\ Quiet
  BY <1>2 DEF Shape, Alone, Quiet, fetch, history
<1> QED
  BY <1>1, <1>3

\* What each step of the upserts does to the session.
LEMMA PersistForm ==
  ASSUME Inv, NEW r \in Runs, UNCHANGED ask, Persist(r) \/ Kill(r), ~Commit(r), ~Archive(r)
  PROVE  /\ Proceeds(r) \/ (\E w : Writes1(r, w)) \/ Flushes(r) \/ Skips(r) \/ Ends(r)
         /\ Alone(r) /\ Quiet
<1> USE DEF Inv, Shape
<1>t. Ticker(r) # NoRow
  BY AsksAssumption, StoreAssumption DEF Ticker, Request
<1>d. pc[r] \in Dealing => pc[r] # "document"
  BY DEF Dealing
<1>1. CASE UpsertDocument(r) /\ Finds(r, <<"doc", Item(r)>>)
  <2> DEFINE w == Write(r, "doc", FALSE, doc[Item(r)] # Ticker(r))
  <2>1. /\ Touch(r, w) /\ pc[r] = "document" /\ UNCHANGED <<fetch, pos, held, store, sweep, history>>
        /\ pc' = [pc EXCEPT ![r] = AfterDocument(r)]
    BY <1>1 DEF UpsertDocument, Persisting
  <2>2. w.key = Item(r) /\ w.what = "doc" /\ (w.own \/ doc[w.key] # NoRow)
    BY <1>t DEF Write
  <2> HIDE DEF w
  <2>3. Writes1(r, w)
    BY <2>1, <2>2, TouchForm DEF Writes1, AfterDocument, Dealing, fetch
  <2>4. Alone(r) /\ Quiet
    BY <2>1, TouchForm DEF Alone, Quiet, fetch, history
  <2> QED
    BY <2>3, <2>4
<1>2. CASE UpsertDocument(r) /\ ~Finds(r, <<"doc", Item(r)>>)
  <2> DEFINE w == Write(r, "doc", TRUE, TRUE)
  <2>1. /\ Touch(r, w) /\ pc[r] = "document" /\ UNCHANGED <<fetch, pos, held, store, sweep, history>>
        /\ pc' = [pc EXCEPT ![r] = "flush document"]
    BY <1>2 DEF UpsertDocument, Persisting
  <2>2. w.key = Item(r) /\ w.what = "doc" /\ w.own
    BY DEF Write
  <2> HIDE DEF w
  <2>3. Writes1(r, w)
    BY <2>1, <2>2, TouchForm DEF Writes1, Dealing, fetch
  <2>4. Alone(r) /\ Quiet
    BY <2>1, TouchForm DEF Alone, Quiet, fetch, history
  <2> QED
    BY <2>3, <2>4
<1>3. CASE DocumentFlushed(r)
  BY <1>3 DEF DocumentFlushed, AfterDocument, Proceeds, Alone, Quiet, Dealing, fetch, session, store, history
<1>4. CASE UpsertChunk(r) \/ ReselectChunk(r)
  <2> DEFINE w == Write(r, "chunk", FALSE, FALSE)
  <2>1. w.key = Item(r) /\ w.what = "chunk"
    BY DEF Write
  <2>2. CASE Touch(r, w) /\ pc' = [pc EXCEPT ![r] = "row"] /\ UNCHANGED held
    <3>1. pc[r] \in Dealing /\ UNCHANGED <<fetch, pos, store, sweep, history>>
      BY <1>4 DEF UpsertChunk, ReselectChunk, Persisting, Dealing
    <3> HIDE DEF w
    <3>2. Writes1(r, w)
      BY <2>1, <2>2, <3>1, TouchForm DEF Writes1, Dealing, fetch
    <3>3. Alone(r) /\ Quiet
      BY <2>2, <3>1, TouchForm DEF Alone, Quiet, fetch, history
    <3> QED
      BY <3>2, <3>3
  <2>3. CASE UpsertChunk(r) /\ ~Finds(r, Slot(r, w))
    <3>1. /\ pc[r] = "chunk" /\ pc' = [pc EXCEPT ![r] = "savepoint"]
          /\ UNCHANGED <<fetch, session, store, sweep, history>>
      BY <2>3 DEF UpsertChunk, Persisting, session
    <3> QED
      BY <3>1 DEF Proceeds, Alone, Quiet, Dealing, fetch, session, history
  <2>4. CASE Failed(r) /\ ReselectChunk(r)
    <3>1. UNCHANGED <<fetch, pos, store, sweep, history>>
      BY <2>4 DEF ReselectChunk
    <3> QED
      BY <2>4, <3>1, EndForm DEF Failed, Ended
  <2> QED
    BY <1>4, <2>2, <2>3, <2>4 DEF UpsertChunk, ReselectChunk
<1>5. CASE InsertChunk(r)
  <2> DEFINE w == Write(r, "chunk", TRUE, TRUE)
  <2>0. w.key = Item(r) /\ w.what = "chunk"
    BY DEF Write
  <2>1. /\ pc[r] = "savepoint" /\ Blocker(r, Slot(r, w)) = {}
        /\ UNCHANGED <<fetch, pos, dirty, store, sweep, history>>
    BY <1>5 DEF InsertChunk, Persisting
  <2>2. CASE pc' = [pc EXCEPT ![r] = "reselect"] /\ UNCHANGED held
    BY <2>1, <2>2 DEF Proceeds, Alone, Quiet, Dealing, fetch, session, history
  <2>3. CASE pc' = [pc EXCEPT ![r] = "row"] /\ held' = [held EXCEPT ![r] = @ \cup {w}]
    <3>1. \A q \in Runs \ {r} : Slot(r, w) \notin Slots(q, held[q])
      BY <2>1 DEF Blocker
    <3> HIDE DEF w
    <3>2. held'[r] = held[r] \cup {w} /\ dirty'[r] = dirty[r]
      BY <2>1, <2>3
    <3>3. dirty'[r] \cup held'[r] = (dirty[r] \cup held[r]) \cup {w}
      BY <3>2
    <3>4. Writes1(r, w)
      BY <2>0, <2>1, <2>3, <3>3, SlotsShape DEF Writes1, Dealing, fetch, Touched
    <3>5. Slots(r, held'[r]) \ Slots(r, held[r]) \subseteq {Slot(r, w)}
      BY <3>2, SlotsShape
    <3>6. Alone(r) /\ Quiet
      BY <2>1, <2>3, <3>1, <3>5 DEF Alone, Quiet, fetch, history
    <3> QED
      BY <3>4, <3>6
  <2> QED
    BY <1>5, <2>2, <2>3 DEF InsertChunk
<1>6. CASE UpsertRow(r)
  <2> DEFINE there == Finds(r, <<"row", Item(r)>>)
             w == Write(r, "row", ~there, ~there \/ row[Item(r)] # Ticker(r))
  <2>1. /\ Touch(r, w) /\ pc[r] = "row" /\ UNCHANGED <<fetch, held, store, sweep, history>>
        /\ \E l \in {"document", "flush list"} : pc' = [pc EXCEPT ![r] = l]
        /\ pos' = [pos EXCEPT ![r] = @ + 1]
    BY <1>6 DEF UpsertRow, Persisting, AfterRow
  <2>2. /\ w.key = Item(r) /\ w.what = "row"
        /\ w.key \in Keys => w.own \/ doc[w.key] # NoRow
    BY <1>t DEF Write, WritesAreExclusive
  <2> HIDE DEF w
  <2>3. Writes1(r, w)
    BY <2>1, <2>2, TouchForm DEF Writes1, fetch
  <2>4. Alone(r) /\ Quiet
    BY <2>1, TouchForm DEF Alone, Quiet, fetch, history
  <2> QED
    BY <2>3, <2>4
<1>7. CASE LastFlush(r)
  BY <1>7 DEF LastFlush, Proceeds, Alone, Quiet, Dealing, fetch, session, history
<1>8. CASE Flush(r)
  <2>1. PICK w \in dirty[r] :
          /\ Blocker(r, Slot(r, w)) = {}
          /\ IF w.make = Finds(r, Slot(r, w))
               THEN Failed(r)
               ELSE /\ dirty' = [dirty EXCEPT ![r] = @ \ {w}]
                    /\ held' = [held EXCEPT ![r] = @ \cup {w}]
                    /\ UNCHANGED pc
    BY <1>8 DEF Flush
  <2>2. pc[r] \in Dealing \cup {"flush list", "flush"} /\ UNCHANGED <<fetch, pos, store, sweep, history>>
    BY <1>8 DEF Flush, Flushing, Dealing
  <2>3. CASE Failed(r)
    BY <2>2, <2>3, EndForm DEF Failed, Ended
  <2>4. CASE /\ dirty' = [dirty EXCEPT ![r] = @ \ {w}] /\ held' = [held EXCEPT ![r] = @ \cup {w}]
             /\ UNCHANGED pc
    <3>1. Flushes(r)
      BY <2>2, <2>4 DEF Flushes, fetch
    <3>2. \A q \in Runs \ {r} : Slot(r, w) \notin Slots(q, held[q])
      BY <2>1 DEF Blocker
    <3>3. Slots(r, held'[r]) \ Slots(r, held[r]) \subseteq {Slot(r, w)}
      BY <2>4, SlotsShape
    <3>4. \A q \in Runs \ {r} : dirty'[q] = dirty[q] /\ held'[q] = held[q]
      BY <2>4
    <3>5. Alone(r)
      BY <2>2, <2>4, <3>2, <3>3, <3>4 DEF Alone, fetch
    <3>6. Quiet
      BY <2>2 DEF Quiet, history
    <3> QED
      BY <3>1, <3>5, <3>6
  <2> QED
    BY <2>1, <2>3, <2>4
<1>9. CASE DataError(r) \/ Victim(r) \/ Kill(r)
  <2>1. /\ \E l \in Ended : pc' = [pc EXCEPT ![r] = l]
        /\ dirty' = [dirty EXCEPT ![r] = {}] /\ held' = [held EXCEPT ![r] = {}]
        /\ UNCHANGED <<fetch, pos, store, sweep, history>>
    BY <1>9 DEF DataError, Victim, Failed, Kill, Ended
  <2> QED
    BY <2>1, EndForm
<1>10. CASE Skip(r)
  BY <1>10 DEF Skip, Skips, Alone, Quiet, fetch, history
<1>11. CASE ListFlushed(r)
  BY <1>11 DEF ListFlushed, Skips, Alone, Quiet, fetch, session, history
<1> QED
  BY <1>1, <1>2, <1>3, <1>4, <1>5, <1>6, <1>7, <1>8, <1>9, <1>10, <1>11 DEF Persist

-----------------------------------------------------------------------------
(* Sessions. *)

\* The item at hand stays the same while the run deals with it.
LEMMA ItemStays ==
  ASSUME UNCHANGED ask, NEW q \in Runs, got'[q] = got[q]
  PROVE  /\ Items(q)' = Items(q) /\ Kept(q)' = Kept(q)
         /\ pos'[q] = pos[q] => Item(q)' = Item(q)
<1>1. Items(q)' = Items(q)
  BY DEF Items
<1>2. Kept(q)' = Kept(q)
  BY <1>1 DEF Kept, Keeps, Ticker
<1> QED
  BY <1>1, <1>2 DEF Item

\* A session stays whole while another run takes a step and no document vanishes.
LEMMA OthersWhole ==
  ASSUME Inv, NEW r \in Runs, Alone(r), NEW q \in Runs \ {r},
         \A k \in Keys : doc[k] # NoRow => doc'[k] # NoRow
  PROVE  SessionIsWhole(q)'
<1>1. /\ pc'[q] = pc[q] /\ dirty'[q] = dirty[q] /\ held'[q] = held[q]
      /\ Ticker(q)' = Ticker(q) /\ Item(q)' = Item(q) /\ Touched(q)' = Touched(q)
  BY AskStays, ItemStays DEF Alone, Touched
<1>2. SessionIsWhole(q)
  BY DEF Inv, SessionsAreWhole
<1>3. \A k \in Keys : DealsWith(q, k)' = DealsWith(q, k)
  BY <1>1 DEF DealsWith
<1> QED
  BY <1>1, <1>2, <1>3 DEF SessionIsWhole

\* A run's own steps keep its session whole.
LEMMA OwnWhole ==
  ASSUME Inv, NEW r \in Runs, Alone(r), Quiet,
         Fetches(r) \/ Proceeds(r) \/ (\E w : Writes1(r, w)) \/ Flushes(r) \/ Skips(r) \/ Ends(r)
  PROVE  SessionIsWhole(r)'
<1>a. SessionIsWhole(r)
  BY DEF Inv, SessionsAreWhole
<1>b. /\ Ticker(r)' = Ticker(r) /\ doc' = doc /\ Touched(r) = Slots(r, dirty[r] \cup held[r])
      /\ Touched(r)' = Slots(r, dirty'[r] \cup held'[r])
      /\ got'[r] = got[r] /\ pos'[r] = pos[r] => Item(r)' = Item(r)
  BY AskStays, ItemStays DEF Alone, Quiet, store, Touched
<1>d. \A k : DealsWith(r, k)' <=> pc'[r] \in Dealing /\ Item(r)' = k
  BY DEF DealsWith, Dealing
<1>1. CASE Fetches(r) \/ Ends(r)
  <2>1. dirty'[r] = {} /\ held'[r] = {} /\ pc'[r] \notin Dealing
    BY <1>1, <1>a DEF Fetches, Ends, Ended, Dealing, session, SessionIsWhole
  <2>2. Touched(r)' = {}
    BY <1>b, <2>1, SlotsShape
  <2> QED
    BY <1>d, <2>1, <2>2 DEF SessionIsWhole
<1>2. CASE Proceeds(r)
  <2>1. /\ dirty'[r] = dirty[r] /\ held'[r] = held[r] /\ Item(r)' = Item(r)
        /\ Touched(r)' = Touched(r)
    BY <1>2, <1>b DEF Proceeds, session
  <2>2. \A k : DealsWith(r, k)' => DealsWith(r, k) /\ (pc'[r] = "row" => k \notin Chunked)
    BY <1>2, <1>d, <2>1 DEF Proceeds, DealsWith
  <2>3. \A k : DealsWith(r, k) => DealsWith(r, k)'
    BY <1>2, <1>d, <2>1 DEF Proceeds, DealsWith, Dealing
  <2> QED
    BY <1>2, <1>a, <1>b, <2>1, <2>2, <2>3 DEF SessionIsWhole, Proceeds
<1>3. CASE \E w : Writes1(r, w)
  <2>1. PICK w : Writes1(r, w)
    BY <1>3
  <2>2. Touched(r)' = Touched(r) \cup {Slot(r, w)} /\ w.key = Item(r)
    BY <1>b, <2>1 DEF Writes1
  <2>3. /\ pc'[r] \in Dealing \cup {"document", "flush list"}
        /\ \A x \in dirty'[r] \cup held'[r] :
             x.key \in Keys /\ x.what \in {"doc", "row"} => x.own \/ doc'[x.key] # NoRow
    BY <1>a, <1>b, <2>1 DEF Writes1, SessionIsWhole, Dealing
  <2>4. CASE w.what = "doc"
    <3>1. /\ Slot(r, w) = <<"doc", Item(r)>> /\ pc[r] = "document" /\ pc'[r] \in Dealing
          /\ Item(r)' = Item(r) /\ (pc'[r] = "row" => Item(r) \notin Chunked)
      <4>1. Slot(r, w) = <<"doc", Item(r)>>
        BY <2>2, <2>4, SlotShape
      <4>2. /\ pc[r] = "document" /\ pc'[r] \in Dealing /\ UNCHANGED <<got, pos>>
            /\ pc'[r] = "row" => Item(r) \notin Chunked
        BY <2>1, <2>4 DEF Writes1
      <4> QED
        BY <1>b, <4>1, <4>2
    <3>2. \A k : /\ <<"row", k>> \in Touched(r)' => <<"row", k>> \in Touched(r)
                 /\ <<"doc", k>> \in Touched(r)' => <<"doc", k>> \in Touched(r) \/ k = Item(r)
                 /\ ~DealsWith(r, k)
      <4>1. \A k : ~DealsWith(r, k)
        BY <3>1 DEF DealsWith, Dealing
      <4>2. \A k : /\ Slot(r, w) # <<"row", k>>
                   /\ Slot(r, w) = <<"doc", k>> => k = Item(r)
        BY <2>2, <2>4, SlotShape
      <4> QED
        BY <2>2, <4>1, <4>2
    <3> QED
      BY <1>a, <1>b, <1>d, <2>2, <2>3, <3>1, <3>2 DEF SessionIsWhole
  <2>5. CASE w.what = "chunk"
    <3>1. /\ Slot(r, w) = <<"chunk", Item(r), Ticker(r)>> /\ pc[r] \in Dealing /\ pc'[r] = "row"
          /\ Item(r)' = Item(r)
      <4>1. Slot(r, w) = <<"chunk", Item(r), Ticker(r)>>
        BY <2>2, <2>5, SlotShape
      <4>2. pc[r] \in Dealing /\ pc'[r] = "row" /\ UNCHANGED <<got, pos>>
        BY <2>1, <2>5 DEF Writes1
      <4> QED
        BY <1>b, <4>1, <4>2
    <3>2. \A k : /\ <<"row", k>> \in Touched(r)' => <<"row", k>> \in Touched(r)
                 /\ <<"doc", k>> \in Touched(r)' => <<"doc", k>> \in Touched(r)
                 /\ DealsWith(r, k)' <=> DealsWith(r, k)
      <4>1. \A k : DealsWith(r, k)' <=> DealsWith(r, k)
        BY <1>d, <3>1 DEF DealsWith, Dealing
      <4>2. \A k : Slot(r, w) # <<"row", k>> /\ Slot(r, w) # <<"doc", k>>
        BY <2>5, SlotShape
      <4> QED
        BY <2>2, <4>1, <4>2
    <3> QED
      BY <1>a, <1>b, <1>d, <2>2, <2>3, <3>1, <3>2 DEF SessionIsWhole
  <2>6. CASE w.what = "row"
    <3>1. Slot(r, w) = <<"row", Item(r)>> /\ pc[r] = "row" /\ pc'[r] \in {"document", "flush list"}
      <4>1. Slot(r, w) = <<"row", Item(r)>>
        BY <2>2, <2>6, SlotShape
      <4>2. pc[r] = "row" /\ pc'[r] \in {"document", "flush list"}
        BY <2>1, <2>6 DEF Writes1
      <4> QED
        BY <4>1, <4>2
    <3>2. \A k : /\ <<"row", k>> \in Touched(r)' => <<"row", k>> \in Touched(r) \/ k = Item(r)
                 /\ <<"doc", k>> \in Touched(r)' => <<"doc", k>> \in Touched(r)
                 /\ ~DealsWith(r, k)'
                 /\ DealsWith(r, k) <=> k = Item(r)
      <4>1. \A k : ~DealsWith(r, k)' /\ (DealsWith(r, k) <=> k = Item(r))
        BY <1>d, <3>1 DEF DealsWith, Dealing
      <4>2. \A k : /\ Slot(r, w) # <<"doc", k>>
                   /\ Slot(r, w) = <<"row", k>> => k = Item(r)
        BY <2>2, <2>6, SlotShape
      <4> QED
        BY <2>2, <4>1, <4>2
    <3> QED
      BY <1>a, <1>b, <2>2, <2>3, <3>1, <3>2 DEF SessionIsWhole
  <2>7. w.what = "doc" \/ w.what = "chunk" \/ w.what = "row"
    BY <2>1 DEF Writes1
  <2> QED
    BY <2>4, <2>5, <2>6, <2>7
<1>4. CASE Flushes(r)
  <2>1. dirty'[r] \cup held'[r] = dirty[r] \cup held[r] /\ pc' = pc /\ Item(r)' = Item(r)
    <3>1. PICK w \in dirty[r] :
            /\ dirty' = [dirty EXCEPT ![r] = @ \ {w}] /\ held' = [held EXCEPT ![r] = @ \cup {w}]
            /\ UNCHANGED <<pc, pos, got>>
      BY <1>4 DEF Flushes
    <3>2. dirty'[r] = dirty[r] \ {w} /\ held'[r] = held[r] \cup {w}
      BY <3>1 DEF Inv, Shape
    <3>3. Item(r)' = Item(r)
      BY <1>b, <3>1
    <3> QED
      BY <3>1, <3>2, <3>3
  <2>2. Touched(r)' = Touched(r) /\ \A k : DealsWith(r, k)' = DealsWith(r, k)
    BY <1>b, <2>1 DEF DealsWith
  <2>3. pc'[r] \in Dealing \cup {"document", "flush list", "flush"}
    BY <1>4 DEF Flushes
  <2> QED
    BY <1>a, <1>b, <2>1, <2>2, <2>3 DEF SessionIsWhole
<1>5. CASE Skips(r)
  <2>1. Touched(r)' = Touched(r) /\ \A k : ~DealsWith(r, k)' /\ ~DealsWith(r, k)
    BY <1>5, <1>b, <1>d DEF Skips, DealsWith, Dealing
  <2> QED
    BY <1>5, <1>a, <1>b, <2>1 DEF Skips, SessionIsWhole
<1> QED
  BY <1>1, <1>2, <1>3, <1>4, <1>5

\* Only run r's own slots become held, so that they stay exclusive.
LEMMA ExclusiveKept ==
  ASSUME Inv, NEW r \in Runs, Alone(r), SessionsAreWhole',
         \A k \in Keys : doc'[k] = NoRow <=> row'[k] = NoRow
  PROVE  WritesAreExclusive'
<1>1. \A q \in Runs : ~Active(q)' => dirty'[q] = {} /\ held'[q] = {}
  BY DEF SessionsAreWhole, SessionIsWhole, Active, Ended, Dealing
<1>2. ASSUME NEW p \in Runs, NEW q \in Runs, p # q
      PROVE  Slots(p, held[p])' \cap Slots(q, held[q])' = {}
  <2>1. \A x \in Runs : Slots(x, held[x])' = Slots(x, held'[x])
    BY AskStays DEF Alone
  <2>2. \A x \in Runs \ {r} : Slots(x, held'[x]) = Slots(x, held[x])
    BY DEF Alone
  <2>3. Slots(p, held[p]) \cap Slots(q, held[q]) = {}
    BY <1>2 DEF Inv, WritesAreExclusive
  <2>4. \A x \in Runs \ {r} : Slots(r, held'[r]) \cap Slots(x, held[x]) = {}
    BY DEF Alone, Inv, WritesAreExclusive
  <2> QED
    BY <1>2, <2>1, <2>2, <2>3, <2>4
<1> QED
  BY <1>1, <1>2 DEF WritesAreExclusive

\* A step that commits nothing keeps what is committed.
LEMMA QuietKeeps ==
  ASSUME Inv, NEW r \in Runs, Alone(r), Quiet,
         Fetches(r) \/ Proceeds(r) \/ (\E w : Writes1(r, w)) \/ Flushes(r) \/ Skips(r) \/ Ends(r)
  PROVE  /\ WritesAreExclusive' /\ SessionsAreWhole' /\ SweepIsExcused' /\ OwnersHaveEvidence'
<1>1. doc' = doc /\ row' = row /\ chunks' = chunks /\ sweep' = sweep /\ swept' = swept
  BY DEF Quiet, store
<1>2. SessionsAreWhole'
  BY <1>1, OwnWhole, OthersWhole DEF SessionsAreWhole
<1>3. WritesAreExclusive'
  BY <1>1, <1>2, ExclusiveKept DEF Inv, WritesAreExclusive
<1>4. SweepIsExcused' /\ OwnersHaveEvidence'
  BY <1>1 DEF Inv, SweepIsExcused, Sweeping, OwnersHaveEvidence
<1> QED
  BY <1>2, <1>3, <1>4

\* A commit stores documents with their rows and owners with their chunks.
LEMMA CommitKeeps ==
  ASSUME Inv, NEW r \in Runs, Commit(r), UNCHANGED ask
  PROVE  /\ WritesAreExclusive' /\ SessionsAreWhole' /\ SweepIsExcused' /\ OwnersHaveEvidence'
<1> USE DEF Inv, Shape
<1>1. /\ pc[r] = "flush" /\ dirty[r] = {} /\ dirty' = dirty /\ held' = [held EXCEPT ![r] = {}]
      /\ doc' = [k \in Keys |-> IF Owns(r, "doc", k) THEN Ticker(r) ELSE doc[k]]
      /\ row' = [k \in Keys |-> IF Owns(r, "row", k) THEN Ticker(r) ELSE row[k]]
      /\ chunks' = chunks \cup {<<Ticker(r), w.key>> : w \in {x \in held[r] : x.what = "chunk"}}
      /\ pc' = [pc EXCEPT ![r] = Result(r)] /\ Result(r) \in Ended
      /\ swept' = (IF Sweeping
           THEN [swept EXCEPT !.owners = @ \cup {<<Ticker(r), w.key>> : w \in held[r]}] ELSE swept)
      /\ UNCHANGED <<sweep, got, pos>>
  BY DEF Commit, Result, Ended, fetch
<1>t. Ticker(r) # NoRow
  BY AsksAssumption, StoreAssumption DEF Ticker, Request
<1>s. /\ Touched(r) = Slots(r, held[r])
      /\ \A s \in Touched(r) : \E w \in held[r] : s = Slot(r, w)
      /\ \A w \in held[r] : Slot(r, w) \in Touched(r)
  <2>1. dirty[r] \cup held[r] = held[r]
    BY <1>1
  <2>2. Touched(r) = Slots(r, held[r])
    BY <2>1 DEF Touched
  <2> QED
    BY <2>2 DEF Slots
<1>w. SessionIsWhole(r) /\ \A k : ~DealsWith(r, k)
  BY <1>1 DEF SessionsAreWhole, DealsWith, Dealing
<1>o. \A what \in {"doc", "row"}, k \in Keys :
        /\ Owns(r, what, k) => <<what, k>> \in Touched(r)
        /\ <<what, k>> \in Touched(r) => Owns(r, what, k) \/ doc[k] # NoRow
  <2>1. ASSUME NEW what \in {"doc", "row"}, NEW k \in Keys, Owns(r, what, k)
        PROVE  <<what, k>> \in Touched(r)
    <3>1. PICK w \in held[r] : w.what = what /\ w.key = k
      BY <2>1 DEF Owns
    <3>2. Slot(r, w) = <<what, k>>
      BY <3>1, SlotShape
    <3> QED
      BY <1>s, <3>2
  <2>2. ASSUME NEW what \in {"doc", "row"}, NEW k \in Keys, <<what, k>> \in Touched(r)
        PROVE  Owns(r, what, k) \/ doc[k] # NoRow
    <3>1. PICK w \in held[r] : <<what, k>> = Slot(r, w)
      BY <1>s, <2>2
    <3>2. w.what = what /\ w.key = k
      BY <3>1, SlotShape
    <3> QED
      BY <1>w, <3>2 DEF SessionIsWhole, Owns
  <2> QED
    BY <2>1, <2>2
<1>2. \A k \in Keys : doc'[k] = NoRow <=> row'[k] = NoRow
  BY <1>1, <1>o, <1>t, <1>w DEF SessionIsWhole, WritesAreExclusive
<1>3. \A k \in Keys : doc[k] # NoRow => doc'[k] # NoRow
  BY <1>1, <1>t
<1>4. Alone(r)
  <2>1. Slots(r, held'[r]) = {}
    BY <1>1, SlotsShape
  <2> QED
    BY <1>1, <2>1 DEF Alone
<1>5. SessionIsWhole(r)'
  <2>1. pc'[r] \notin Dealing /\ dirty'[r] = {} /\ held'[r] = {}
    BY <1>1 DEF Ended, Dealing
  <2>2. Touched(r)' = {} /\ \A k : ~DealsWith(r, k)'
    BY <2>1, AskStays, SlotsShape DEF DealsWith
  <2> QED
    BY <2>1, <2>2 DEF SessionIsWhole
<1>6. SessionsAreWhole'
  BY <1>3, <1>4, <1>5, OthersWhole DEF SessionsAreWhole
<1>7. WritesAreExclusive'
  BY <1>2, <1>4, <1>6, ExclusiveKept
<1>8. SweepIsExcused'
  <2>1. ASSUME NEW c \in chunks' PROVE c = <<c[1], c[2]>>
    <3>1. CASE c \in chunks
      BY <3>1 DEF SweepIsExcused
    <3>2. CASE c \notin chunks
      <4>1. PICK w \in held[r] : c = <<Ticker(r), w.key>>
        BY <1>1, <3>2
      <4> QED
        BY <4>1
    <3> QED
      BY <3>1, <3>2
  <2>2. ASSUME Sweeping, NEW c \in sweep.stale \cup sweep.gone
        PROVE  /\ c = <<c[1], c[2]>> /\ c[2] \in Disclosed
               /\ c[1] # row'[c[2]] \/ c \in swept'.owners
    <3>1. /\ c = <<c[1], c[2]>> /\ c[2] \in Disclosed /\ c[2] \in Keys
          /\ c[1] # row[c[2]] \/ c \in swept.owners
      BY <2>2, StoreAssumption DEF SweepIsExcused
    <3>2. swept'.owners = swept.owners \cup {<<Ticker(r), w.key>> : w \in held[r]}
      BY <1>1, <2>2
    <3>3. CASE Owns(r, "row", c[2])
      <4>1. PICK w \in held[r] : w.key = c[2]
        BY <3>3 DEF Owns
      <4>2. row'[c[2]] = Ticker(r)
        BY <1>1, <3>1, <3>3
      <4>3. c[1] = Ticker(r) => c = <<Ticker(r), w.key>>
        BY <3>1, <4>1
      <4> QED
        BY <3>1, <3>2, <4>2, <4>3
    <3>4. CASE ~Owns(r, "row", c[2])
      BY <1>1, <3>1, <3>2, <3>4
    <3> QED
      BY <3>3, <3>4
  <2> QED
    BY <1>1, <2>1, <2>2 DEF SweepIsExcused, Sweeping
<1>9. OwnersHaveEvidence'
  <2>1. swept'.lost = swept.lost
    BY <1>1
  <2>2. ASSUME NEW k \in Chunked, row'[k] # NoRow
        PROVE  <<row'[k], k>> \in chunks' \cup swept'.lost
    <3>1. k \in Keys
      BY StoreAssumption
    <3>2. CASE Owns(r, "row", k)
      <4>1. <<"chunk", k, Ticker(r)>> \in Touched(r)
        BY <1>o, <1>w, <3>1, <3>2 DEF SessionIsWhole
      <4>2. PICK w \in held[r] : <<"chunk", k, Ticker(r)>> = Slot(r, w)
        BY <1>s, <4>1
      <4>3. w.what = "chunk" /\ w.key = k
        BY <4>2, SlotShape
      <4>4. row'[k] = Ticker(r)
        BY <1>1, <3>1, <3>2
      <4>5. <<Ticker(r), w.key>> \in chunks'
        BY <1>1, <4>3
      <4> QED
        BY <4>3, <4>4, <4>5
    <3>3. CASE ~Owns(r, "row", k)
      <4>1. row'[k] = row[k]
        BY <1>1, <3>1, <3>3
      <4>2. <<row[k], k>> \in chunks \cup swept.lost
        BY <2>2, <4>1 DEF OwnersHaveEvidence
      <4>3. chunks \subseteq chunks'
        BY <1>1
      <4> QED
        BY <2>1, <4>1, <4>2, <4>3
    <3> QED
      BY <3>2, <3>3
  <2> QED
    BY <2>2 DEF OwnersHaveEvidence
<1> QED
  BY <1>6, <1>7, <1>8, <1>9

-----------------------------------------------------------------------------
(* The clean-up, and the cache. *)

\* The clean-up deletes only what it is excused for.
LEMMA CleanUpKeeps ==
  ASSUME Inv, CleanUp, UNCHANGED ask
  PROVE  /\ WritesAreExclusive' /\ SessionsAreWhole' /\ SweepIsExcused' /\ OwnersHaveEvidence'
<1> USE DEF Inv, Shape
<1>1. /\ UNCHANGED <<pc, got, pos, dirty, held, doc, row>>
      /\ chunks' = IF CommitSweep THEN chunks \ sweep.gone ELSE chunks
  <2>1. CASE Select
    BY <2>1 DEF Select, CommitSweep, Sweeping, fetch, session, store
  <2>2. CASE Delete
    <3>1. UNCHANGED <<pc, fetch, session, store>> /\ \E c \in sweep.stale : TRUE
      BY <2>2 DEF Delete
    <3> QED
      BY <3>1 DEF CommitSweep, fetch, session, store
  <2>3. CASE CommitSweep
    BY <2>3 DEF CommitSweep, fetch, session
  <2>4. CASE SweepVictim
    <3>1. chunks' = chunks /\ UNCHANGED <<pc, fetch, session, doc, row, swept>>
      BY <2>4 DEF SweepVictim, store, history
    <3>2. CASE ~CommitSweep
      BY <3>1, <3>2 DEF fetch, session
    <3>3. CASE CommitSweep
      BY <3>1, <3>3 DEF CommitSweep, fetch, session
    <3> QED
      BY <3>2, <3>3
  <2> QED
    BY <2>1, <2>2, <2>3, <2>4 DEF CleanUp
<1>2. SessionsAreWhole'
  <2>1. ASSUME NEW q \in Runs
        PROVE  SessionIsWhole(q)'
    <3>1. /\ Ticker(q)' = Ticker(q) /\ Item(q)' = Item(q) /\ Touched(q)' = Touched(q)
          /\ \A k \in Keys : DealsWith(q, k)' = DealsWith(q, k)
      BY <1>1, AskStays, ItemStays DEF Touched, DealsWith
    <3> QED
      BY <1>1, <3>1 DEF SessionsAreWhole, SessionIsWhole
  <2> QED
    BY <2>1 DEF SessionsAreWhole
<1>3. WritesAreExclusive'
  BY <1>1, AskStays DEF WritesAreExclusive, Active
<1>4. SweepIsExcused' /\ OwnersHaveEvidence'
  <2>1. CASE Select
    <3>1. /\ sweep'.pc = "deleting" /\ sweep'.stale = Stale /\ sweep'.gone = {}
          /\ chunks' = chunks /\ row' = row /\ swept'.lost = swept.lost
      BY <2>1 DEF Select, store
    <3>2. \A c \in Stale : c \in chunks /\ c[2] \in Disclosed /\ c[1] # row[c[2]]
      BY DEF Stale
    <3> QED
      BY <3>1, <3>2 DEF SweepIsExcused, OwnersHaveEvidence
  <2>2. CASE Delete
    <3>1. /\ sweep'.stale \cup sweep'.gone \subseteq sweep.stale \cup sweep.gone /\ sweep'.pc = sweep.pc
          /\ Sweeping /\ chunks' = chunks /\ row' = row /\ swept' = swept
      BY <2>2 DEF Delete, store, history
    <3> QED
      BY <3>1 DEF SweepIsExcused, OwnersHaveEvidence, Sweeping
  <2>3. CASE CommitSweep
    <3>1. /\ Sweeping /\ chunks' = chunks \ sweep.gone /\ row' = row /\ sweep'.pc = "done" /\ sweep'.gone = {}
          /\ swept'.lost = swept.lost \cup (sweep.gone \cap swept.owners)
      BY <2>3 DEF CommitSweep
    <3>2. SweepIsExcused'
      BY <3>1 DEF SweepIsExcused, Sweeping
    <3>3. ASSUME NEW k \in Chunked, row[k] # NoRow
          PROVE  <<row[k], k>> \in chunks' \cup swept'.lost
      <4> DEFINE c == <<row[k], k>>
      <4>1. c \in chunks \cup swept.lost
        BY <3>3 DEF OwnersHaveEvidence
      <4>2. c \in sweep.gone => c \in swept.owners
        BY <3>1 DEF SweepIsExcused
      <4> QED
        BY <3>1, <4>1, <4>2
    <3> QED
      BY <3>1, <3>2, <3>3 DEF OwnersHaveEvidence
  <2>4. CASE SweepVictim
    <3>1. /\ sweep'.pc = "done" /\ sweep'.gone = {}
          /\ chunks' = chunks /\ row' = row /\ swept' = swept
      BY <2>4 DEF SweepVictim, store, history
    <3> QED
      BY <3>1 DEF SweepIsExcused, OwnersHaveEvidence, Sweeping
  <2> QED
    BY <2>1, <2>2, <2>3, <2>4 DEF CleanUp
<1> QED
  BY <1>2, <1>3, <1>4

\* Nothing the invariant is about changes.
LEMMA SameKeeps ==
  ASSUME Inv, UNCHANGED <<ask, pc, got, session, store, sweep, swept>>
  PROVE  Inv'
<1> USE DEF Inv, session, store
<1>1. Shape'
  BY DEF Shape
<1>2. SessionsAreWhole'
  <2>1. ASSUME NEW q \in Runs
        PROVE  SessionIsWhole(q)'
    <3>1. /\ Ticker(q)' = Ticker(q) /\ Item(q)' = Item(q) /\ Touched(q)' = Touched(q)
          /\ \A k \in Keys : DealsWith(q, k)' = DealsWith(q, k)
      BY AskStays, ItemStays DEF Touched, DealsWith
    <3> QED
      BY <3>1 DEF SessionsAreWhole, SessionIsWhole
  <2> QED
    BY <2>1 DEF SessionsAreWhole
<1>3. WritesAreExclusive'
  BY AskStays DEF WritesAreExclusive, Active
<1>4. SweepIsExcused' /\ OwnersHaveEvidence'
  BY DEF SweepIsExcused, Sweeping, OwnersHaveEvidence
<1> QED
  BY <1>1, <1>2, <1>3, <1>4

\* Steps of runs keep the shape of what is stored.
LEMMA ShapeKept ==
  ASSUME Shape, NEW r \in Runs, Fetch(r) \/ Persist(r) \/ Kill(r), UNCHANGED ask
  PROVE  Shape'
<1> USE DEF Shape
<1>1. CASE Start(r)
  BY <1>1 DEF Start, fetch, session, store
<1>2. CASE FromCache(r)
  BY <1>2 DEF FromCache, TakePart, session, store, history
<1>3. CASE NotReady(r) \/ Combine(r)
  BY <1>3 DEF NotReady, Combine, Note, session, store, history
<1>4. CASE RequestResult(r)
  <2>1. pc' = [pc EXCEPT ![r] = "cache"] /\ UNCHANGED <<got, session, store, sweep, history>>
    BY <1>4 DEF RequestResult, Note
  <2> QED
    BY <2>1 DEF session, store, history
<1>5. CASE CacheSet(r)
  <2>1. /\ UNCHANGED <<session, store, sweep, history>> /\ \E l : pc' = [pc EXCEPT ![r] = l]
        /\ got' = got \/ \E g : got' = [got EXCEPT ![r] = g]
    BY <1>5 DEF CacheSet, TakePart, TakeStatements
  <2> QED
    BY <2>1 DEF session, store, history
<1>6. CASE Archive(r) \/ DocumentFlushed(r) \/ ListFlushed(r) \/ LastFlush(r)
  BY <1>6 DEF Archive, DocumentFlushed, ListFlushed, LastFlush, fetch, session, store, history
<1>7. CASE UpsertDocument(r)
  BY <1>7 DEF UpsertDocument, Touch, fetch, store, history
<1>8. CASE UpsertChunk(r)
  BY <1>8 DEF UpsertChunk, Touch, fetch, store, history
<1>9. CASE InsertChunk(r)
  BY <1>9 DEF InsertChunk, fetch, store, history
<1>10. CASE ReselectChunk(r)
  BY <1>10 DEF ReselectChunk, Touch, Failed, fetch, store, history
<1>11. CASE UpsertRow(r)
  BY <1>11 DEF UpsertRow, Touch, fetch, store, history
<1>12. CASE Flush(r)
  BY <1>12 DEF Flush, Failed, fetch, store, history
<1>13. CASE Commit(r)
  BY <1>13 DEF Commit, fetch
<1>14. CASE DataError(r) \/ Victim(r)
  BY <1>14 DEF DataError, Victim, Failed, fetch, store, history
<1>15. CASE Kill(r)
  BY <1>15 DEF Kill, fetch, store, history
<1>16. CASE Skip(r)
  BY <1>16 DEF Skip, fetch, store, history
<1> QED
  BY <1>1, <1>2, <1>3, <1>4, <1>5, <1>6, <1>7, <1>8, <1>9, <1>10, <1>11, <1>12, <1>13,
     <1>14, <1>15, <1>16 DEF Fetch, Persist

\* So do steps of the clean-up.
LEMMA ShapeSwept ==
  ASSUME Shape, CleanUp, UNCHANGED ask
  PROVE  Shape'
<1> USE DEF Shape
<1>1. CASE Select
  BY <1>1 DEF Select, fetch, session, store
<1>2. CASE Delete
  BY <1>2 DEF Delete, fetch, session, store, history
<1>3. CASE CommitSweep
  BY <1>3 DEF CommitSweep, fetch, session
<1>4. CASE SweepVictim
  BY <1>4 DEF SweepVictim, fetch, session, store, history
<1> QED
  BY <1>1, <1>2, <1>3, <1>4 DEF CleanUp

\* The inductive invariant holds at first.
LEMMA InitInvariant ==
  Init => Inv
<1> SUFFICES ASSUME Init PROVE Inv
  OBVIOUS
<1>1. Shape
  BY DEF Init, Shape
<1>2. /\ \A r \in Runs : pc[r] = "idle" /\ dirty[r] = {} /\ held[r] = {}
      /\ row = doc /\ sweep.pc = "idle" /\ sweep.gone = {} /\ chunks \subseteq Tickers \X Chunked
  BY DEF Init
<1>3. \A r \in Runs : Slots(r, held[r]) = {} /\ Touched(r) = {}
  BY <1>2, SlotsShape DEF Touched
<1>4. WritesAreExclusive
  BY <1>2, <1>3 DEF WritesAreExclusive
<1>5. SessionsAreWhole
  BY <1>2, <1>3 DEF SessionsAreWhole, SessionIsWhole, DealsWith, Dealing
<1>6. SweepIsExcused
  BY <1>2 DEF SweepIsExcused, Sweeping
<1>7. OwnersHaveEvidence
  <2>1. ASSUME NEW k \in Chunked, row[k] # NoRow
        PROVE  <<row[k], k>> \in chunks
    <3>1. k \in DOMAIN Stored /\ row[k] = Stored[k].owner
      BY <2>1, StoreAssumption DEF Init
    <3>2. Stored[k].owner \in Stored[k].chunks /\ Stored[k].owner \in Tickers
      BY <3>1, StoreAssumption
    <3> QED
      BY <3>1, <3>2 DEF Init
  <2> QED
    BY <2>1 DEF OwnersHaveEvidence
<1> QED
  BY <1>1, <1>4, <1>5, <1>6, <1>7 DEF Inv

\* Every step of a run keeps the inductive invariant.
LEMMA RunKeeps ==
  ASSUME Inv, NEW r \in Runs, Fetch(r) \/ Persist(r) \/ Kill(r), UNCHANGED ask
  PROVE  Inv'
<1>1. Shape'
  BY ShapeKept DEF Inv
<1>2. CASE Fetch(r) \/ Archive(r)
  BY <1>1, <1>2, FetchForm, QuietKeeps DEF Inv
<1>3. CASE Commit(r)
  BY <1>1, <1>3, CommitKeeps DEF Inv
<1>4. CASE (Persist(r) \/ Kill(r)) /\ ~Commit(r) /\ ~Archive(r)
  BY <1>1, <1>4, PersistForm, QuietKeeps DEF Inv
<1> QED
  BY <1>2, <1>3, <1>4

-----------------------------------------------------------------------------
(* Theorems. *)

\* However ingestions, provider answers and the clean-up interleave: sessions are
\* whole, what they write they alone write, and the clean-up's deletions are excused.
THEOREM Invariance ==
  Spec => []Inv
<1>1. ASSUME Inv, Next
      PROVE  Inv'
  <2>1. CASE \E r \in Runs : Fetch(r) \/ Persist(r) \/ Kill(r)
    BY <1>1, <2>1, RunKeeps DEF Next
  <2>2. CASE CleanUp
    BY <1>1, <2>2, CleanUpKeeps, ShapeSwept DEF Next, Inv
  <2>3. CASE \E c \in CacheKeys : Expire(c)
    <3>1. UNCHANGED <<ask, pc, got, session, store, sweep, swept>>
      BY <1>1, <2>3 DEF Next, Expire, history
    <3> QED
      BY <1>1, <3>1, SameKeeps
  <2> QED
    BY <1>1, <2>1, <2>2, <2>3 DEF Next
<1>2. ASSUME Inv, UNCHANGED vars
      PROVE  Inv'
  BY <1>2, SameKeeps DEF vars, fetch, history
<1>3. Inv /\ [Next]_vars => Inv'
  BY <1>1, <1>2
<1> QED
  BY <1>3, InitInvariant, PTL DEF Spec

\* No row is written by two open transactions, a document and its row are stored
\* together, and a session that has ended leaves nothing behind.
THEOREM WritesAreExclusiveAlways ==
  Spec => []WritesAreExclusive
<1>1. Inv => WritesAreExclusive
  BY DEF Inv
<1> QED
  BY <1>1, Invariance, PTL

\* The ticker a stored disclosure or news row names has its own evidence of it, unless
\* the clean-up deleted it after a run of that ticker committed while it was open.
THEOREM OwnersHaveEvidenceAlways ==
  Spec => []OwnersHaveEvidence
<1>1. Inv => OwnersHaveEvidence
  BY DEF Inv
<1> QED
  BY <1>1, Invariance, PTL

-----------------------------------------------------------------------------
(* The items that sessions have passed. *)

\* What a run has got is a sequence of keys, and it keeps places in it.
LEMMA ItemShape ==
  ASSUME FetchInv, NEW r \in Runs
  PROVE  /\ Items(r) \in Seq(Keys) /\ DOMAIN Items(r) = 1..Len(Items(r)) /\ Len(Items(r)) \in Nat
         /\ Kept(r) \subseteq DOMAIN Items(r) /\ Kept(r) \subseteq Nat
         /\ \A i \in Kept(r) : Items(r)[i] \in Keys /\ Items(r)[i] \in ToSet(Items(r))
<1>1. Items(r) \in Seq(Keys)
  BY DEF FetchInv, FetchTypeOK, Results, Items
<1>2. DOMAIN Items(r) = 1..Len(Items(r)) /\ Len(Items(r)) \in Nat
  BY <1>1, LenProperties
<1>3. Kept(r) \subseteq DOMAIN Items(r)
  BY DEF Kept
<1>4. Kept(r) \subseteq Nat
  BY <1>2, <1>3
<1>5. \A i \in Kept(r) : Items(r)[i] \in Keys
  BY <1>1, <1>2, <1>3, ElementOfSeq
<1>6. \A i \in Kept(r) : Items(r)[i] \in ToSet(Items(r))
  BY <1>3 DEF ToSet
<1> QED
  BY <1>1, <1>2, <1>3, <1>4, <1>5, <1>6

\* A run has got only items its calls serve, and the provider has answered.
LEMMA ServedItems ==
  ASSUME FetchInv, NEW r \in Runs
  PROVE  ToSet(Items(r)) \subseteq Served(r) /\ ToSet(Items(r)) \subseteq Supplied(CacheKeys)
<1>0. FetchTypeOK /\ GotRests(r) /\ PlaceRests(r)
  BY DEF FetchInv, CallsRest
<1>1. PICK taken : taken = {Parts(r)[i] : i \in 1..(place[r].part - 1)}
  OBVIOUS
<1>2. taken \subseteq ToSet(Parts(r))
  <2>1. 1..(place[r].part - 1) \subseteq 1..Len(Parts(r))
    <3>1. place[r].part \in 1..(Len(Parts(r)) + 1) /\ Len(Parts(r)) \in 1..2
      BY <1>0, AskShape DEF PlaceRests
    <3> QED
      BY <3>1
  <2> QED
    BY <1>0, <1>1, <2>1, AskShape
<1>3. ToSet(Items(r)) \subseteq UNION {Supplied(Sources(p)) : p \in taken}
  BY <1>0, <1>1 DEF GotRests
<1>4. ASSUME NEW p \in taken
      PROVE  Supplied(Sources(p)) \subseteq Served(r) /\ Supplied(Sources(p)) \subseteq Supplied(CacheKeys)
  <2>1. Sources(p) \subseteq CallKeys(r)
    BY <1>2 DEF Sources, CallKeys
  <2>2. answered \subseteq CacheKeys
    BY <1>0 DEF FetchTypeOK
  <2>3. Supplied(Sources(p)) \subseteq Served(r)
    BY <2>1 DEF Supplied, Served
  <2>4. Supplied(Sources(p)) \subseteq Supplied(CacheKeys)
    BY <2>2 DEF Supplied
  <2> QED
    BY <2>3, <2>4
<1> QED
  BY <1>3, <1>4

\* A session with at most one write more is still placed.
LEMMA PlacedAfter ==
  ASSUME FetchInv, NEW r \in Runs, SessionIsPlaced(r), Items(r)' = Items(r), Kept(r)' = Kept(r),
         pos[r] \in Nat, NEW new,
         dirty'[r] \cup held'[r] \subseteq (dirty[r] \cup held[r]) \cup new,
         \A w \in new :
           /\ w.pos = pos[r] /\ pos[r] \in Kept(r) /\ w.key = Item(r) /\ (w.what = "chunk" => w.key \in Chunked)
           /\ \A v \in dirty[r] \cup held[r] : v.pos = pos[r] => v.what # w.what
           /\ \A v \in new : v = w,
         \/ pos'[r] = pos[r] + 1
         \/ /\ pos'[r] = pos[r]
            /\ \A v \in dirty'[r] \cup held'[r] : v.pos = pos[r] =>
                 pc'[r] \in Dealing /\ v.what # "row" /\ (v.what = "chunk" => pc'[r] = "row"),
         pc'[r] \in Dealing => pos'[r] \in Kept(r),
         pc'[r] \in {"chunk", "savepoint", "reselect"} => Item(r)' \in Chunked
  PROVE  SessionIsPlaced(r)'
<1>0. Item(r) = Items(r)[pos[r]]
  BY DEF Item
<1>1. \A w \in dirty[r] \cup held[r] : WriteIsPlaced(r, w)
  BY DEF SessionIsPlaced
<1>2. ASSUME NEW w \in dirty'[r] \cup held'[r]
      PROVE  /\ w.pos \in Kept(r) /\ w.key = Items(r)[w.pos] /\ w.pos <= pos[r]
             /\ w.what = "chunk" => w.key \in Chunked
  <2>1. CASE w \in dirty[r] \cup held[r]
    BY <1>1, <2>1 DEF WriteIsPlaced
  <2>2. CASE w \in new
    BY <1>0, <2>2
  <2> QED
    BY <2>1, <2>2
<1>3. Kept(r) \subseteq Nat
  BY ItemShape
<1>4. ASSUME NEW w \in dirty'[r] \cup held'[r]
      PROVE  WriteIsPlaced(r, w)'
  <2>1. w.pos <= pos'[r] /\ (pos'[r] = pos[r] + 1 => w.pos # pos'[r])
    BY <1>2, <1>3
  <2> QED
    BY <1>2, <2>1 DEF WriteIsPlaced
<1>5. ASSUME NEW w \in dirty'[r] \cup held'[r], NEW v \in dirty'[r] \cup held'[r], v.what = w.what, v.pos = w.pos
      PROVE  v = w
  <2>1. CASE w \in dirty[r] \cup held[r] /\ v \in dirty[r] \cup held[r]
    BY <1>5, <2>1 DEF SessionIsPlaced
  <2>2. CASE w \in new
    BY <1>5, <2>2
  <2>3. CASE v \in new
    BY <1>5, <2>3
  <2> QED
    BY <2>1, <2>2, <2>3
<1> QED
  BY <1>4, <1>5 DEF SessionIsPlaced

\* So is one without a new write.
LEMMA PlacedSame ==
  ASSUME FetchInv, NEW r \in Runs, SessionIsPlaced(r), Items(r)' = Items(r), Kept(r)' = Kept(r),
         pos[r] \in Nat,
         dirty'[r] \cup held'[r] \subseteq dirty[r] \cup held[r],
         \/ pos'[r] = pos[r] + 1
         \/ /\ pos'[r] = pos[r]
            /\ \A v \in dirty'[r] \cup held'[r] : v.pos = pos[r] =>
                 pc'[r] \in Dealing /\ v.what # "row" /\ (v.what = "chunk" => pc'[r] = "row"),
         pc'[r] \in Dealing => pos'[r] \in Kept(r),
         pc'[r] \in {"chunk", "savepoint", "reselect"} => Item(r)' \in Chunked
  PROVE  SessionIsPlaced(r)'
<1>1. PICK new : new = {}
  OBVIOUS
<1>2. dirty'[r] \cup held'[r] \subseteq (dirty[r] \cup held[r]) \cup new
  BY <1>1
<1>3. \A w \in new :
        /\ w.pos = pos[r] /\ pos[r] \in Kept(r) /\ w.key = Item(r) /\ (w.what = "chunk" => w.key \in Chunked)
        /\ \A v \in dirty[r] \cup held[r] : v.pos = pos[r] => v.what # w.what
        /\ \A v \in new : v = w
  BY <1>1
<1> QED
  BY <1>2, <1>3, PlacedAfter

\* Nothing of the calls changes for a run, and nothing at all for the others.
SessionOnly(r) ==
  /\ UNCHANGED <<ask, got>>
  /\ \A q \in Runs \ {r} : pc'[q] = pc[q] /\ pos'[q] = pos[q] /\ dirty'[q] = dirty[q] /\ held'[q] = held[q]

\* A session that nothing happens to is still placed.
LEMMA OthersPlaced ==
  ASSUME NEW q \in Runs, SessionIsPlaced(q), UNCHANGED ask, got'[q] = got[q], pc'[q] = pc[q], pos'[q] = pos[q],
         dirty'[q] = dirty[q], held'[q] = held[q]
  PROVE  SessionIsPlaced(q)'
<1>1. Items(q)' = Items(q) /\ Kept(q)' = Kept(q) /\ Item(q)' = Item(q)
  BY ItemStays
<1> QED
  BY <1>1 DEF SessionIsPlaced, WriteIsPlaced

\* An empty session is placed.
LEMMA EmptyPlaced ==
  ASSUME NEW r \in Runs, dirty'[r] = {}, held'[r] = {}, pc'[r] \notin Dealing
  PROVE  SessionIsPlaced(r)'
BY DEF SessionIsPlaced, Dealing

\* What a write of a run is.
LEMMA WriteShape ==
  ASSUME FetchInv, NEW r \in Runs, pos[r] \in Kept(r),
         NEW what \in {"doc", "chunk", "row"}, NEW make \in BOOLEAN, NEW own \in BOOLEAN
  PROVE  \E w \in Writes :
           /\ w = Write(r, what, make, own) /\ w.what = what /\ w.key = Item(r) /\ w.pos = pos[r]
           /\ w.make = make /\ w.own = own
<1>1. Item(r) \in Keys /\ pos[r] \in Nat
  BY ItemShape DEF Item
<1>2. PICK w : w = Write(r, what, make, own)
  OBVIOUS
<1>3. /\ w \in Writes /\ w.what = what /\ w.key = Item(r) /\ w.pos = pos[r]
      /\ w.make = make /\ w.own = own
  BY <1>1, <1>2 DEF Write, Writes
<1> QED
  BY <1>2, <1>3

\* The sessions of all runs have their types.
SessionTypeOK ==
  /\ pos \in [Runs -> Nat]
  /\ dirty \in [Runs -> SUBSET Writes] /\ held \in [Runs -> SUBSET Writes]

\* A session that touches a row has at most that write more.
LEMMA TouchTypes ==
  ASSUME SessionTypeOK, NEW r \in Runs, NEW w \in Writes, Touch(r, w), UNCHANGED held
  PROVE  /\ dirty' \in [Runs -> SUBSET Writes]
         /\ dirty'[r] \cup held'[r] \subseteq (dirty[r] \cup held[r]) \cup {w}
         /\ dirty'[r] \in {dirty[r], dirty[r] \cup {w}}
         /\ \A q \in Runs \ {r} : dirty'[q] = dirty[q]
<1>1. PICK D : D \in {dirty[r], dirty[r] \cup {w}} /\ dirty' = [dirty EXCEPT ![r] = D]
  BY DEF Touch
<1>2. D \subseteq Writes
  BY <1>1 DEF SessionTypeOK
<1> QED
  BY <1>1, <1>2 DEF SessionTypeOK

\* The persisting steps of a run keep its session placed.
LEMMA PersistPlaced ==
  ASSUME Inv, FetchInv, SessionTypeOK, NEW r \in Runs, SessionIsPlaced(r), Persist(r) \/ Kill(r), UNCHANGED ask
  PROVE  SessionIsPlaced(r)' /\ SessionTypeOK' /\ SessionOnly(r)
<1> DEFINE W == dirty[r] \cup held[r]
<1>0. pc \in [Runs -> Labels] /\ pos[r] \in Nat
  BY DEF FetchInv, FetchTypeOK, SessionTypeOK
<1>a. SessionIsWhole(r)
  BY DEF Inv, SessionsAreWhole
<1>b. got' = got => Items(r)' = Items(r) /\ Kept(r)' = Kept(r) /\ (pos'[r] = pos[r] => Item(r)' = Item(r))
  BY ItemStays
<1>c. \A v \in W : WriteIsPlaced(r, v)
  BY DEF SessionIsPlaced
<1>n. \A l : pc' = [pc EXCEPT ![r] = l] => pc'[r] = l /\ \A q \in Runs \ {r} : pc'[q] = pc[q]
  BY <1>0
<1>d. ASSUME UNCHANGED <<pos, got, dirty, held>>, NEW l, pc' = [pc EXCEPT ![r] = l],
             \/ pc[r] \notin Dealing
             \/ pc[r] \in Dealing \ {"row"} /\ l \in Dealing,
             l \in Dealing => pos[r] \in Kept(r),
             l \in {"chunk", "savepoint", "reselect"} => Item(r) \in Chunked
      PROVE  SessionIsPlaced(r)' /\ SessionTypeOK' /\ SessionOnly(r)
  <2>1. \A v \in dirty'[r] \cup held'[r] : v.pos = pos[r] =>
          pc'[r] \in Dealing /\ v.what # "row" /\ (v.what = "chunk" => pc'[r] = "row")
    BY <1>c, <1>d, <1>n DEF WriteIsPlaced, Dealing
  <2>2. SessionIsPlaced(r)'
    <3>1. dirty'[r] \cup held'[r] \subseteq dirty[r] \cup held[r]
      BY <1>d
    <3> HIDE DEF W
    <3>2. pos'[r] = pos[r] /\ pc'[r] = l /\ Items(r)' = Items(r) /\ Kept(r)' = Kept(r) /\ Item(r)' = Item(r)
      BY <1>b, <1>d, <1>n
    <3> USE DEF W
    <3> QED
      BY <1>0, <1>d, <2>1, <3>1, <3>2, PlacedSame
  <2>3. SessionTypeOK'
    BY <1>d DEF SessionTypeOK
  <2> QED
    BY <1>d, <1>n, <2>2, <2>3 DEF SessionOnly
<1>e. ASSUME NEW w \in Writes, w.pos = pos[r], w.key = Item(r), pos[r] \in Kept(r), w.what = "chunk" => Item(r) \in Chunked,
             \A v \in W : v.pos = pos[r] => v.what # w.what,
             UNCHANGED got, dirty' \in [Runs -> SUBSET Writes], held' \in [Runs -> SUBSET Writes],
             dirty'[r] \cup held'[r] \subseteq W \cup {w},
             \A q \in Runs \ {r} : dirty'[q] = dirty[q] /\ held'[q] = held[q],
             NEW l, pc' = [pc EXCEPT ![r] = l],
             \/ pos' = [pos EXCEPT ![r] = @ + 1] /\ l \notin Dealing
             \/ /\ pos' = pos /\ l \in Dealing /\ w.what # "row"
                /\ \A v \in W \cup {w} : v.pos = pos[r] => v.what # "row" /\ (v.what = "chunk" => l = "row")
                /\ l \in {"chunk", "savepoint", "reselect"} => Item(r) \in Chunked
      PROVE  SessionIsPlaced(r)' /\ SessionTypeOK' /\ SessionOnly(r)
  <2>1. pc'[r] = l /\ Items(r)' = Items(r) /\ Kept(r)' = Kept(r)
    BY <1>b, <1>e, <1>n
  <2>2. \/ pos'[r] = pos[r] + 1 /\ l \notin Dealing
        \/ pos'[r] = pos[r] /\ Item(r)' = Item(r)
    BY <1>b, <1>e DEF SessionTypeOK
  <2>3. \A x \in {w} : /\ x.pos = pos[r] /\ pos[r] \in Kept(r) /\ x.key = Item(r) /\ (x.what = "chunk" => x.key \in Chunked)
                       /\ \A v \in dirty[r] \cup held[r] : v.pos = pos[r] => v.what # x.what
                       /\ \A v \in {w} : v = x
    BY <1>e
  <2>4. \/ pos'[r] = pos[r] + 1
        \/ /\ pos'[r] = pos[r]
           /\ \A v \in dirty'[r] \cup held'[r] : v.pos = pos[r] =>
                pc'[r] \in Dealing /\ v.what # "row" /\ (v.what = "chunk" => pc'[r] = "row")
    BY <1>e, <2>1, <2>2 DEF SessionTypeOK
  <2>5. pc'[r] \in Dealing => pos'[r] \in Kept(r)
    BY <1>e, <2>1, <2>2
  <2>6. pc'[r] \in {"chunk", "savepoint", "reselect"} => Item(r)' \in Chunked
    <3>1. {"chunk", "savepoint", "reselect"} \subseteq Dealing
      BY DEF Dealing
    <3> QED
      BY <1>e, <2>1, <2>2, <3>1
  <2>7. SessionIsPlaced(r)'
    BY <1>0, <1>e, <2>1, <2>3, <2>4, <2>5, <2>6, PlacedAfter
  <2>8. SessionTypeOK'
    BY <1>0, <1>e DEF SessionTypeOK
  <2>9. SessionOnly(r)
    BY <1>e, <1>n DEF SessionOnly, SessionTypeOK
  <2> QED
    BY <2>7, <2>8, <2>9
<1>1. CASE Archive(r)
  <2>1. pc[r] \notin Dealing /\ UNCHANGED <<pos, got, dirty, held>>
        /\ \E l \in {"document", "flush", "failed"} : pc' = [pc EXCEPT ![r] = l]
    BY <1>1 DEF Archive, fetch, session, Dealing
  <2> QED
    BY <1>d, <2>1 DEF Dealing
<1>2. CASE Skip(r)
  <2>1. /\ pc[r] = "document" /\ pc' = pc /\ UNCHANGED <<got, dirty, held>>
        /\ pos' = [pos EXCEPT ![r] = @ + 1]
    BY <1>2 DEF Skip, fetch
  <2>2. /\ pos'[r] = pos[r] + 1 /\ pos' \in [Runs -> Nat]
        /\ \A q \in Runs \ {r} : pos'[q] = pos[q]
    BY <2>1 DEF SessionTypeOK
  <2>4. pc'[r] \notin Dealing
    BY <2>1 DEF Dealing
  <2>3. SessionIsPlaced(r)'
    <3>1. dirty'[r] \cup held'[r] \subseteq dirty[r] \cup held[r]
      BY <2>1
    <3>2. pc'[r] \notin {"chunk", "savepoint", "reselect"}
      BY <2>1
    <3> QED
      BY <1>0, <1>b, <2>1, <2>2, <2>4, <3>1, <3>2, PlacedSame
  <2> QED
    BY <2>1, <2>2, <2>3 DEF SessionTypeOK, SessionOnly
<1>3. CASE UpsertDocument(r)
  <2>1. /\ pc[r] = "document" /\ pos[r] \in Kept(r) /\ UNCHANGED <<got, pos, held>>
        /\ \E l \in {"flush document", "chunk", "row"} :
             pc' = [pc EXCEPT ![r] = l] /\ (l = "chunk" => Item(r) \in Chunked)
    BY <1>3 DEF UpsertDocument, Persisting, AfterDocument, fetch
  <2>0. \E make, own \in BOOLEAN : Touch(r, Write(r, "doc", make, own))
    <3>1. CASE Touch(r, Write(r, "doc", FALSE, doc[Item(r)] # Ticker(r)))
      BY <3>1
    <3>2. CASE Touch(r, Write(r, "doc", TRUE, TRUE))
      BY <3>2
    <3> QED
      BY <1>3, <3>1, <3>2 DEF UpsertDocument
  <2>2. PICK w \in Writes : Touch(r, w) /\ w.what = "doc" /\ w.key = Item(r) /\ w.pos = pos[r]
    <3>1. PICK make, own \in BOOLEAN : Touch(r, Write(r, "doc", make, own))
      BY <2>0
    <3>2. \E w \in Writes :
            w = Write(r, "doc", make, own) /\ w.what = "doc" /\ w.key = Item(r) /\ w.pos = pos[r]
      <4>1. pos[r] \in Kept(r)
        BY <2>1
      <4> QED
        BY <4>1, WriteShape
    <3> QED
      BY <3>1, <3>2
  <2>3. \A v \in W : v.pos # pos[r]
    BY <1>c, <2>1 DEF WriteIsPlaced, Dealing
  <2>4. PICK l \in {"flush document", "chunk", "row"} :
          pc' = [pc EXCEPT ![r] = l] /\ (l = "chunk" => Item(r) \in Chunked)
    BY <2>1
  <2>5. /\ dirty' \in [Runs -> SUBSET Writes] /\ dirty'[r] \cup held'[r] \subseteq W \cup {w}
        /\ \A q \in Runs \ {r} : dirty'[q] = dirty[q]
    BY <2>1, <2>2, TouchTypes
  <2>6. l \in Dealing /\ held' \in [Runs -> SUBSET Writes]
    BY <2>1 DEF Dealing, SessionTypeOK
  <2> HIDE DEF W
  <2> QED
    BY <1>e, <2>1, <2>2, <2>3, <2>4, <2>5, <2>6
<1>4. CASE DocumentFlushed(r)
  <2>1. /\ pc[r] = "flush document" /\ UNCHANGED <<pos, got, dirty, held>>
        /\ \E l \in {"chunk", "row"} : pc' = [pc EXCEPT ![r] = l] /\ (l = "chunk" => Item(r) \in Chunked)
    BY <1>4 DEF DocumentFlushed, AfterDocument, fetch, session
  <2>2. pos[r] \in Kept(r) /\ pc[r] \in Dealing \ {"row"}
    BY <2>1 DEF SessionIsPlaced, Dealing
  <2> QED
    BY <1>d, <2>1, <2>2 DEF Dealing
<1>5. CASE UpsertChunk(r) \/ InsertChunk(r) \/ (ReselectChunk(r) /\ pc' = [pc EXCEPT ![r] = "row"])
  <2>1. /\ pc[r] \in {"chunk", "savepoint", "reselect"} /\ UNCHANGED <<got, pos>> /\ pos[r] \in Kept(r)
        /\ pc[r] \in Dealing \ {"row"} /\ Item(r) \in Chunked
    <3>1. pc[r] \in {"chunk", "savepoint", "reselect"} /\ UNCHANGED <<got, pos>>
      BY <1>5 DEF UpsertChunk, InsertChunk, ReselectChunk, Persisting, fetch
    <3> QED
      BY <3>1 DEF SessionIsPlaced, Dealing
  <2>2. CASE \E l \in {"savepoint", "reselect"} : pc' = [pc EXCEPT ![r] = l] /\ UNCHANGED <<dirty, held>>
    BY <1>d, <2>1, <2>2 DEF Dealing
  <2>3. ASSUME NEW w \in Writes, w.what = "chunk", w.key = Item(r), w.pos = pos[r],
               \/ Touch(r, w) /\ UNCHANGED held
               \/ held' = [held EXCEPT ![r] = @ \cup {w}] /\ UNCHANGED dirty,
               pc' = [pc EXCEPT ![r] = "row"]
        PROVE  SessionIsPlaced(r)' /\ SessionTypeOK' /\ SessionOnly(r)
    <3>1. \A v \in W : v.pos = pos[r] => v.what \notin {"chunk", "row"}
      BY <1>c, <2>1 DEF WriteIsPlaced, Dealing
    <3>2. /\ dirty' \in [Runs -> SUBSET Writes] /\ held' \in [Runs -> SUBSET Writes]
          /\ dirty'[r] \cup held'[r] \subseteq W \cup {w}
          /\ \A q \in Runs \ {r} : dirty'[q] = dirty[q] /\ held'[q] = held[q]
      <4>1. CASE Touch(r, w) /\ UNCHANGED held
        BY <4>1, TouchTypes DEF SessionTypeOK
      <4>2. CASE held' = [held EXCEPT ![r] = @ \cup {w}] /\ UNCHANGED dirty
        BY <4>2 DEF SessionTypeOK
      <4> QED
        BY <2>3, <4>1, <4>2
    <3>3. "row" \in Dealing
      BY DEF Dealing
    <3> HIDE DEF W
    <3> QED
      BY <1>e, <2>1, <2>3, <3>1, <3>2, <3>3
  <2>4. \A make, own \in BOOLEAN : \E w \in Writes :
          w = Write(r, "chunk", make, own) /\ w.what = "chunk" /\ w.key = Item(r) /\ w.pos = pos[r]
    BY <2>1, WriteShape
  <2>5. CASE UpsertChunk(r)
    <3>1. \/ Touch(r, Write(r, "chunk", FALSE, FALSE)) /\ pc' = [pc EXCEPT ![r] = "row"] /\ UNCHANGED held
          \/ pc' = [pc EXCEPT ![r] = "savepoint"] /\ UNCHANGED <<dirty, held>>
      BY <2>5 DEF UpsertChunk
    <3> QED
      BY <2>2, <2>3, <2>4, <3>1
  <2>6. CASE InsertChunk(r)
    <3>1. \/ /\ held' = [held EXCEPT ![r] = @ \cup {Write(r, "chunk", TRUE, TRUE)}] /\ UNCHANGED dirty
             /\ pc' = [pc EXCEPT ![r] = "row"]
          \/ pc' = [pc EXCEPT ![r] = "reselect"] /\ UNCHANGED <<dirty, held>>
      BY <2>6 DEF InsertChunk
    <3> QED
      BY <2>2, <2>3, <2>4, <3>1
  <2>7. CASE ReselectChunk(r) /\ pc' = [pc EXCEPT ![r] = "row"]
    <3>1. ~Failed(r)
      <4>1. pc'[r] = "row"
        BY <1>n, <2>7
      <4> QED
        BY <1>n, <4>1 DEF Failed
    <3>2. Touch(r, Write(r, "chunk", FALSE, FALSE)) /\ UNCHANGED held
      BY <2>7, <3>1 DEF ReselectChunk
    <3> QED
      BY <2>3, <2>4, <2>7, <3>2
  <2> QED
    BY <1>5, <2>5, <2>6, <2>7
<1>6. CASE UpsertRow(r)
  <2>1. /\ pc[r] = "row" /\ pos[r] \in Kept(r) /\ UNCHANGED <<got, held>>
        /\ \E make, own \in BOOLEAN : Touch(r, Write(r, "row", make, own))
        /\ pos' = [pos EXCEPT ![r] = @ + 1]
        /\ \E l \in {"document", "flush list"} : pc' = [pc EXCEPT ![r] = l]
    BY <1>6 DEF UpsertRow, Persisting, AfterRow, fetch
  <2>2. PICK w \in Writes : Touch(r, w) /\ w.what = "row" /\ w.key = Item(r) /\ w.pos = pos[r]
    <3>1. PICK make, own \in BOOLEAN : Touch(r, Write(r, "row", make, own))
      BY <2>1
    <3>2. \E w \in Writes :
            /\ w = Write(r, "row", make, own) /\ w.what = "row" /\ w.key = Item(r) /\ w.pos = pos[r]
            /\ w.make = make /\ w.own = own
      <4>1. pos[r] \in Kept(r) /\ make \in BOOLEAN /\ own \in BOOLEAN /\ "row" \in {"doc", "chunk", "row"}
        BY <2>1, <3>1
      <4> HIDE DEF W
      <4> QED
        BY <4>1, WriteShape
    <3> QED
      BY <3>1, <3>2
  <2>3. \A v \in W : v.pos = pos[r] => v.what # "row"
    BY <1>c DEF WriteIsPlaced
  <2>4. /\ dirty' \in [Runs -> SUBSET Writes] /\ dirty'[r] \cup held'[r] \subseteq W \cup {w}
        /\ \A q \in Runs \ {r} : dirty'[q] = dirty[q]
    BY <2>1, <2>2, TouchTypes
  <2>5. "document" \notin Dealing /\ "flush list" \notin Dealing /\ held' \in [Runs -> SUBSET Writes]
    BY <2>1 DEF Dealing, SessionTypeOK
  <2> HIDE DEF W
  <2> QED
    BY <1>e, <2>1, <2>2, <2>3, <2>4, <2>5
<1>7. CASE ListFlushed(r) \/ LastFlush(r)
  <2>1. /\ pc[r] \notin Dealing /\ UNCHANGED <<pos, got, dirty, held>>
        /\ \E l \in {"document", "flush"} : pc' = [pc EXCEPT ![r] = l]
    BY <1>7 DEF ListFlushed, LastFlush, fetch, session, Dealing
  <2> QED
    BY <1>d, <2>1 DEF Dealing
<1>8. ASSUME NEW l \in Ended, pc' = [pc EXCEPT ![r] = l], UNCHANGED <<got, pos>>,
             dirty' = [dirty EXCEPT ![r] = {}], held' = [held EXCEPT ![r] = {}]
      PROVE  SessionIsPlaced(r)' /\ SessionTypeOK' /\ SessionOnly(r)
  <2>1. dirty'[r] = {} /\ held'[r] = {} /\ pc'[r] \notin Dealing
    BY <1>8, <1>n DEF SessionTypeOK, Ended, Dealing
  <2>2. SessionIsPlaced(r)'
    BY <2>1, EmptyPlaced
  <2>3. SessionTypeOK' /\ SessionOnly(r)
    BY <1>8, <1>n DEF SessionTypeOK, SessionOnly
  <2> QED
    BY <2>2, <2>3
<1>9. CASE Flush(r)
  <2>1. PICK w \in dirty[r] :
          \/ Failed(r)
          \/ /\ dirty' = [dirty EXCEPT ![r] = @ \ {w}] /\ held' = [held EXCEPT ![r] = @ \cup {w}]
             /\ UNCHANGED pc
    BY <1>9 DEF Flush
  <2>2. UNCHANGED <<pos, got>>
    BY <1>9 DEF Flush, fetch
  <2>3. CASE Failed(r)
    BY <1>8, <2>2, <2>3 DEF Failed, Ended
  <2>4. CASE /\ dirty' = [dirty EXCEPT ![r] = @ \ {w}] /\ held' = [held EXCEPT ![r] = @ \cup {w}]
             /\ UNCHANGED pc
    <3>1. /\ dirty'[r] \cup held'[r] = dirty[r] \cup held[r] /\ SessionTypeOK'
          /\ \A q \in Runs \ {r} : dirty'[q] = dirty[q] /\ held'[q] = held[q]
      BY <2>2, <2>4 DEF SessionTypeOK
    <3>2. SessionIsPlaced(r)'
      BY <1>b, <2>2, <2>4, <3>1 DEF SessionIsPlaced, WriteIsPlaced
    <3> QED
      BY <2>2, <2>4, <3>1, <3>2 DEF SessionOnly
  <2> QED
    BY <2>1, <2>3, <2>4
<1>10. CASE Commit(r)
  <2>1. /\ pc' = [pc EXCEPT ![r] = Result(r)] /\ Result(r) \in Ended /\ dirty[r] = {} /\ dirty' = dirty
        /\ held' = [held EXCEPT ![r] = {}] /\ UNCHANGED <<got, pos>>
    BY <1>10 DEF Commit, Result, Ended, fetch
  <2>2. dirty' = [dirty EXCEPT ![r] = {}]
    BY <2>1 DEF SessionTypeOK
  <2> QED
    BY <1>8, <2>1, <2>2
<1>11. CASE DataError(r) \/ Victim(r) \/ Kill(r) \/ (ReselectChunk(r) /\ Failed(r))
  <2>1. /\ \E l \in Ended : pc' = [pc EXCEPT ![r] = l]
        /\ UNCHANGED <<got, pos>> /\ dirty' = [dirty EXCEPT ![r] = {}] /\ held' = [held EXCEPT ![r] = {}]
    BY <1>11 DEF DataError, Victim, Kill, ReselectChunk, Failed, Ended, fetch
  <2> QED
    BY <1>8, <2>1
<1>12. ReselectChunk(r) => Failed(r) \/ pc' = [pc EXCEPT ![r] = "row"]
  BY DEF ReselectChunk
<1> QED
  BY <1>1, <1>2, <1>3, <1>4, <1>5, <1>6, <1>7, <1>9, <1>10, <1>11, <1>12 DEF Persist

\* The store has its type, sessions are placed, and actors that overlap have met.
PlacedInv == StoreTypeOK /\ ActorsHaveMet /\ \A r \in Runs : SessionIsPlaced(r)

\* The calls of a run leave sessions and the store as they are.
LEMMA FetchLeaves ==
  ASSUME NEW r \in Runs, Fetch(r)
  PROVE  UNCHANGED <<session, store, sweep, archived, swept>> /\ (~Start(r) => UNCHANGED met)
<1>1. CASE Start(r)
  BY <1>1 DEF Start
<1>2. CASE FromCache(r)
  BY <1>2 DEF FromCache, history
<1>3. CASE NotReady(r)
  BY <1>3 DEF NotReady, history
<1>4. CASE RequestResult(r)
  BY <1>4 DEF RequestResult, history
<1>5. CASE Combine(r)
  BY <1>5 DEF Combine, history
<1>6. CASE CacheSet(r)
  BY <1>6 DEF CacheSet, history
<1> QED
  BY <1>1, <1>2, <1>3, <1>4, <1>5, <1>6 DEF Fetch

\* The upserts of a run leave the clean-up as it is, and the store up to the commit.
LEMMA PersistLeaves ==
  ASSUME NEW r \in Runs, Persist(r) \/ Kill(r)
  PROVE  /\ UNCHANGED <<sweep, met>> /\ (~Commit(r) => UNCHANGED <<store, swept>>)
         /\ archived' \subseteq archived \cup {r} /\ archived \subseteq archived'
         /\ ~Archive(r) => UNCHANGED archived
<1>1. CASE Archive(r) \/ Skip(r) \/ UpsertDocument(r) \/ DocumentFlushed(r) \/ UpsertChunk(r)
  BY <1>1 DEF Archive, Skip, UpsertDocument, DocumentFlushed, UpsertChunk, history
<1>2. CASE InsertChunk(r) \/ ReselectChunk(r) \/ UpsertRow(r) \/ ListFlushed(r) \/ LastFlush(r)
  BY <1>2 DEF InsertChunk, ReselectChunk, UpsertRow, ListFlushed, LastFlush, history
<1>5. CASE DataError(r) \/ Victim(r) \/ Kill(r)
  BY <1>5 DEF DataError, Victim, Kill, history
<1>3. CASE Flush(r)
  BY <1>3 DEF Flush, history
<1>4. CASE Commit(r)
  BY <1>4 DEF Commit
<1> QED
  BY <1>1, <1>2, <1>3, <1>4, <1>5 DEF Persist

\* Active runs have met when none becomes active.
LEMMA MetStays ==
  ASSUME ActorsHaveMet, UNCHANGED <<met, sweep>>,
         \A q \in Runs : (Active(q)' => Active(q)) /\ (pc'[q] = "idle" => pc[q] = "idle")
  PROVE  ActorsHaveMet'
BY DEF ActorsHaveMet, Sweeping

\* What a step of the calls does to the sessions.
LEMMA FetchPlaced ==
  ASSUME Inv, FetchInv, PlacedInv, NEW r \in Runs, Fetch(r), UNCHANGED ask
  PROVE  PlacedInv'
<1>0. /\ UNCHANGED <<pos, dirty, held, doc, row, chunks, sweep, archived, swept>>
      /\ ~Start(r) => UNCHANGED met
  BY FetchLeaves DEF session, store
<1>1. /\ pc'[r] \notin Dealing /\ Alone(r) /\ (pc[r] \notin Dealing \cup {"document", "flush list", "flush"})
      /\ pc[r] \in Calling /\ (~Start(r) => pc[r] # "idle")
  <2>1. (Fetches(r) \/ Ends(r)) /\ Alone(r)
    BY FetchForm
  <2>2. pc[r] \in Calling /\ (~Start(r) => pc[r] # "idle")
    BY DEF Fetch, Start, FromCache, NotReady, RequestResult, Combine, CacheSet, Calling
  <2> QED
    BY <2>1, <2>2 DEF Fetches, Ends, Ended, Dealing, Calling
<1>2. dirty[r] = {} /\ held[r] = {}
  BY <1>1 DEF Inv, SessionsAreWhole, SessionIsWhole
<1>3. \A q \in Runs : SessionIsPlaced(q)'
  <2>1. SessionIsPlaced(r)'
    BY <1>0, <1>1, <1>2, EmptyPlaced
  <2>2. ASSUME NEW q \in Runs \ {r}
        PROVE  SessionIsPlaced(q)'
    BY <1>0, <1>1, OthersPlaced DEF Alone, PlacedInv
  <2> QED
    BY <2>1, <2>2
<1>4. CASE Start(r)
  <2>1. /\ pc[r] = "idle" /\ pc' = [pc EXCEPT ![r] = IF Ticker(r) \in Registered THEN "look" ELSE "failed"]
        /\ met' = [q \in Runs |->
             IF q = r THEN {x \in Runs : Active(x)} \cup (IF Sweeping THEN {Sweeper} ELSE {})
             ELSE IF Active(q) THEN met[q] \cup {r} ELSE met[q]]
    BY <1>4 DEF Start
  <2>2. met' \in [Runs -> SUBSET (Runs \cup {Sweeper})]
    BY <2>1 DEF PlacedInv, StoreTypeOK
  <2>3. pc'[r] \in {"look", "failed"} /\ \A q \in Runs \ {r} : pc'[q] = pc[q]
    BY <2>1 DEF FetchInv, FetchTypeOK
  <2>4. ActorsHaveMet'
    <3>1. \A q \in Runs \ {r} : Active(q)' <=> Active(q)
      BY <2>3 DEF Active
    <3>2. ~Active(r) /\ (Sweeping' <=> Sweeping)
      BY <1>0, <2>1 DEF Active, Sweeping
    <3>3. ASSUME NEW p \in Runs, NEW q \in Runs, p # q, Active(p)', Active(q)'
          PROVE  q \in met'[p]
      <4>1. CASE p = r
        BY <2>1, <3>1, <3>3, <4>1
      <4>2. CASE q = r
        BY <2>1, <3>1, <3>3, <4>2
      <4>3. CASE p # r /\ q # r
        <5>1. q \in met[p]
          BY <3>1, <3>3, <4>3 DEF PlacedInv, ActorsHaveMet
        <5> QED
          BY <2>1, <4>3, <5>1
      <4> QED
        BY <4>1, <4>2, <4>3
    <3>4. ASSUME NEW p \in Runs, Active(p)', Sweeping
          PROVE  Sweeper \in met'[p]
      BY <2>1, <3>1, <3>4 DEF PlacedInv, ActorsHaveMet
    <3>5. ASSUME NEW p \in Runs, pc'[p] = "idle"
          PROVE  met'[p] = {}
      <4>1. p # r /\ pc[p] = "idle" /\ ~Active(p)
        BY <2>3, <3>5 DEF Active
      <4> QED
        BY <2>1, <4>1 DEF PlacedInv, ActorsHaveMet
    <3> QED
      BY <3>2, <3>3, <3>4, <3>5 DEF ActorsHaveMet
  <2> QED
    BY <1>0, <1>3, <2>2, <2>4 DEF PlacedInv, StoreTypeOK
<1>5. CASE ~Start(r)
  <2>1. ActorsHaveMet'
    <3>1. Active(r) /\ pc'[r] # "idle"
      <4>1. pc'[r] # "idle"
        <5>1. (Fetches(r) \/ Ends(r)) /\ pc[r] # "idle"
          BY <1>1, <1>5, FetchForm
        <5>2. \E l \in Labels \ {"idle"} : pc' = [pc EXCEPT ![r] = l]
          <6>1. CASE FromCache(r)
            <7>1. \E l \in {"archive", "look", "request", "unready"} : pc' = [pc EXCEPT ![r] = l]
              BY <6>1 DEF FromCache, TakePart
            <7> QED
              BY <7>1 DEF Labels
          <6>2. CASE NotReady(r) \/ Combine(r)
            BY <6>2 DEF NotReady, Combine, Note, Labels
          <6>3. CASE RequestResult(r)
            BY <6>3 DEF RequestResult, Note, Labels
          <6>4. CASE CacheSet(r)
            <7>1. \E l \in {"archive", "look", "combine", "request", "failed"} : pc' = [pc EXCEPT ![r] = l]
              BY <6>4 DEF CacheSet, TakePart, TakeStatements
            <7> QED
              BY <7>1 DEF Labels, Ended
          <6> QED
            BY <1>5, <6>1, <6>2, <6>3, <6>4 DEF Fetch
        <5> QED
          BY <5>2 DEF FetchInv, FetchTypeOK
      <4> QED
        BY <1>1, <1>5, <4>1 DEF Active, Calling, Ended
    <3>2. \A q \in Runs : (Active(q)' => Active(q)) /\ (pc'[q] = "idle" => pc[q] = "idle")
      BY <1>1, <3>1 DEF Active, Alone
    <3> QED
      BY <1>0, <1>5, <3>2, MetStays DEF PlacedInv
  <2> QED
    BY <1>0, <1>3, <1>5, <2>1 DEF PlacedInv, StoreTypeOK
<1> QED
  BY <1>4, <1>5

\* A commit stores what the session holds.
LEMMA CommitTypes ==
  ASSUME FetchInv, StoreTypeOK, NEW r \in Runs, SessionIsPlaced(r), Commit(r)
  PROVE  /\ doc' \in [Keys -> Tickers \cup {NoRow}] /\ row' \in [Keys -> Tickers \cup {NoRow}]
         /\ chunks' \subseteq Tickers \X Chunked
         /\ swept' \in [owners : SUBSET (Tickers \X Keys), lost : SUBSET (Tickers \X Keys)]
<1>1. Ticker(r) \in Tickers
  BY AskShape DEF FetchInv
<1>2. \A w \in held[r] : w.key \in Keys /\ (w.what = "chunk" => w.key \in Chunked)
  <2>1. \A w \in held[r] : w \in Writes
    BY DEF StoreTypeOK
  <2> QED
    BY <2>1 DEF Writes, SessionIsPlaced, WriteIsPlaced
<1>3. doc' \in [Keys -> Tickers \cup {NoRow}]
  BY <1>1 DEF Commit, StoreTypeOK
<1>4. row' \in [Keys -> Tickers \cup {NoRow}]
  BY <1>1 DEF Commit, StoreTypeOK
<1>5. chunks' \subseteq Tickers \X Chunked
  BY <1>1, <1>2 DEF Commit, StoreTypeOK
<1>6. swept' \in [owners : SUBSET (Tickers \X Keys), lost : SUBSET (Tickers \X Keys)]
  <2> DEFINE more == {<<Ticker(r), w.key>> : w \in held[r]}
  <2>1. more \subseteq Tickers \X Keys
    BY <1>1, <1>2
  <2>2. swept' = IF Sweeping THEN [swept EXCEPT !.owners = swept.owners \cup more] ELSE swept
    BY DEF Commit
  <2> HIDE DEF more
  <2> QED
    BY <2>1, <2>2 DEF StoreTypeOK
<1> QED
  BY <1>3, <1>4, <1>5, <1>6

\* So do the upserts.
LEMMA SessionPlaced ==
  ASSUME Inv, FetchInv, PlacedInv, NEW r \in Runs, Persist(r) \/ Kill(r), UNCHANGED ask
  PROVE  PlacedInv'
<1>0. /\ SessionIsPlaced(r)' /\ SessionTypeOK' /\ SessionOnly(r)
      /\ UNCHANGED <<sweep, met>> /\ (~Commit(r) => UNCHANGED <<doc, row, chunks, swept>>)
      /\ archived' \subseteq Runs
  BY PersistPlaced, PersistLeaves DEF PlacedInv, StoreTypeOK, SessionTypeOK, store
<1>1. \A q \in Runs : SessionIsPlaced(q)'
  <2>1. ASSUME NEW q \in Runs \ {r}
        PROVE  SessionIsPlaced(q)'
    BY <1>0, OthersPlaced DEF SessionOnly, PlacedInv
  <2> QED
    BY <1>0, <2>1
<1>2. ActorsHaveMet'
  <2>1. /\ pc'[r] \notin Calling /\ \A q \in Runs \ {r} : pc'[q] = pc[q]
        /\ pc'[r] \in {"failed", "dead"} \/ pc[r] \notin Calling \cup Ended
    BY PersistKeepsCalls
  <2>2. \A q \in Runs : (Active(q)' => Active(q)) /\ (pc'[q] = "idle" => pc[q] = "idle")
    BY <2>1 DEF Active, Calling, Ended
  <2> QED
    BY <1>0, <2>2, MetStays DEF PlacedInv
<1>3. CASE Commit(r)
  <2>1. /\ doc' \in [Keys -> Tickers \cup {NoRow}] /\ row' \in [Keys -> Tickers \cup {NoRow}]
        /\ chunks' \subseteq Tickers \X Chunked
        /\ swept' \in [owners : SUBSET (Tickers \X Keys), lost : SUBSET (Tickers \X Keys)]
    BY <1>3, CommitTypes DEF PlacedInv
  <2> QED
    BY <1>0, <1>1, <1>2, <2>1 DEF PlacedInv, StoreTypeOK, SessionTypeOK
<1>4. CASE ~Commit(r)
  BY <1>0, <1>1, <1>2, <1>4 DEF PlacedInv, StoreTypeOK, SessionTypeOK
<1> QED
  BY <1>3, <1>4

\* So does the clean-up.
LEMMA CleanUpPlaced ==
  ASSUME Inv, FetchInv, PlacedInv, CleanUp, UNCHANGED ask
  PROVE  PlacedInv'
<1>0. UNCHANGED <<pc, got, pos, dirty, held, doc, row, archived>>
  BY DEF CleanUp, Select, Delete, CommitSweep, SweepVictim, fetch, session, store, history
<1>1. \A q \in Runs : SessionIsPlaced(q)'
  BY <1>0, OthersPlaced DEF PlacedInv
<1>2. chunks \subseteq Tickers \X Keys
  BY StoreAssumption DEF PlacedInv, StoreTypeOK
<1>t. sweep \in [pc : {"idle", "deleting", "done"}, stale : SUBSET (Tickers \X Keys), gone : SUBSET (Tickers \X Keys)]
  BY DEF PlacedInv, StoreTypeOK
<1>u. swept \in [owners : SUBSET (Tickers \X Keys), lost : SUBSET (Tickers \X Keys)]
  BY DEF PlacedInv, StoreTypeOK
<1>3. CASE Select
  <2>1. Stale \subseteq Tickers \X Keys
    BY <1>2 DEF Stale
  <2>2. /\ sweep' = [pc |-> "deleting", stale |-> Stale, gone |-> {}] /\ UNCHANGED chunks
        /\ met' = [r \in Runs |-> IF Active(r) THEN met[r] \cup {Sweeper} ELSE met[r]]
        /\ swept' = [swept EXCEPT !.owners = {}]
    BY <1>3 DEF Select, store
  <2>3. sweep' \in [pc : {"idle", "deleting", "done"}, stale : SUBSET (Tickers \X Keys), gone : SUBSET (Tickers \X Keys)]
    BY <2>1, <2>2
  <2>4. swept' \in [owners : SUBSET (Tickers \X Keys), lost : SUBSET (Tickers \X Keys)]
    BY <1>u, <2>2
  <2>5. met' \in [Runs -> SUBSET (Runs \cup {Sweeper})]
    BY <2>2 DEF PlacedInv, StoreTypeOK
  <2>6. \A q \in Runs : Active(q)' <=> Active(q)
    BY <1>0 DEF Active
  <2>7. ActorsHaveMet'
    BY <1>0, <2>2, <2>6 DEF PlacedInv, ActorsHaveMet, Active
  <2> QED
    BY <1>0, <1>1, <2>2, <2>3, <2>4, <2>5, <2>7 DEF PlacedInv, StoreTypeOK
<1>4. CASE Delete
  <2>1. /\ \E c \in sweep.stale :
             sweep' = [sweep EXCEPT !.stale = @ \ {c}, !.gone = @ \cup ({c} \cap chunks)]
        /\ UNCHANGED <<chunks, met, swept>>
    BY <1>4 DEF Delete, store, history
  <2>2. PICK c \in sweep.stale : sweep' = [sweep EXCEPT !.stale = @ \ {c}, !.gone = @ \cup ({c} \cap chunks)]
    BY <2>1
  <2>3. /\ sweep' \in [pc : {"idle", "deleting", "done"}, stale : SUBSET (Tickers \X Keys), gone : SUBSET (Tickers \X Keys)]
        /\ sweep'.pc = sweep.pc
    BY <1>2, <1>t, <2>2
  <2>4. ActorsHaveMet'
    BY <1>0, <2>1, <2>3 DEF PlacedInv, ActorsHaveMet, Active, Sweeping
  <2> QED
    BY <1>0, <1>1, <2>1, <2>3, <2>4 DEF PlacedInv, StoreTypeOK
<1>5. CASE CommitSweep \/ SweepVictim
  <2>1. /\ chunks' \subseteq chunks /\ met' = met /\ sweep'.pc = "done"
        /\ sweep' = [sweep EXCEPT !.pc = "done", !.gone = {}] \/ sweep' = [pc |-> "done", stale |-> {}, gone |-> {}]
        /\ swept' = swept \/ swept' = [swept EXCEPT !.lost = @ \cup (sweep.gone \cap swept.owners)]
    <3>1. CASE CommitSweep
      BY <1>t, <3>1 DEF CommitSweep
    <3>2. CASE SweepVictim
      BY <3>2 DEF SweepVictim, store, history
    <3> QED
      BY <1>5, <3>1, <3>2
  <2>2. sweep' \in [pc : {"idle", "deleting", "done"}, stale : SUBSET (Tickers \X Keys), gone : SUBSET (Tickers \X Keys)]
    <3>1. CASE sweep' = [sweep EXCEPT !.pc = "done", !.gone = {}]
      BY <1>t, <3>1
    <3>2. CASE sweep' = [pc |-> "done", stale |-> {}, gone |-> {}]
      BY <3>2
    <3> QED
      BY <2>1, <3>1, <3>2
  <2>3. swept' \in [owners : SUBSET (Tickers \X Keys), lost : SUBSET (Tickers \X Keys)]
    BY <1>t, <1>u, <2>1
  <2>4. ActorsHaveMet'
    BY <1>0, <2>1 DEF PlacedInv, ActorsHaveMet, Active, Sweeping
  <2> QED
    BY <1>0, <1>1, <2>1, <2>2, <2>3, <2>4 DEF PlacedInv, StoreTypeOK
<1> QED
  BY <1>3, <1>4, <1>5 DEF CleanUp

\* At first every session is empty.
LEMMA InitPlaced ==
  Init => PlacedInv
<1> SUFFICES ASSUME Init PROVE PlacedInv
  OBVIOUS
<1>1. /\ pc = [r \in Runs |-> "idle"] /\ pos = [r \in Runs |-> 1]
      /\ dirty = [r \in Runs |-> {}] /\ held = [r \in Runs |-> {}]
      /\ doc = [k \in Keys |-> IF k \in DOMAIN Stored THEN Stored[k].owner ELSE NoRow] /\ row = doc
      /\ chunks = {c \in Tickers \X Chunked : c[2] \in DOMAIN Stored /\ c[1] \in Stored[c[2]].chunks}
      /\ sweep = [pc |-> "idle", stale |-> {}, gone |-> {}]
      /\ met = [r \in Runs |-> {}] /\ swept = [owners |-> {}, lost |-> {}] /\ archived = {}
  BY DEF Init
<1>2. \A k \in DOMAIN Stored : Stored[k].owner \in Tickers
  BY StoreAssumption
<1>3. doc \in [Keys -> Tickers \cup {NoRow}] /\ row \in [Keys -> Tickers \cup {NoRow}]
  BY <1>1, <1>2
<1>4. /\ sweep \in [pc : {"idle", "deleting", "done"}, stale : SUBSET (Tickers \X Keys), gone : SUBSET (Tickers \X Keys)]
      /\ swept \in [owners : SUBSET (Tickers \X Keys), lost : SUBSET (Tickers \X Keys)]
  BY <1>1
<1>5. pos \in [Runs -> Nat] /\ dirty \in [Runs -> SUBSET Writes] /\ held \in [Runs -> SUBSET Writes]
  BY <1>1
<1>6. /\ chunks \subseteq Tickers \X Chunked /\ met \in [Runs -> SUBSET (Runs \cup {Sweeper})]
      /\ archived \subseteq Runs
  BY <1>1
<1>7. ActorsHaveMet
  BY <1>1 DEF ActorsHaveMet, Active, Sweeping
<1>8. \A r \in Runs : SessionIsPlaced(r)
  BY <1>1 DEF SessionIsPlaced, Dealing
<1> QED
  BY <1>3, <1>4, <1>5, <1>6, <1>7, <1>8 DEF PlacedInv, StoreTypeOK

\* Sessions stay where they are while no run and no clean-up takes a step.
LEMMA SamePlaced ==
  ASSUME PlacedInv, UNCHANGED <<ask, pc, got, session, store, sweep, history>>
  PROVE  PlacedInv'
<1>1. \A q \in Runs : SessionIsPlaced(q)'
  BY OthersPlaced DEF PlacedInv, session
<1>2. ActorsHaveMet'
  BY DEF PlacedInv, ActorsHaveMet, Active, Sweeping, history
<1> QED
  BY <1>1, <1>2 DEF PlacedInv, StoreTypeOK, session, store, history

\* Every step keeps the sessions placed.
LEMMA PlacedStep ==
  ASSUME Inv, FetchInv, PlacedInv, [Next]_vars
  PROVE  PlacedInv'
<1>1. CASE Next
  <2>1. CASE \E r \in Runs : Fetch(r) \/ Persist(r) \/ Kill(r)
    BY <1>1, <2>1, FetchPlaced, SessionPlaced DEF Next
  <2>2. CASE CleanUp
    BY <1>1, <2>2, CleanUpPlaced DEF Next
  <2>3. CASE \E c \in CacheKeys : Expire(c)
    <3>1. UNCHANGED <<ask, pc, got, session, store, sweep, history>>
      BY <1>1, <2>3 DEF Next, Expire
    <3> QED
      BY <3>1, SamePlaced
  <2> QED
    BY <1>1, <2>1, <2>2, <2>3 DEF Next
<1>2. CASE UNCHANGED vars
  BY <1>2, SamePlaced DEF vars, fetch
<1> QED
  BY <1>1, <1>2

\* Whatever overlaps, a session writes each row of the items it has passed once, and
\* actors that overlap have met.
THEOREM SessionsStayPlaced ==
  Spec => []PlacedInv
<1>1. Inv /\ FetchInv /\ PlacedInv /\ [Next]_vars => PlacedInv'
  BY PlacedStep
<1> QED
  BY <1>1, InitPlaced, Invariance, CallsAlwaysRest, PTL DEF Spec

\* Each variable has its type.
THEOREM TypeIsInvariant ==
  Spec => []TypeOK
<1>1. FetchInv /\ PlacedInv => TypeOK
  BY DEF FetchInv, PlacedInv, TypeOK
<1> QED
  BY <1>1, CallsAlwaysRest, SessionsStayPlaced, PTL

-----------------------------------------------------------------------------
(* Nothing is stored that no provider has answered. *)

\* No run and no clean-up takes a step; a cache entry may expire.
Idles ==
  /\ UNCHANGED <<ask, pc, place, note, got, answered, session, store, sweep, history>>
  /\ \A c \in CacheKeys : cache'[c].there = cache[c].there

\* The steps there are.
LEMMA StepForms ==
  ASSUME FetchInv, [Next]_vars
  PROVE  /\ UNCHANGED ask
         /\ (\E r \in Runs : Fetch(r)) \/ (\E r \in Runs : Persist(r) \/ Kill(r)) \/ CleanUp \/ Idles
<1>1. CASE \E c \in CacheKeys : Expire(c) /\ UNCHANGED ask
  <2>1. PICK x \in CacheKeys : Expire(x) /\ UNCHANGED ask
    BY <1>1
  <2>2. /\ cache' = [cache EXCEPT ![x].live = FALSE]
        /\ UNCHANGED <<pc, place, note, got, answered, session, store, sweep, history>>
    BY <2>1 DEF Expire
  <2>3. \A c \in CacheKeys : cache'[c].there = cache[c].there
    BY <2>2 DEF FetchInv, FetchTypeOK
  <2> QED
    BY <2>1, <2>2, <2>3 DEF Idles
<1>2. CASE UNCHANGED vars
  BY <1>2 DEF vars, fetch, Idles
<1> QED
  BY <1>1, <1>2 DEF Next

\* Where a step of the call leads to.
LEMMA FetchGoes ==
  ASSUME FetchInv, NEW r \in Runs, Fetch(r)
  PROVE  /\ \A q \in Runs \ {r} : pc'[q] = pc[q] /\ note'[q] = note[q] /\ got'[q] = got[q]
         /\ pc'[r] \in Calling \cup {"archive", "failed"} /\ pc[r] \in Calling
         /\ pc'[r] = "failed" =>
              Ticker(r) \notin Registered \/ (pc[r] = "cache" /\ ~note[r].found /\ cache[note[r].key].there)
         /\ pc'[r] = "cache" => note'[r].found = cache'[note'[r].key].there
         /\ ~CacheSet(r) => UNCHANGED cache
         /\ CacheSet(r) => pc[r] = "cache" /\ \A c \in CacheKeys \ {note[r].key} : cache'[c] = cache[c]
<1>t. /\ pc \in [Runs -> Labels] /\ note \in [Runs -> [key : CacheKeys, result : Results, found : BOOLEAN]]
      /\ got \in [Runs -> Results] /\ DOMAIN cache = CacheKeys
  BY DEF FetchInv, FetchTypeOK
<1>1. CASE Start(r)
  <2>1. /\ pc[r] = "idle" /\ pc' = [pc EXCEPT ![r] = IF Ticker(r) \in Registered THEN "look" ELSE "failed"]
        /\ UNCHANGED <<cache, note, got>>
    BY <1>1 DEF Start, fetch
  <2> QED
    BY <1>t, <2>1 DEF CacheSet, Calling
<1>2. CASE FromCache(r)
  <2>1. /\ pc[r] = "look" /\ UNCHANGED <<cache, note>>
        /\ \E l \in {"archive", "look", "request", "unready"} : pc' = [pc EXCEPT ![r] = l]
        /\ got' = got \/ \E g : got' = [got EXCEPT ![r] = g]
    BY <1>2 DEF FromCache, TakePart
  <2> QED
    BY <1>t, <2>1 DEF CacheSet, Calling
<1>3. ASSUME NEW c, NEW result, Note(r, c, result), UNCHANGED <<cache, got>>, pc[r] \in Calling \ {"cache"}
      PROVE  /\ \A q \in Runs \ {r} : pc'[q] = pc[q] /\ note'[q] = note[q] /\ got'[q] = got[q]
             /\ pc'[r] = "cache" /\ note'[r].found = cache'[note'[r].key].there /\ ~CacheSet(r)
  <2>1. note' = [note EXCEPT ![r] = [key |-> c, result |-> result, found |-> cache[c].there]] /\ pc' = [pc EXCEPT ![r] = "cache"]
    BY <1>3 DEF Note
  <2> QED
    BY <1>t, <1>3, <2>1 DEF CacheSet
<1>4. CASE NotReady(r)
  <2>1. Note(r, ThePart(r).spare, Fallback) /\ UNCHANGED <<cache, got>> /\ pc[r] = "unready"
    BY <1>4 DEF NotReady
  <2> QED
    BY <1>3, <2>1 DEF Calling
<1>5. CASE RequestResult(r)
  <2>1. (\E c, result : Note(r, c, result)) /\ UNCHANGED <<cache, got>> /\ pc[r] = "request"
    BY <1>5 DEF RequestResult
  <2> QED
    BY <1>3, <2>1 DEF Calling
<1>6. CASE Combine(r)
  <2>1. (\E c, result : Note(r, c, result)) /\ UNCHANGED <<cache, got>> /\ pc[r] = "combine"
    BY <1>6 DEF Combine
  <2> QED
    BY <1>3, <2>1 DEF Calling
<1>7. CASE CacheSet(r)
  <2>1. pc[r] = "cache" /\ note' = [note EXCEPT ![r] = NoNote(note[r].key)]
    BY <1>7 DEF CacheSet
  <2>2. CASE ~note[r].found /\ cache[note[r].key].there
    <3>1. pc' = [pc EXCEPT ![r] = "failed"] /\ UNCHANGED <<cache, got>>
      BY <1>7, <2>2 DEF CacheSet
    <3> QED
      BY <1>t, <2>1, <2>2, <3>1 DEF Calling
  <2>3. CASE ~(~note[r].found /\ cache[note[r].key].there)
    <3>1. /\ cache' = [cache EXCEPT ![note[r].key] = Entry(note[r].result)]
          /\ \E l \in {"archive", "look", "combine", "request"} : pc' = [pc EXCEPT ![r] = l]
          /\ got' = got \/ \E g : got' = [got EXCEPT ![r] = g]
      BY <1>7, <2>3 DEF CacheSet, TakePart, TakeStatements
    <3> QED
      BY <1>t, <1>7, <2>1, <3>1 DEF Calling
  <2> QED
    BY <2>2, <2>3
<1> QED
  BY <1>1, <1>2, <1>4, <1>5, <1>6, <1>7 DEF Fetch

\* No call is forgotten.
LEMMA AnsweredGrows ==
  ASSUME FetchInv, [Next]_vars
  PROVE  answered \subseteq answered'
<1>1. ASSUME NEW r \in Runs, Fetch(r)
      PROVE  answered \subseteq answered'
  <2>1. CASE Start(r)
    BY <2>1 DEF Start, fetch
  <2>2. CASE FromCache(r) \/ NotReady(r) \/ Combine(r) \/ CacheSet(r)
    BY <2>2 DEF FromCache, NotReady, Combine, CacheSet
  <2>3. CASE RequestResult(r)
    BY <2>3 DEF RequestResult
  <2> QED
    BY <1>1, <2>1, <2>2, <2>3 DEF Fetch
<1>2. ASSUME NEW r \in Runs, Persist(r) \/ Kill(r), UNCHANGED ask
      PROVE  answered' = answered
  BY <1>2, PersistKeepsCalls DEF fetch
<1>3. CASE CleanUp
  BY <1>3 DEF CleanUp, Select, Delete, CommitSweep, SweepVictim, fetch
<1> QED
  BY <1>1, <1>2, <1>3, StepForms DEF Idles

\* Actors that have met stay so.
LEMMA MetGrows ==
  ASSUME FetchInv, PlacedInv, [Next]_vars, NEW p \in Runs
  PROVE  met[p] \subseteq met'[p]
<1>1. ASSUME NEW r \in Runs, Fetch(r)
      PROVE  met[p] \subseteq met'[p]
  <2>1. CASE Start(r)
    <3>1. p = r => met[p] = {}
      BY <2>1 DEF Start, PlacedInv, ActorsHaveMet
    <3> QED
      BY <2>1, <3>1 DEF Start
  <2> QED
    BY <1>1, <2>1, FetchLeaves
<1>2. ASSUME NEW r \in Runs, Persist(r) \/ Kill(r)
      PROVE  met' = met
  BY <1>2, PersistLeaves
<1>3. CASE CleanUp
  BY <1>3 DEF CleanUp, Select, Delete, CommitSweep, SweepVictim, history
<1> QED
  BY <1>1, <1>2, <1>3, StepForms DEF Idles, history

\* A run that is about to succeed has answers for all of its call.
LEMMA SuccessRests ==
  ASSUME FetchInv, NEW r \in Runs, Commit(r), Result(r) = "succeeded"
  PROVE  \A p \in ToSet(Parts(r)) : Answered(p)
<1>0. FetchTypeOK /\ PlaceRests(r) /\ GotRests(r) /\ pc[r] = "flush"
  BY DEF FetchInv, CallsRest, Commit
<1>1. place[r].part = Len(Parts(r)) + 1 /\ Len(Parts(r)) \in Nat
  <2>1. place[r].part \in 1..(Len(Parts(r)) + 1) /\ place[r].part > Len(Parts(r)) /\ Len(Parts(r)) \in 1..2
    BY <1>0, AskShape DEF PlaceRests, Calling
  <2> QED
    BY <2>1
<1>2. PICK taken : taken = {Parts(r)[i] : i \in 1..(place[r].part - 1)}
  OBVIOUS
<1>3. 1..(place[r].part - 1) = 1..Len(Parts(r))
  BY <1>1
<1>4. ToSet(Parts(r)) \subseteq taken
  BY <1>0, <1>2, <1>3, AskShape
<1>5. got[r].ok /\ (ask[r].provider = "OpenDART" => ~got[r].missing)
  BY DEF Result
<1>6. \A p \in taken : Answered(p)
  BY <1>0, <1>2, <1>5 DEF GotRests
<1> QED
  BY <1>4, <1>6

\* A write of a session is of an item the run's calls serve, and a provider has answered.
LEMMA WritesServed ==
  ASSUME FetchInv, PlacedInv, NEW r \in Runs, NEW w \in dirty[r] \cup held[r]
  PROVE  w.key \in Keys /\ w.key \in Served(r) /\ w.key \in Supplied(CacheKeys) /\ w.what \in {"doc", "chunk", "row"}
         /\ w \in Writes
<1>1. WriteIsPlaced(r, w)
  BY DEF PlacedInv, SessionIsPlaced
<1>2. w.pos \in Kept(r) /\ w.key = Items(r)[w.pos]
  BY <1>1 DEF WriteIsPlaced
<1>3. w.key \in ToSet(Items(r))
  BY <1>2, ItemShape
<1>4. w \in Writes
  BY DEF PlacedInv, StoreTypeOK
<1> QED
  BY <1>3, <1>4, ServedItems DEF Writes

\* Only a commit changes what is stored as whose.
LEMMA StoreLeaves ==
  ASSUME FetchInv, [Next]_vars
  PROVE  (\E r \in Runs : Commit(r) /\ UNCHANGED ask) \/ UNCHANGED <<doc, row>>
<1>1. ASSUME NEW r \in Runs, Fetch(r)
      PROVE  UNCHANGED <<doc, row>>
  BY <1>1, FetchLeaves DEF store
<1>2. ASSUME NEW r \in Runs, Persist(r) \/ Kill(r), ~Commit(r)
      PROVE  UNCHANGED <<doc, row>>
  BY <1>2, PersistLeaves DEF store
<1>3. CASE CleanUp
  BY <1>3 DEF CleanUp, Select, Delete, CommitSweep, SweepVictim, store
<1> QED
  BY <1>1, <1>2, <1>3, StepForms DEF Idles, store

\* Nothing is stored that no provider has answered.
LEMMA AnsweredStep ==
  ASSUME FetchInv, PlacedInv, StoredIsAnswered, [Next]_vars
  PROVE  StoredIsAnswered'
<1>0. UNCHANGED ask /\ answered \subseteq answered'
  BY StepForms, AnsweredGrows
<1>1. ASSUME NEW r \in Runs, pc'[r] = "succeeded", NEW p \in ToSet(Parts(r))
      PROVE  Answered(p)'
  <2>1. CASE pc[r] = "succeeded"
    BY <1>0, <1>1, <2>1, AnswersGrow DEF StoredIsAnswered
  <2>2. CASE pc[r] # "succeeded"
    <3>1. ASSUME NEW q \in Runs, Fetch(q) PROVE FALSE
      BY <1>1, <2>2, <3>1, FetchGoes DEF Calling
    <3>2. ASSUME NEW q \in Runs, Persist(q) \/ Kill(q)
          PROVE  q = r /\ Commit(r)
      BY <1>0, <1>1, <2>2, <3>2, PersistKeepsCalls
    <3>3. ~CleanUp
      BY <1>1, <2>2 DEF CleanUp, Select, Delete, CommitSweep, SweepVictim
    <3>4. Commit(r)
      <4>1. ~Idles
        BY <1>1, <2>2 DEF Idles
      <4> QED
        BY <3>1, <3>2, <3>3, <4>1, StepForms
    <3>5. Result(r) = "succeeded"
      BY <1>1, <3>4 DEF Commit, FetchInv, FetchTypeOK
    <3>6. Answered(p)
      BY <3>4, <3>5, SuccessRests
    <3> QED
      BY <1>0, <3>6, AnswersGrow
  <2> QED
    BY <2>1, <2>2
<1>2. ASSUME NEW k \in Keys, doc'[k] # NoRow
      PROVE  k \in DOMAIN Stored \cup Supplied(CacheKeys)'
  <2>1. Supplied(CacheKeys) \subseteq Supplied(CacheKeys)'
    BY <1>0, AnswersGrow
  <2>2. CASE doc[k] # NoRow
    BY <2>1, <2>2 DEF StoredIsAnswered
  <2>3. CASE doc[k] = NoRow
    <3>1. PICK r \in Runs : Commit(r)
      BY <1>2, <2>3, StoreLeaves
    <3>2. Owns(r, "doc", k)
      BY <1>2, <2>3, <3>1 DEF Commit
    <3>3. PICK w \in held[r] : w.key = k
      BY <3>2 DEF Owns
    <3> QED
      BY <2>1, <3>3, WritesServed
  <2> QED
    BY <2>2, <2>3
<1> QED
  BY <1>0, <1>1, <1>2 DEF StoredIsAnswered, Parts

\* A run that has succeeded rests on answers of the provider for every part of its
\* call, and nothing is stored that no provider has answered.
THEOREM StoredIsAlwaysAnswered ==
  Spec => []StoredIsAnswered
<1>1. Init => StoredIsAnswered
  <2> SUFFICES ASSUME Init PROVE StoredIsAnswered
    OBVIOUS
  <2>1. \A r \in Runs : pc[r] = "idle"
    BY DEF Init
  <2>2. \A k \in Keys : doc[k] # NoRow => k \in DOMAIN Stored
    BY DEF Init
  <2> QED
    BY <2>1, <2>2 DEF StoredIsAnswered
<1>2. FetchInv /\ PlacedInv /\ StoredIsAnswered /\ [Next]_vars => StoredIsAnswered'
  BY AnsweredStep
<1> QED
  BY <1>1, <1>2, CallsAlwaysRest, SessionsStayPlaced, PTL DEF Spec

-----------------------------------------------------------------------------
(* What a run has seen of the cache and the store. *)

\* Whoever has a rival keeps it.
LEMMA RivalsStay ==
  ASSUME FetchInv, PlacedInv, [Next]_vars, NEW p \in Runs, HasRival(p)
  PROVE  HasRival(p)'
<1>1. UNCHANGED ask /\ met[p] \subseteq met'[p]
  BY StepForms, MetGrows
<1>2. \A a : Shares(p, a)' <=> Shares(p, a)
  BY <1>1 DEF Shares, Served, CallKeys, Parts
<1> QED
  BY <1>1, <1>2 DEF HasRival

\* What is contested stays so.
LEMMA ContestsStay ==
  ASSUME FetchInv, PlacedInv, [Next]_vars, NEW k, Contested(k)
  PROVE  Contested(k)'
<1>1. UNCHANGED ask /\ \A p \in Runs : met[p] \subseteq met'[p]
  BY StepForms, MetGrows
<1>2. \A p \in Runs : Ticker(p)' = Ticker(p) /\ Served(p)' = Served(p)
  BY <1>1 DEF Ticker, Served, CallKeys, Parts
<1> QED
  BY <1>1, <1>2 DEF Contested

\* A session with a write is active, and so is a run that calls.
LEMMA Actives ==
  ASSUME Inv, PlacedInv, NEW p \in Runs, NEW q \in Runs, p # q,
         Active(p) \/ dirty[p] # {} \/ held[p] # {}, Active(q) \/ dirty[q] # {} \/ held[q] # {}
  PROVE  q \in met[p] /\ Active(p)
<1>1. \A r \in Runs : ~Active(r) => dirty[r] = {} /\ held[r] = {}
  BY DEF Inv, WritesAreExclusive
<1> QED
  BY <1>1 DEF PlacedInv, ActorsHaveMet

\* Two sessions with a write of one item make rivals.
LEMMA ItemRivals ==
  ASSUME Inv, FetchInv, PlacedInv, NEW p \in Runs, NEW q \in Runs, p # q,
         NEW k \in Served(p), Active(p), NEW v \in held[q], v.key = k
  PROVE  q \in met[p] /\ k \in Served(q) /\ HasRival(p)
<1>1. q \in met[p]
  BY Actives
<1>2. k \in Served(q)
  BY WritesServed
<1>3. q # Sweeper
  BY StoreAssumption
<1> QED
  BY <1>1, <1>2, <1>3 DEF HasRival, Shares

\* So does the clean-up, of a disclosure it has deleted.
LEMMA SweepRivals ==
  ASSUME Inv, FetchInv, PlacedInv, NEW p \in Runs, NEW k \in Served(p), Active(p), NEW t, <<t, k>> \in sweep.gone
  PROVE  HasRival(p)
<1>1. Sweeping /\ k \in Disclosed
  BY DEF Inv, SweepIsExcused
<1>2. Sweeper \in met[p]
  BY <1>1 DEF PlacedInv, ActorsHaveMet
<1> QED
  BY <1>1, <1>2 DEF HasRival, Shares

\* The item a run deals with is served to it.
LEMMA DealtItem ==
  ASSUME FetchInv, NEW r \in Runs, pos[r] \in Kept(r)
  PROVE  Item(r) \in Keys /\ Item(r) \in Served(r)
BY ItemShape, ServedItems DEF Item

\* What a run reads it may find committed, or in its session.
LEMMA CommittedForms ==
  ASSUME NEW r \in Runs
  PROVE  /\ \A w : w.what = "doc" => (Committed(Slot(r, w)) <=> doc[w.key] # NoRow)
         /\ \A w : w.what = "row" => (Committed(Slot(r, w)) <=> row[w.key] # NoRow)
         /\ \A w : w.what = "chunk" => (Committed(Slot(r, w)) <=> <<Ticker(r), w.key>> \in chunks)
<1>1. ASSUME NEW w, w.what = "doc"
      PROVE  Committed(Slot(r, w)) <=> doc[w.key] # NoRow
  <2>1. Slot(r, w) = <<"doc", w.key>>
    BY <1>1, SlotShape
  <2> QED
    BY <2>1 DEF Committed
<1>2. ASSUME NEW w, w.what = "row"
      PROVE  Committed(Slot(r, w)) <=> row[w.key] # NoRow
  <2>1. Slot(r, w) = <<"row", w.key>>
    BY <1>2, SlotShape
  <2> QED
    BY <2>1 DEF Committed
<1>3. ASSUME NEW w, w.what = "chunk"
      PROVE  Committed(Slot(r, w)) <=> <<Ticker(r), w.key>> \in chunks
  <2>1. Slot(r, w) = <<"chunk", w.key, Ticker(r)>>
    BY <1>3, SlotShape
  <2> QED
    BY <2>1 DEF Committed
<1> QED
  BY <1>1, <1>2, <1>3

\* A commit stores what its session holds, and nothing goes.
LEMMA CommitStores ==
  ASSUME FetchInv, PlacedInv, NEW q \in Runs, Commit(q), UNCHANGED ask, NEW r \in Runs,
         NEW w, w.what \in {"doc", "chunk", "row"}, w.key \in Keys
  PROVE  /\ Committed(Slot(r, w)) => Committed(Slot(r, w))'
         /\ Committed(Slot(r, w))' => Committed(Slot(r, w)) \/ \E v \in held[q] : v.key = w.key
<1>0. Ticker(q) \in Tickers /\ Ticker(q) # NoRow /\ Ticker(r)' = Ticker(r) /\ Slot(r, w)' = Slot(r, w)
  BY AskShape, StoreAssumption DEF FetchInv, Ticker, Slot
<1>1. /\ doc'[w.key] = IF Owns(q, "doc", w.key) THEN Ticker(q) ELSE doc[w.key]
      /\ row'[w.key] = IF Owns(q, "row", w.key) THEN Ticker(q) ELSE row[w.key]
      /\ chunks' = chunks \cup {<<Ticker(q), v.key>> : v \in {x \in held[q] : x.what = "chunk"}}
  BY DEF Commit
<1>2. CASE w.what = "doc"
  <2>1. Committed(Slot(r, w)) <=> doc[w.key] # NoRow
    BY <1>2, CommittedForms
  <2>2. Committed(Slot(r, w))' <=> doc'[w.key] # NoRow
    <3>1. Slot(r, w) = <<"doc", w.key>>
      BY <1>2, SlotShape
    <3> QED
      BY <1>0, <3>1 DEF Committed
  <2> QED
    BY <1>0, <1>1, <2>1, <2>2 DEF Owns
<1>3. CASE w.what = "row"
  <2>1. Committed(Slot(r, w)) <=> row[w.key] # NoRow
    BY <1>3, CommittedForms
  <2>2. Committed(Slot(r, w))' <=> row'[w.key] # NoRow
    <3>1. Slot(r, w) = <<"row", w.key>>
      BY <1>3, SlotShape
    <3> QED
      BY <1>0, <3>1 DEF Committed
  <2> QED
    BY <1>0, <1>1, <2>1, <2>2 DEF Owns
<1>4. CASE w.what = "chunk"
  <2>1. Committed(Slot(r, w)) <=> <<Ticker(r), w.key>> \in chunks
    BY <1>4, CommittedForms
  <2>2. Committed(Slot(r, w))' <=> <<Ticker(r), w.key>> \in chunks'
    <3>1. Slot(r, w) = <<"chunk", w.key, Ticker(r)>>
      BY <1>4, SlotShape
    <3> QED
      BY <1>0, <3>1 DEF Committed
  <2>3. \A v : <<Ticker(r), w.key>> = <<Ticker(q), v.key>> => v.key = w.key
    OBVIOUS
  <2> QED
    BY <1>1, <2>1, <2>2, <2>3
<1> QED
  BY <1>2, <1>3, <1>4

\* What a run is about to cache, it caches under a key of its call.
LEMMA NotedKey ==
  ASSUME FetchInv, NEW r \in Runs, pc[r] = "cache"
  PROVE  note[r].key \in CallKeys(r) /\ note[r].key \in CacheKeys
<1>1. PICK p : p = ThePart(r)
  OBVIOUS
<1>2. p \in ToSet(Parts(r)) /\ NoteRests(r)
  BY <1>1, AtPart DEF Calling, PlaceRests
<1>3. note[r].key \in CacheKeys
  BY DEF FetchInv, FetchTypeOK
<1>4. CASE note[r].key \in {p.key, p.spare}
  BY <1>2, <1>3, <1>4 DEF CallKeys
<1>5. CASE p.years # <<>> /\ AtYear(r) /\ note[r].key = CallKey(r)
  <2>1. CallKey(r) \in Sources(p)
    BY <1>1, <1>5, CallShape DEF Calling
  <2>2. Sources(p) \subseteq CallKeys(r)
    BY <1>2 DEF Sources, CallKeys
  <2> QED
    BY <1>3, <1>5, <2>1, <2>2
<1> QED
  BY <1>1, <1>2, <1>4, <1>5 DEF NoteRests

\* Without a rival the cache is as run r has seen it.
CacheSight(r) == pc[r] = "cache" /\ ~note[r].found /\ cache[note[r].key].there => HasRival(r)

\* What is stored is as run r has seen it.
StoreSight(r) ==
  /\ \A w \in dirty[r] : w.make # Finds(r, Slot(r, w))
  /\ pc[r] = "savepoint" => ~Committed(<<"chunk", Item(r), Ticker(r)>>)
  /\ pc[r] # "reselect"
\* Without a rival and a repeated item it is still so.
SessionSight(r) == Repeats(r) \/ HasRival(r) \/ StoreSight(r)

\* A run has seen both.
LEMMA SightParts ==
  ASSUME NEW r \in Runs
  PROVE  SightIsCurrent(r) <=> CacheSight(r) /\ SessionSight(r)
BY DEF SightIsCurrent, CacheSight, StoreSight, SessionSight

\* The cache changes under a run only by a rival.
LEMMA CacheSightStep ==
  ASSUME Inv, FetchInv, PlacedInv, NEW p \in Runs, CacheSight(p), [Next]_vars
  PROVE  CacheSight(p)'
<1>1. SUFFICES ASSUME pc'[p] = "cache", ~note'[p].found, cache'[note'[p].key].there
               PROVE  HasRival(p)'
  BY DEF CacheSight
<1>2. ASSUME pc[p] = "cache", note'[p] = note[p], UNCHANGED cache
      PROVE  HasRival(p)'
  BY <1>1, <1>2, RivalsStay DEF CacheSight
<1>3. ASSUME NEW q \in Runs, Fetch(q)
      PROVE  HasRival(p)'
  <2>1. q # p
    BY <1>1, <1>3, FetchGoes
  <2>2. pc[p] = "cache" /\ note'[p] = note[p]
    BY <1>1, <1>3, <2>1, FetchGoes
  <2>3. CASE UNCHANGED cache
    BY <1>2, <2>2, <2>3
  <2>4. CASE CacheSet(q)
    <3>1. note[p].key \in CallKeys(p) /\ note[p].key \in CacheKeys
      BY <2>2, NotedKey
    <3>2. CASE note[p].key = note[q].key
      <4>1. pc[q] = "cache"
        BY <1>3, <2>4, FetchGoes
      <4>2. note[p].key \in CallKeys(q)
        BY <3>2, <4>1, NotedKey
      <4>3. q \in met[p]
        BY <2>1, <2>2, <4>1, Actives DEF Active, Ended
      <4>4. q # Sweeper
        BY StoreAssumption
      <4>5. HasRival(p)
        BY <3>1, <4>2, <4>3, <4>4 DEF HasRival, Shares
      <4> QED
        BY <4>5, RivalsStay
    <3>3. CASE note[p].key # note[q].key
      <4>1. cache'[note[p].key] = cache[note[p].key]
        BY <1>3, <2>4, <3>1, <3>3, FetchGoes
      <4> QED
        BY <1>1, <2>2, <4>1, RivalsStay DEF CacheSight
    <3> QED
      BY <3>2, <3>3
  <2> QED
    BY <1>3, <2>3, <2>4, FetchGoes
<1>4. ASSUME NEW q \in Runs, Persist(q) \/ Kill(q)
      PROVE  HasRival(p)'
  <2>1. UNCHANGED ask
    BY StepForms
  <2>2. UNCHANGED fetch /\ pc'[q] \notin Calling /\ \A x \in Runs \ {q} : pc'[x] = pc[x]
    BY <1>4, <2>1, PersistKeepsCalls
  <2>3. p # q
    BY <1>1, <2>2 DEF Calling
  <2> QED
    BY <1>1, <1>2, <2>2, <2>3 DEF fetch
<1>5. CASE CleanUp
  <2>1. UNCHANGED <<pc, fetch>>
    BY <1>5 DEF CleanUp, Select, Delete, CommitSweep, SweepVictim
  <2> QED
    BY <1>1, <1>2, <2>1 DEF fetch
<1>6. CASE Idles
  <2>1. pc[p] = "cache" /\ note'[p] = note[p] /\ note[p].key \in CacheKeys
    BY <1>1, <1>6, NotedKey DEF Idles
  <2>2. cache[note[p].key].there
    BY <1>1, <1>6, <2>1 DEF Idles
  <2> QED
    BY <1>1, <2>1, <2>2, RivalsStay DEF CacheSight
<1> QED
  BY <1>3, <1>4, <1>5, <1>6, StepForms

\* A run that is passed by sees what it has seen when what is committed of its rows is
\* as before.
LEMMA SightStays ==
  ASSUME FetchInv, PlacedInv, NEW p \in Runs, StoreSight(p), UNCHANGED ask, pc'[p] = pc[p], got'[p] = got[p],
         pos'[p] = pos[p], dirty'[p] = dirty[p], held'[p] = held[p],
         \A w \in dirty[p] : Committed(Slot(p, w))' <=> Committed(Slot(p, w)),
         pc[p] = "savepoint" =>
           (Committed(<<"chunk", Item(p), Ticker(p)>>)' => Committed(<<"chunk", Item(p), Ticker(p)>>))
  PROVE  StoreSight(p)'
<1>1. ASSUME NEW w \in dirty[p]
      PROVE  w.make # Finds(p, Slot(p, w))'
  <2>1. Slots(p, held[p])' = Slots(p, held[p]) /\ Slot(p, w)' = Slot(p, w)
    BY DEF Slots, Slot, Ticker
  <2>2. Finds(p, Slot(p, w))' <=> Finds(p, Slot(p, w))
    BY <2>1 DEF Finds
  <2>3. Finds(p, Slot(p, w)) \in BOOLEAN /\ Finds(p, Slot(p, w))' \in BOOLEAN
    BY DEF Finds
  <2> QED
    BY <2>2, <2>3 DEF StoreSight
<1> QED
  BY <1>1 DEF StoreSight

\* A run with an item once has a write once.
LEMMA SlotsDiffer ==
  ASSUME FetchInv, PlacedInv, NEW r \in Runs, ~Repeats(r),
         NEW w \in dirty[r] \cup held[r], NEW v \in dirty[r] \cup held[r], Slot(r, v) = Slot(r, w)
  PROVE  v = w
<1>1. v.what \in {"doc", "chunk", "row"} /\ w.what \in {"doc", "chunk", "row"}
  BY WritesServed
<1>2. v.what = w.what /\ v.key = w.key
  <2>1. CASE w.what = "chunk"
    BY <2>1, SlotShape
  <2>2. CASE w.what # "chunk"
    BY <1>1, <2>2, SlotShape
  <2> QED
    BY <2>1, <2>2
<1>3. SessionIsPlaced(r)
  BY DEF PlacedInv
<1>4. /\ v.pos \in Kept(r) /\ v.key = Items(r)[v.pos]
      /\ w.pos \in Kept(r) /\ w.key = Items(r)[w.pos]
  BY <1>3 DEF SessionIsPlaced, WriteIsPlaced
<1>5. v.pos = w.pos
  BY <1>2, <1>4 DEF Repeats
<1> QED
  BY <1>2, <1>3, <1>5 DEF SessionIsPlaced

\* So it does while the store stays.
LEMMA StoreStays ==
  ASSUME FetchInv, PlacedInv, NEW p \in Runs, StoreSight(p), UNCHANGED <<ask, doc, row, chunks>>, pc'[p] = pc[p],
         got'[p] = got[p], pos'[p] = pos[p], dirty'[p] = dirty[p], held'[p] = held[p]
  PROVE  StoreSight(p)'
<1>1. Item(p)' = Item(p) /\ Ticker(p)' = Ticker(p) /\ \A w : Slot(p, w)' = Slot(p, w)
  BY DEF Item, Items, Ticker, Slot
<1>2. \A w : Committed(Slot(p, w))' <=> Committed(Slot(p, w))
  BY <1>1 DEF Committed
<1>3. Committed(<<"chunk", Item(p), Ticker(p)>>)' <=> Committed(<<"chunk", Item(p), Ticker(p)>>)
  BY <1>1 DEF Committed
<1> QED
  BY <1>2, <1>3, SightStays

\* Rivals apart, no other actor changes what a run sees of the store.
LEMMA OthersSight ==
  ASSUME Inv, FetchInv, PlacedInv, NEW p \in Runs, StoreSight(p), ~HasRival(p), [Next]_vars,
         ~Fetch(p), ~Persist(p), ~Kill(p)
  PROVE  StoreSight(p)'
<1>0. UNCHANGED ask
  BY StepForms
<1>1. ASSUME NEW q \in Runs \ {p}, Fetch(q)
      PROVE  StoreSight(p)'
  <2>1. pc'[p] = pc[p] /\ got'[p] = got[p] /\ UNCHANGED <<session, store>>
    BY <1>1, FetchGoes, FetchLeaves
  <2> QED
    BY <1>0, <2>1, StoreStays DEF session, store
<1>2. ASSUME NEW q \in Runs \ {p}, Persist(q) \/ Kill(q)
      PROVE  StoreSight(p)'
  <2>1. UNCHANGED got /\ pc'[p] = pc[p] /\ pos'[p] = pos[p] /\ dirty'[p] = dirty[p] /\ held'[p] = held[p]
    <3>1. SessionIsPlaced(q) /\ SessionTypeOK
      BY DEF PlacedInv, StoreTypeOK, SessionTypeOK
    <3> QED
      BY <1>0, <1>2, <3>1, PersistPlaced DEF SessionOnly
  <2>2. CASE ~Commit(q)
    <3>1. UNCHANGED store
      BY <1>2, <2>2, PersistLeaves
    <3> QED
      BY <1>0, <2>1, <3>1, StoreStays DEF store
  <2>3. CASE Commit(q)
    <3>1. ASSUME NEW w, w.what \in {"doc", "chunk", "row"}, w.key \in Keys, w.key \in Served(p), Active(p)
          PROVE  Committed(Slot(p, w))' <=> Committed(Slot(p, w))
      <4>1. \A v \in held[q] : v.key # w.key
        BY <3>1, ItemRivals
      <4> QED
        BY <1>0, <2>3, <3>1, <4>1, CommitStores
    <3>2. ASSUME NEW w \in dirty[p]
          PROVE  Committed(Slot(p, w))' <=> Committed(Slot(p, w))
      <4>1. Active(p)
        BY <3>2 DEF Inv, WritesAreExclusive
      <4> QED
        BY <3>1, <3>2, <4>1, WritesServed
    <3>3. ASSUME pc[p] = "savepoint"
          PROVE  Committed(<<"chunk", Item(p), Ticker(p)>>)' <=> Committed(<<"chunk", Item(p), Ticker(p)>>)
      <4>1. pos[p] \in Kept(p) /\ Active(p)
        BY <3>3 DEF PlacedInv, SessionIsPlaced, Dealing, Active, Ended
      <4>2. PICK w : w = [what |-> "chunk", key |-> Item(p)]
        OBVIOUS
      <4>3. w.what = "chunk" /\ w.key = Item(p)
        BY <4>2
      <4>4. Slot(p, w) = <<"chunk", Item(p), Ticker(p)>>
        BY <4>3, SlotShape
      <4>5. Item(p)' = Item(p) /\ Ticker(p)' = Ticker(p)
        BY <1>0, <2>1 DEF Item, Items, Ticker
      <4>6. Committed(Slot(p, w))' <=> Committed(Slot(p, w))
        BY <3>1, <4>1, <4>3, DealtItem
      <4>7. Slot(p, w)' = <<"chunk", Item(p)', Ticker(p)'>>
        BY <4>3, <4>4, <4>5 DEF Slot
      <4> QED
        BY <4>4, <4>5, <4>6, <4>7
    <3> QED
      BY <1>0, <2>1, <3>2, <3>3, SightStays
  <2> QED
    BY <2>2, <2>3
<1>3. CASE CleanUp
  <2>1. UNCHANGED <<pc, got, pos, dirty, held, doc, row>> /\ chunks' \in {chunks, chunks \ sweep.gone}
    BY <1>3 DEF CleanUp, Select, Delete, CommitSweep, SweepVictim, fetch, session, store
  <2>2. ASSUME NEW w \in dirty[p]
        PROVE  Committed(Slot(p, w))' <=> Committed(Slot(p, w))
    <3>0. Active(p) /\ w.key \in Served(p) /\ w.what \in {"doc", "chunk", "row"}
      BY <2>2, WritesServed DEF Inv, WritesAreExclusive
    <3>1. Slot(p, w)' = Slot(p, w)
      BY <1>0 DEF Slot, Ticker
    <3>2. CASE w.what # "chunk"
      <4>1. Slot(p, w) = <<w.what, w.key>>
        BY <3>2, SlotShape
      <4> QED
        BY <2>1, <3>0, <3>1, <3>2, <4>1 DEF Committed
    <3>3. CASE w.what = "chunk"
      <4>1. Slot(p, w) = <<"chunk", w.key, Ticker(p)>>
        BY <3>3, SlotShape
      <4>2. <<Ticker(p), w.key>> \notin sweep.gone
        BY <3>0, SweepRivals
      <4>3. <<Ticker(p), w.key>> \in chunks' <=> <<Ticker(p), w.key>> \in chunks
        BY <2>1, <4>2
      <4> QED
        BY <3>1, <4>1, <4>3 DEF Committed
    <3> QED
      BY <3>2, <3>3
  <2>3. Committed(<<"chunk", Item(p), Ticker(p)>>)' => Committed(<<"chunk", Item(p), Ticker(p)>>)
    <3>1. Item(p)' = Item(p) /\ Ticker(p)' = Ticker(p)
      BY <1>0, <2>1 DEF Item, Items, Ticker
    <3>2. <<Ticker(p), Item(p)>> \in chunks' => <<Ticker(p), Item(p)>> \in chunks
      BY <2>1
    <3> QED
      BY <3>1, <3>2 DEF Committed
  <2> QED
    BY <1>0, <2>1, <2>2, <2>3, SightStays
<1>4. CASE Idles
  BY <1>0, <1>4, StoreStays DEF Idles, session, store
<1>5. (\E q \in Runs : Fetch(q)) => \E q \in Runs \ {p} : Fetch(q)
  OBVIOUS
<1>6. (\E q \in Runs : Persist(q) \/ Kill(q)) => \E q \in Runs \ {p} : Persist(q) \/ Kill(q)
  OBVIOUS
<1> QED
  BY <1>1, <1>2, <1>3, <1>4, <1>5, <1>6, StepForms

\* A call is made before anything of the store is seen.
LEMMA FetchSight ==
  ASSUME Inv, FetchInv, PlacedInv, NEW p \in Runs, Fetch(p), UNCHANGED ask
  PROVE  StoreSight(p)'
<1>1. pc[p] \in Calling /\ pc'[p] \in Calling \cup {"archive", "failed"} /\ UNCHANGED session
  BY FetchGoes, FetchLeaves
<1>2. dirty[p] = {}
  BY <1>1 DEF Inv, SessionsAreWhole, SessionIsWhole, Dealing, Calling
<1> QED
  BY <1>1, <1>2 DEF StoreSight, session, Calling

\* A write that waits is of what the run has just found.
LEMMA TouchSight ==
  ASSUME FetchInv, PlacedInv, NEW p \in Runs, StoreSight(p), UNCHANGED <<ask, held, store>>,
         NEW w \in Writes, Touch(p, w), w.make # Finds(p, Slot(p, w)), pc'[p] \notin {"savepoint", "reselect"}
  PROVE  StoreSight(p)'
<1>1. dirty'[p] \subseteq dirty[p] \cup {w}
  BY TouchTypes DEF PlacedInv, StoreTypeOK, SessionTypeOK
<1>2. ASSUME NEW v \in dirty'[p]
      PROVE  v.make # Finds(p, Slot(p, v))'
  <2>1. v.make # Finds(p, Slot(p, v))
    BY <1>1 DEF StoreSight
  <2>2. Slots(p, held[p])' = Slots(p, held[p]) /\ Slot(p, v)' = Slot(p, v)
    BY DEF Slots, Slot, Ticker
  <2>3. Finds(p, Slot(p, v))' = Finds(p, Slot(p, v))
    BY <2>2 DEF Finds, Committed, store
  <2> QED
    BY <2>1, <2>3
<1> QED
  BY <1>2 DEF StoreSight

\* Where the session stays, so does what it has seen.
LEMMA SessionSame ==
  ASSUME NEW p \in Runs, StoreSight(p), UNCHANGED <<ask, held, store>>, dirty'[p] \subseteq dirty[p],
         pc'[p] \notin {"savepoint", "reselect"}
  PROVE  StoreSight(p)'
<1>1. ASSUME NEW v \in dirty'[p]
      PROVE  v.make # Finds(p, Slot(p, v))'
  <2>1. v.make # Finds(p, Slot(p, v))
    BY DEF StoreSight
  <2>2. Slots(p, held[p])' = Slots(p, held[p]) /\ Slot(p, v)' = Slot(p, v)
    BY DEF Slots, Slot, Ticker
  <2>3. Finds(p, Slot(p, v))' = Finds(p, Slot(p, v))
    BY <2>2 DEF Finds, Committed, store
  <2> QED
    BY <2>1, <2>3
<1> QED
  BY <1>1 DEF StoreSight

\* What a write of a run is, and of which row.
LEMMA WriteFacts ==
  ASSUME FetchInv, NEW p \in Runs, pos[p] \in Kept(p), NEW what \in {"doc", "chunk", "row"},
         NEW make \in BOOLEAN, NEW own \in BOOLEAN, NEW w, w = Write(p, what, make, own)
  PROVE  /\ w \in Writes /\ w.what = what /\ w.key = Item(p) /\ (w.make <=> make)
         /\ Slot(p, w) = IF what = "chunk" THEN <<"chunk", Item(p), Ticker(p)>> ELSE <<what, Item(p)>>
<1>1. Item(p) \in Keys /\ pos[p] \in Nat
  BY ItemShape DEF Item
<1>2. w = [what |-> what, key |-> Item(p), make |-> make, own |-> own, pos |-> pos[p]]
  BY DEF Write
<1>3. w.what = what /\ w.key = Item(p) /\ (w.make <=> make)
  BY <1>2
<1>4. w \in Writes
  BY <1>1, <1>2 DEF Writes
<1>5. CASE what = "chunk"
  <2>1. Slot(p, w) = <<"chunk", Item(p), Ticker(p)>>
    BY <1>3, <1>5 DEF Slot
  <2> QED
    BY <1>3, <1>4, <1>5, <2>1
<1>6. CASE what # "chunk"
  <2>1. Slot(p, w) = <<what, Item(p)>>
    BY <1>3, <1>6 DEF Slot
  <2> QED
    BY <1>3, <1>4, <1>6, <2>1
<1> QED
  BY <1>5, <1>6

\* A write that waits is of what the run has just found.
LEMMA WriteSight ==
  ASSUME FetchInv, PlacedInv, NEW p \in Runs, StoreSight(p), UNCHANGED <<ask, held, store>>,
         pos[p] \in Kept(p), NEW what \in {"doc", "chunk", "row"},
         NEW make \in BOOLEAN, NEW own \in BOOLEAN, NEW slot,
         slot = IF what = "chunk" THEN <<"chunk", Item(p), Ticker(p)>> ELSE <<what, Item(p)>>,
         make <=> ~Finds(p, slot), Touch(p, Write(p, what, make, own)),
         pc'[p] \notin {"savepoint", "reselect"}
  PROVE  StoreSight(p)'
<1>1. PICK w : w = Write(p, what, make, own)
  OBVIOUS
<1>2. w \in Writes /\ (w.make <=> make) /\ Slot(p, w) = slot
  BY <1>1, WriteFacts
<1>3. w.make # Finds(p, Slot(p, w))
  <2>1. w.make \in BOOLEAN
    BY <1>2 DEF Writes
  <2>2. Finds(p, slot) \in BOOLEAN
    BY DEF Finds
  <2> QED
    BY <1>2, <2>1, <2>2
<1> QED
  BY <1>1, <1>2, <1>3, TouchSight

\* Without rivals and repeated items a run's upserts find what it has seen, and go on.
LEMMA PersistSight ==
  ASSUME Inv, FetchInv, PlacedInv, NEW p \in Runs, StoreSight(p), ~Repeats(p), Persist(p) \/ Kill(p), UNCHANGED ask
  PROVE  /\ StoreSight(p)'
         /\ pc'[p] = "failed" => Victim(p) \/ DataError(p) \/ (Archive(p) /\ UNCHANGED archived)
<1>t. pc \in [Runs -> Labels] /\ dirty \in [Runs -> SUBSET Writes] /\ held \in [Runs -> SUBSET Writes]
  BY DEF FetchInv, FetchTypeOK, PlacedInv, StoreTypeOK
<1>0. CASE Archive(p)
  <2>1. /\ UNCHANGED <<dirty, held, store>> /\ pc'[p] \in {"document", "flush", "failed"}
        /\ pc'[p] = "failed" => UNCHANGED archived
    BY <1>0, <1>t DEF Archive, session
  <2> QED
    BY <1>0, <2>1, SessionSame
<1>1. CASE Skip(p) \/ DocumentFlushed(p) \/ ListFlushed(p) \/ LastFlush(p)
  <2>1. /\ UNCHANGED <<dirty, held, store>>
        /\ \E l \in {"document", "flush", "chunk", "row"} : pc' = [pc EXCEPT ![p] = l]
    <3>1. CASE ListFlushed(p)
      BY <3>1 DEF ListFlushed, session
    <3>2. CASE Skip(p)
      BY <1>t, <3>2 DEF Skip
    <3>3. CASE DocumentFlushed(p)
      BY <3>3 DEF DocumentFlushed, AfterDocument, session
    <3>4. CASE LastFlush(p)
      BY <3>4 DEF LastFlush, session
    <3> QED
      BY <1>1, <3>1, <3>2, <3>3, <3>4
  <2> QED
    BY <1>t, <2>1, SessionSame
<1>2. CASE UpsertDocument(p)
  <2>1. pos[p] \in Kept(p) /\ UNCHANGED <<held, store>>
    BY <1>2 DEF UpsertDocument, Persisting
  <2>2. PICK found \in BOOLEAN : found <=> Finds(p, <<"doc", Item(p)>>)
    OBVIOUS
  <2>3. PICK own \in BOOLEAN : own <=> (~found \/ doc[Item(p)] # Ticker(p))
    OBVIOUS
  <2>4. Touch(p, Write(p, "doc", ~found, own)) /\ pc'[p] \notin {"savepoint", "reselect", "failed"}
    <3>1. CASE found
      <4>1. found = TRUE /\ own = (doc[Item(p)] # Ticker(p))
        BY <2>3, <3>1
      <4>2. Touch(p, Write(p, "doc", FALSE, doc[Item(p)] # Ticker(p))) /\ pc' = [pc EXCEPT ![p] = AfterDocument(p)]
        BY <1>2, <2>2, <3>1 DEF UpsertDocument
      <4>3. pc'[p] \in {"chunk", "row"}
        BY <1>t, <4>2 DEF AfterDocument
      <4> QED
        BY <4>1, <4>2, <4>3
    <3>2. CASE ~found
      <4>1. found = FALSE /\ own = TRUE
        BY <2>3, <3>2
      <4>2. Touch(p, Write(p, "doc", TRUE, TRUE)) /\ pc' = [pc EXCEPT ![p] = "flush document"]
        BY <1>2, <2>2, <3>2 DEF UpsertDocument
      <4> QED
        BY <1>t, <4>1, <4>2
    <3> QED
      BY <3>1, <3>2
  <2>5. PICK make \in BOOLEAN : make = ~found
    OBVIOUS
  <2>6. Touch(p, Write(p, "doc", make, own)) /\ (make <=> ~Finds(p, <<"doc", Item(p)>>))
    BY <2>2, <2>4, <2>5
  <2> QED
    BY <2>1, <2>4, <2>6, WriteSight
<1>3. CASE UpsertChunk(p)
  <2>1. pos[p] \in Kept(p) /\ UNCHANGED <<got, pos, held, store>>
    BY <1>3 DEF UpsertChunk, Persisting, fetch
  <2>2. PICK slot : slot = <<"chunk", Item(p), Ticker(p)>>
    OBVIOUS
  <2>3. Slot(p, Write(p, "chunk", FALSE, FALSE)) = slot
    BY <2>2 DEF Slot, Write
  <2>4. CASE Finds(p, slot)
    <3>1. Touch(p, Write(p, "chunk", FALSE, FALSE)) /\ pc' = [pc EXCEPT ![p] = "row"]
      BY <1>3, <2>3, <2>4 DEF UpsertChunk
    <3>2. PICK no \in BOOLEAN : no = FALSE
      OBVIOUS
    <3>3. Touch(p, Write(p, "chunk", no, no)) /\ (no <=> ~Finds(p, slot))
      BY <2>4, <3>1, <3>2
    <3>4. pc'[p] = "row"
      BY <1>t, <3>1
    <3> QED
      BY <2>1, <2>2, <3>3, <3>4, WriteSight
  <2>5. CASE ~Finds(p, slot)
    <3>1. UNCHANGED dirty /\ pc' = [pc EXCEPT ![p] = "savepoint"]
      BY <1>3, <2>3, <2>5 DEF UpsertChunk
    <3>2. ~Committed(<<"chunk", Item(p), Ticker(p)>>)
      BY <2>2, <2>5 DEF Finds
    <3>3. Item(p)' = Item(p) /\ Ticker(p)' = Ticker(p)
      BY <2>1 DEF Item, Items, Ticker
    <3>4. ~Committed(<<"chunk", Item(p), Ticker(p)>>)'
      BY <2>1, <3>2, <3>3 DEF Committed, store
    <3>5. pc'[p] = "savepoint"
      BY <1>t, <3>1
    <3>6. ASSUME NEW v \in dirty[p]
          PROVE  v.make # Finds(p, Slot(p, v))'
      <4>1. v.make # Finds(p, Slot(p, v))
        BY DEF StoreSight
      <4>2. Slots(p, held[p])' = Slots(p, held[p]) /\ Slot(p, v)' = Slot(p, v)
        BY <2>1 DEF Slots, Slot, Ticker
      <4>3. Finds(p, Slot(p, v))' = Finds(p, Slot(p, v))
        BY <2>1, <4>2 DEF Finds, Committed, store
      <4> QED
        BY <4>1, <4>3
    <3> QED
      BY <3>1, <3>4, <3>5, <3>6 DEF StoreSight
  <2> QED
    BY <2>4, <2>5
<1>4. CASE InsertChunk(p)
  <2>1. pc[p] = "savepoint" /\ dirty[p] = {} /\ UNCHANGED dirty /\ pos[p] \in Kept(p)
    BY <1>4 DEF InsertChunk, Persisting
  <2>2. PICK w : w = Write(p, "chunk", TRUE, TRUE)
    OBVIOUS
  <2>3. Slot(p, w) = <<"chunk", Item(p), Ticker(p)>>
    BY <2>2 DEF Slot, Write
  <2>4. ~Committed(Slot(p, w))
    BY <2>1, <2>3 DEF StoreSight
  <2>5. pc' = [pc EXCEPT ![p] = "row"]
    BY <1>4, <2>2, <2>4 DEF InsertChunk
  <2> QED
    BY <1>t, <2>1, <2>5 DEF StoreSight
<1>5. ~ReselectChunk(p)
  BY DEF ReselectChunk, Persisting, StoreSight
<1>6. CASE UpsertRow(p)
  <2>1. /\ pos[p] \in Kept(p) /\ UNCHANGED <<held, store>>
        /\ \E l \in {"document", "flush list"} : pc' = [pc EXCEPT ![p] = l]
    BY <1>6 DEF UpsertRow, Persisting, AfterRow
  <2>2. PICK there \in BOOLEAN : there <=> Finds(p, <<"row", Item(p)>>)
    OBVIOUS
  <2>3. PICK own \in BOOLEAN : own <=> (~there \/ row[Item(p)] # Ticker(p))
    OBVIOUS
  <2>4. PICK make \in BOOLEAN : make = ~there
    OBVIOUS
  <2>5. Touch(p, Write(p, "row", make, own))
    <3>1. Finds(p, <<"row", Item(p)>>) \in BOOLEAN
      BY DEF Finds
    <3>2. there = Finds(p, <<"row", Item(p)>>) /\ own = (~there \/ row[Item(p)] # Ticker(p))
      BY <2>2, <2>3, <3>1
    <3>3. Touch(p, Write(p, "row", ~there, ~there \/ row[Item(p)] # Ticker(p)))
      BY <1>6, <3>2 DEF UpsertRow
    <3> QED
      BY <2>4, <3>2, <3>3
  <2>6. make <=> ~Finds(p, <<"row", Item(p)>>)
    BY <2>2, <2>4
  <2>7. pc'[p] \in {"document", "flush list"}
    BY <1>t, <2>1
  <2> QED
    BY <2>1, <2>5, <2>6, <2>7, WriteSight
<1>7. CASE Flush(p)
  <2>1. PICK w \in dirty[p] :
          IF w.make = Finds(p, Slot(p, w))
            THEN Failed(p)
            ELSE /\ dirty' = [dirty EXCEPT ![p] = @ \ {w}]
                 /\ held' = [held EXCEPT ![p] = @ \cup {w}]
                 /\ UNCHANGED pc
    BY <1>7 DEF Flush
  <2>2. w.make # Finds(p, Slot(p, w))
    BY DEF StoreSight
  <2>3. /\ dirty' = [dirty EXCEPT ![p] = dirty[p] \ {w}] /\ held' = [held EXCEPT ![p] = held[p] \cup {w}]
        /\ UNCHANGED pc
    BY <2>1, <2>2
  <2>4. /\ pc[p] \in {"flush document", "savepoint", "flush list", "flush"} /\ UNCHANGED <<got, pos, store>>
        /\ dirty'[p] = dirty[p] \ {w} /\ held'[p] = held[p] \cup {w}
    BY <1>7, <1>t, <2>3 DEF Flush, Flushing, fetch
  <2>5. ASSUME NEW v \in dirty'[p]
        PROVE  v.make # Finds(p, Slot(p, v))'
    <3>1. v \in dirty[p] /\ v # w
      BY <2>4
    <3>2. Slot(p, v) # Slot(p, w)
      BY <3>1, SlotsDiffer
    <3>3. Slot(p, v)' = Slot(p, v) /\ Slots(p, held[p])' = Slots(p, held'[p])
      BY DEF Slots, Slot, Ticker
    <3>4. Slots(p, held'[p]) = Slots(p, held[p]) \cup {Slot(p, w)}
      <4>1. held'[p] = held[p] \cup {w}
        BY <2>4
      <4> QED
        BY <4>1 DEF Slots
    <3>5. Finds(p, Slot(p, v))' = Finds(p, Slot(p, v))
      BY <2>4, <3>2, <3>3, <3>4 DEF Finds, Committed, store
    <3> QED
      BY <3>1, <3>5 DEF StoreSight
  <2>6. Item(p)' = Item(p) /\ Ticker(p)' = Ticker(p)
    BY <2>4 DEF Item, Items, Ticker
  <2>7. pc[p] = "savepoint" => ~Committed(<<"chunk", Item(p), Ticker(p)>>)'
    BY <2>4, <2>6 DEF StoreSight, Committed, store
  <2> QED
    BY <2>3, <2>4, <2>5, <2>7 DEF StoreSight
<1>8. CASE Commit(p)
  <2>1. dirty' = dirty /\ dirty[p] = {} /\ pc'[p] \in {"succeeded", "partial_failed"}
    BY <1>8, <1>t DEF Commit, Result
  <2> QED
    BY <2>1 DEF StoreSight
<1>9. CASE DataError(p) \/ Victim(p) \/ Kill(p)
  <2>1. /\ dirty' = [dirty EXCEPT ![p] = {}]
        /\ \/ pc' = [pc EXCEPT ![p] = "failed"] /\ (Victim(p) \/ DataError(p))
           \/ pc' = [pc EXCEPT ![p] = "dead"]
    BY <1>9 DEF DataError, Victim, Failed, Kill
  <2>2. dirty'[p] = {} /\ pc'[p] \in {"failed", "dead"} /\ (pc'[p] = "failed" => Victim(p) \/ DataError(p))
    BY <1>t, <2>1
  <2> QED
    BY <2>2 DEF StoreSight
<1> QED
  BY <1>0, <1>1, <1>2, <1>3, <1>4, <1>5, <1>6, <1>7, <1>8, <1>9 DEF Persist

\* A run whose data is refused has it among its items.
LEMMA UnfitIsKept ==
  ASSUME FetchInv, PlacedInv, NEW p \in Runs, DataError(p)
  PROVE  HasUnfit(p)
<1>1. CASE \E w \in dirty[p] : ~Fits(w)
  <2>1. PICK w \in dirty[p] : <<w.what, w.key>> \in Unfit
    BY <1>1 DEF Fits
  <2>2. w.what \in {"doc", "chunk", "row"}
    BY WritesServed
  <2>3. w.pos \in Kept(p) /\ w.key = Items(p)[w.pos]
    BY DEF PlacedInv, SessionIsPlaced, WriteIsPlaced
  <2> QED
    BY <2>1, <2>2, <2>3 DEF HasUnfit
<1>2. CASE pos[p] \in Kept(p) /\ <<"chunk", Item(p)>> \in Unfit
  BY <1>2 DEF HasUnfit, Item
<1> QED
  BY <1>1, <1>2 DEF DataError, Persisting

\* A run that PostgreSQL aborts has waited for a rival.
LEMMA VictimRival ==
  ASSUME Inv, FetchInv, PlacedInv, NEW p \in Runs, Victim(p)
  PROVE  HasRival(p)
<1>1. PICK y : WaitsFor(p, y)
  BY DEF Victim, Deadlocked
<1>2. p # Sweeper
  BY StoreAssumption
<1>3. ASSUME NEW w, w.what \in {"doc", "chunk", "row"}, w.key \in Served(p), Active(p), y \in Blocker(p, Slot(p, w))
      PROVE  HasRival(p)
  <2>1. CASE y \in Runs \ {p} /\ Slot(p, w) \in Slots(y, held[y])
    <3>1. PICK v \in held[y] : Slot(p, w) = Slot(y, v)
      BY <2>1, SlotsShape
    <3>2. v.key = w.key
      <4>1. v.what \in {"doc", "chunk", "row"}
        BY <2>1, WritesServed
      <4>2. Slot(p, w)[2] = w.key
        <5>1. Slot(p, w) = <<w.what, w.key>> \/ Slot(p, w) = <<"chunk", w.key, Ticker(p)>>
          BY <2>1, SlotShape
        <5> QED
          BY <5>1
      <4>3. Slot(y, v)[2] = v.key
        <5>1. Slot(y, v) = <<v.what, v.key>> \/ Slot(y, v) = <<"chunk", v.key, Ticker(y)>>
          BY <2>1, SlotShape
        <5> QED
          BY <5>1
      <4> QED
        BY <3>1, <4>2, <4>3
    <3> QED
      BY <1>3, <2>1, <3>2, ItemRivals
  <2>2. CASE Slot(p, w)[1] = "chunk" /\ <<Slot(p, w)[3], Slot(p, w)[2]>> \in sweep.gone
    <3>1. w.what = "chunk"
      <4>1. CASE w.what # "chunk"
        <5>1. Slot(p, w) = <<w.what, w.key>>
          BY <4>1, SlotShape
        <5> QED
          BY <2>2, <4>1, <5>1
      <4> QED
        BY <4>1
    <3>2. Slot(p, w) = <<"chunk", w.key, Ticker(p)>>
      BY <3>1, SlotShape
    <3>3. <<Ticker(p), w.key>> \in sweep.gone
      BY <2>2, <3>2
    <3> QED
      BY <1>3, <3>3, SweepRivals
  <2> QED
    BY <1>3, <2>1, <2>2 DEF Blocker
<1>4. CASE Flushing(p) /\ \E w \in dirty[p] : Fits(w) /\ y \in Blocker(p, Slot(p, w))
  <2>1. PICK w \in dirty[p] : y \in Blocker(p, Slot(p, w))
    BY <1>4
  <2>2. Active(p)
    BY <1>4 DEF Flushing, Active, Ended
  <2> QED
    BY <1>3, <2>1, <2>2, WritesServed
<1>5. CASE Persisting(p, "savepoint") /\ y \in Blocker(p, Slot(p, Write(p, "chunk", TRUE, TRUE)))
  <2>1. pos[p] \in Kept(p) /\ Active(p)
    BY <1>5 DEF Persisting, Active, Ended
  <2>2. PICK w : w = Write(p, "chunk", TRUE, TRUE)
    OBVIOUS
  <2>3. w.what = "chunk" /\ w.key = Item(p)
    BY <2>2 DEF Write
  <2>4. w.key \in Served(p)
    BY <2>1, <2>3, DealtItem
  <2>5. y \in Blocker(p, Slot(p, w))
    BY <1>5, <2>2
  <2> QED
    BY <1>3, <2>1, <2>3, <2>4, <2>5
<1> QED
  BY <1>1, <1>2, <1>4, <1>5 DEF WaitsFor

\* What the runs have seen of the cache and the store.
SightInv == \A r \in Runs : SightIsCurrent(r)

\* What a run has seen stays so, or it gets a rival.
LEMMA SightStep ==
  ASSUME Inv, FetchInv, PlacedInv, SightInv, [Next]_vars
  PROVE  SightInv'
<1>0. UNCHANGED ask
  BY StepForms
<1>1. SUFFICES ASSUME NEW p \in Runs
               PROVE  SightIsCurrent(p)'
  BY DEF SightInv
<1>2. CacheSight(p) /\ SessionSight(p)
  BY SightParts DEF SightInv
<1>3. CacheSight(p)'
  BY <1>2, CacheSightStep
<1>4. SessionSight(p)'
  <2>1. CASE HasRival(p)
    BY <2>1, RivalsStay DEF SessionSight
  <2>2. CASE Fetch(p)
    BY <1>0, <2>2, FetchSight DEF SessionSight
  <2>3. CASE ~HasRival(p) /\ (Persist(p) \/ Kill(p))
    <3>1. CASE Repeats(p)
      <4>1. got' = got
        BY <1>0, <2>3, PersistKeepsCalls DEF fetch
      <4>2. Items(p)' = Items(p) /\ Kept(p)' = Kept(p)
        BY <1>0, <4>1, ItemStays
      <4> QED
        BY <3>1, <4>2 DEF Repeats, SessionSight
    <3>2. CASE ~Repeats(p)
      BY <1>0, <1>2, <2>3, <3>2, PersistSight DEF SessionSight
    <3> QED
      BY <3>1, <3>2
  <2>4. CASE ~HasRival(p) /\ ~Fetch(p) /\ ~Persist(p) /\ ~Kill(p)
    <3>1. CASE Repeats(p)
      <4>1. got'[p] = got[p]
        <5>1. ASSUME NEW q \in Runs \ {p}, Fetch(q) PROVE got'[p] = got[p]
          BY <5>1, FetchGoes
        <5>2. ASSUME NEW q \in Runs, Persist(q) \/ Kill(q) PROVE got'[p] = got[p]
          BY <1>0, <5>2, PersistKeepsCalls DEF fetch
        <5>3. CASE CleanUp
          BY <5>3 DEF CleanUp, Select, Delete, CommitSweep, SweepVictim, fetch
        <5>4. (\E q \in Runs : Fetch(q)) => \E q \in Runs \ {p} : Fetch(q)
          BY <2>4
        <5> QED
          BY <5>1, <5>2, <5>3, <5>4, StepForms DEF Idles
      <4>2. Items(p)' = Items(p) /\ Kept(p)' = Kept(p)
        BY <1>0, <4>1, ItemStays
      <4> QED
        BY <3>1, <4>2 DEF Repeats, SessionSight
    <3>2. CASE ~Repeats(p)
      BY <1>2, <2>4, <3>2, OthersSight DEF SessionSight
    <3> QED
      BY <3>1, <3>2
  <2> QED
    BY <2>1, <2>2, <2>3, <2>4
<1>5. SightIsCurrent(p)' <=> CacheSight(p)' /\ SessionSight(p)'
  BY DEF SightIsCurrent, CacheSight, StoreSight, SessionSight
<1> QED
  BY <1>3, <1>4, <1>5

\* Another run's call leaves a run's place.
LEMMA PlaceStays ==
  ASSUME FetchInv, NEW p \in Runs, NEW q \in Runs \ {p}, Fetch(q)
  PROVE  place'[p] = place[p]
<1>1. UNCHANGED place \/ \E x : place' = [place EXCEPT ![q] = x]
  BY DEF Fetch, Start, FromCache, NotReady, RequestResult, Combine, CacheSet, TakePart, TakeStatements, fetch
<1> QED
  BY <1>1 DEF FetchInv, FetchTypeOK

\* The archive is asked once the answer is complete.
LEMMA ArchivedStep ==
  ASSUME FetchInv, ArchiveComesFirst, [Next]_vars
  PROVE  ArchiveComesFirst'
<1>0. UNCHANGED ask
  BY StepForms
<1>1. CASE \E q \in Runs : Fetch(q)
  <2>1. PICK q \in Runs : Fetch(q)
    BY <1>1
  <2>2. /\ archived' = archived /\ pc'[q] \in Calling \cup {"archive", "failed"} /\ pc[q] \in Calling
        /\ \A x \in Runs \ {q} : pc'[x] = pc[x]
    BY <2>1, FetchGoes, FetchLeaves
  <2> QED
    BY <2>2 DEF ArchiveComesFirst
<1>2. CASE \E q \in Runs : Persist(q) \/ Kill(q)
  <2>1. PICK q \in Runs : Persist(q) \/ Kill(q)
    BY <1>2
  <2>2. /\ pc'[q] \notin Calling \cup {"archive"} /\ \A x \in Runs \ {q} : pc'[x] = pc[x]
        /\ pc'[q] \in {"failed", "dead"} \/ pc[q] \notin Calling \cup Ended
        /\ pc'[q] \in {"failed", "dead"} \/ Archive(q) \/ pc[q] # "archive"
    BY <1>0, <2>1, PersistKeepsCalls
  <2>3. archived' \subseteq archived \cup {q} /\ archived \subseteq archived'
    BY <2>1, PersistLeaves
  <2>4. ASSUME Archive(q)
        PROVE  pc'[q] = "failed" \/ q \in archived'
    BY <2>4 DEF Archive, FetchInv, FetchTypeOK
  <2> QED
    BY <2>2, <2>3, <2>4 DEF ArchiveComesFirst, Ended
<1>3. CASE CleanUp \/ Idles
  <2>1. archived' = archived /\ pc' = pc
    BY <1>3 DEF CleanUp, Select, Delete, CommitSweep, SweepVictim, Idles, history
  <2> QED
    BY <2>1 DEF ArchiveComesFirst
<1> QED
  BY <1>1, <1>2, <1>3, StepForms

\* A run that fails has a reason.
LEMMA FailStep ==
  ASSUME Inv, FetchInv, PlacedInv, SightInv, ArchiveComesFirst, FailuresNeedARival, [Next]_vars
  PROVE  FailuresNeedARival'
<1>0. UNCHANGED ask
  BY StepForms
<1>1. SUFFICES ASSUME NEW p \in Runs, pc'[p] = "failed"
               PROVE  \/ (Ticker(p) \notin Registered)' \/ Unarchived(p)' \/ Repeats(p)'
                      \/ HasUnfit(p)' \/ HasRival(p)'
  BY DEF FailuresNeedARival
<1>2. Ticker(p)' = Ticker(p) /\ (HasRival(p) => HasRival(p)')
  BY <1>0, RivalsStay DEF Ticker
<1>3. CASE Fetch(p)
  <2>1. Ticker(p) \notin Registered \/ (pc[p] = "cache" /\ ~note[p].found /\ cache[note[p].key].there)
    BY <1>1, <1>3, FetchGoes
  <2>2. CacheSight(p)
    BY SightParts DEF SightInv
  <2> QED
    BY <1>2, <2>1, <2>2 DEF CacheSight
<1>4. ASSUME got'[p] = got[p]
      PROVE  (Repeats(p)' <=> Repeats(p)) /\ (HasUnfit(p)' <=> HasUnfit(p))
  <2>1. Items(p)' = Items(p) /\ Kept(p)' = Kept(p)
    BY <1>0, <1>4, ItemStays
  <2> QED
    BY <2>1 DEF Repeats, HasUnfit
<1>5. CASE Persist(p) \/ Kill(p)
  <2>1. got' = got
    BY <1>0, <1>5, PersistKeepsCalls DEF fetch
  <2>2. SessionSight(p)
    BY SightParts DEF SightInv
  <2>3. CASE Repeats(p) \/ HasRival(p)
    BY <1>2, <1>4, <2>1, <2>3
  <2>4. CASE ~Repeats(p) /\ ~HasRival(p)
    <3>1. Victim(p) \/ DataError(p) \/ (Archive(p) /\ UNCHANGED archived)
      BY <1>0, <1>1, <1>5, <2>2, <2>4, PersistSight DEF SessionSight
    <3>2. ~Victim(p)
      BY <2>4, VictimRival
    <3>3. CASE DataError(p)
      BY <1>4, <2>1, <3>3, UnfitIsKept
    <3>4. CASE Archive(p) /\ UNCHANGED archived
      <4>1. pc[p] = "archive" /\ place' = place
        BY <3>4 DEF Archive, fetch
      <4>2. place[p].part > Len(Parts(p))
        BY <4>1 DEF FetchInv, CallsRest, PlaceRests, Calling
      <4>3. p \notin archived
        BY <4>1 DEF ArchiveComesFirst
      <4>4. Len(Parts(p))' = Len(Parts(p))
        BY <1>0 DEF Parts
      <4> QED
        BY <3>4, <4>1, <4>2, <4>3, <4>4 DEF Unarchived
    <3> QED
      BY <3>1, <3>2, <3>3, <3>4
  <2> QED
    BY <2>3, <2>4
<1>6. CASE ~Fetch(p) /\ ~Persist(p) /\ ~Kill(p)
  <2> DEFINE Waits ==
        got'[p] = got[p] /\ pc'[p] = pc[p] /\ place'[p] = place[p] /\ (p \in archived' => p \in archived)
  <2>1. Waits
    <3>1. ASSUME NEW q \in Runs \ {p}, Fetch(q) PROVE Waits
      BY <3>1, FetchGoes, FetchLeaves, PlaceStays
    <3>2. ASSUME NEW q \in Runs \ {p}, Persist(q) \/ Kill(q) PROVE Waits
      BY <1>0, <3>2, PersistKeepsCalls, PersistLeaves DEF fetch
    <3>3. CASE CleanUp
      BY <3>3 DEF CleanUp, Select, Delete, CommitSweep, SweepVictim, fetch, history
    <3>4. CASE Idles
      BY <3>4 DEF Idles, history
    <3>5. (\E q \in Runs : Fetch(q)) => \E q \in Runs \ {p} : Fetch(q)
      BY <1>6
    <3>6. (\E q \in Runs : Persist(q) \/ Kill(q)) => \E q \in Runs \ {p} : Persist(q) \/ Kill(q)
      BY <1>6
    <3> HIDE DEF Waits
    <3> QED
      BY <3>1, <3>2, <3>3, <3>4, <3>5, <3>6, StepForms
  <2>2. Len(Parts(p))' = Len(Parts(p))
    BY <1>0 DEF Parts
  <2>3. Unarchived(p) => Unarchived(p)'
    BY <2>1, <2>2 DEF Unarchived
  <2>4. Ticker(p) \notin Registered \/ Unarchived(p) \/ Repeats(p) \/ HasUnfit(p) \/ HasRival(p)
    BY <1>1, <2>1 DEF FailuresNeedARival
  <2> QED
    BY <1>2, <1>4, <2>1, <2>3, <2>4
<1> QED
  BY <1>3, <1>5, <1>6

\* The tickers a document and its row name, and what the runs know of them.
OwnerInv == OwnersAgree /\ OwnersAreKnown

\* A commit of another ticker's run contests the items it has in common.
LEMMA CommitContests ==
  ASSUME Inv, FetchInv, PlacedInv, NEW p \in Runs, NEW q \in Runs, Ticker(p) # Ticker(q),
         NEW w \in dirty[p] \cup held[p], NEW v \in held[q], v.key = w.key
  PROVE  Contested(w.key)
<1>1. p # q /\ dirty[p] \cup held[p] # {} /\ held[q] # {}
  OBVIOUS
<1>2. q \in met[p] /\ Active(p)
  BY <1>1, Actives
<1>3. w.key \in Served(p) /\ w.key \in Served(q)
  BY WritesServed
<1> QED
  BY <1>2, <1>3 DEF Contested

\* A run that does not write the ticker of a row has read it as its own.
LEMMA UnownedIsRead ==
  ASSUME FetchInv, PlacedInv, NEW p \in Runs, Persist(p) \/ Kill(p),
         NEW w \in dirty'[p] \cup held'[p], w \notin dirty[p] \cup held[p], w.what # "chunk", ~w.own
  PROVE  (doc[w.key] = Ticker(p) \/ row[w.key] = Ticker(p)) /\ w.key \in Keys /\ ~Commit(p)
<1>t. pc \in [Runs -> Labels] /\ dirty \in [Runs -> SUBSET Writes] /\ held \in [Runs -> SUBSET Writes]
  BY DEF FetchInv, FetchTypeOK, PlacedInv, StoreTypeOK
<1>1. ASSUME NEW v, Touch(p, v), UNCHANGED held
      PROVE  w = v
  <2>1. \/ dirty' = [dirty EXCEPT ![p] = dirty[p]]
        \/ dirty' = [dirty EXCEPT ![p] = dirty[p] \cup {v}]
    BY <1>1 DEF Touch
  <2> QED
    BY <1>t, <1>1, <2>1
<1>2. CASE UpsertDocument(p)
  <2>1. pos[p] \in Kept(p) /\ UNCHANGED held
    BY <1>2 DEF UpsertDocument, Persisting
  <2>2. CASE Touch(p, Write(p, "doc", FALSE, doc[Item(p)] # Ticker(p)))
    <3>1. w = Write(p, "doc", FALSE, doc[Item(p)] # Ticker(p))
      BY <1>1, <2>1, <2>2
    <3>2. w.key = Item(p) /\ (w.own <=> doc[Item(p)] # Ticker(p))
      BY <3>1 DEF Write
    <3> QED
      BY <1>2, <2>1, <3>2, DealtItem DEF UpsertDocument, Commit, Persisting
  <2>3. CASE Touch(p, Write(p, "doc", TRUE, TRUE))
    <3>1. w = Write(p, "doc", TRUE, TRUE)
      BY <1>1, <2>1, <2>3
    <3> QED
      BY <3>1 DEF Write
  <2> QED
    BY <1>2, <2>2, <2>3 DEF UpsertDocument
<1>3. CASE UpsertRow(p)
  <2>1. pos[p] \in Kept(p) /\ UNCHANGED held /\ pc[p] = "row"
    BY <1>3 DEF UpsertRow, Persisting
  <2>2. PICK there \in BOOLEAN : there = Finds(p, <<"row", Item(p)>>)
    BY DEF Finds
  <2>3. Touch(p, Write(p, "row", ~there, ~there \/ row[Item(p)] # Ticker(p)))
    BY <1>3, <2>2 DEF UpsertRow
  <2>4. w = Write(p, "row", ~there, ~there \/ row[Item(p)] # Ticker(p))
    BY <1>1, <2>1, <2>3
  <2>5. w.key = Item(p) /\ (w.own <=> ~there \/ row[Item(p)] # Ticker(p))
    BY <2>4 DEF Write
  <2> QED
    BY <2>1, <2>5, DealtItem DEF Commit
<1>4. CASE UpsertChunk(p) \/ ReselectChunk(p)
  <2>1. \/ Touch(p, Write(p, "chunk", FALSE, FALSE)) /\ UNCHANGED held
        \/ UNCHANGED <<dirty, held>> \/ Failed(p)
    BY <1>4 DEF UpsertChunk, ReselectChunk
  <2>2. CASE Touch(p, Write(p, "chunk", FALSE, FALSE)) /\ UNCHANGED held
    <3>1. w = Write(p, "chunk", FALSE, FALSE)
      BY <1>1, <2>2
    <3> QED
      BY <3>1 DEF Write
  <2>3. CASE Failed(p)
    BY <1>t, <2>3 DEF Failed
  <2> QED
    BY <2>1, <2>2, <2>3
<1>5. CASE InsertChunk(p)
  <2>1. UNCHANGED dirty /\ (UNCHANGED held \/ held' = [held EXCEPT ![p] = held[p] \cup {Write(p, "chunk", TRUE, TRUE)}])
    BY <1>5 DEF InsertChunk
  <2>2. w = Write(p, "chunk", TRUE, TRUE)
    BY <1>t, <2>1
  <2> QED
    BY <2>2 DEF Write
<1>6. CASE Archive(p) \/ Skip(p) \/ DocumentFlushed(p) \/ ListFlushed(p) \/ LastFlush(p)
  <2>1. UNCHANGED <<dirty, held>>
    BY <1>6 DEF Archive, Skip, DocumentFlushed, ListFlushed, LastFlush, session
  <2> QED
    BY <2>1
<1>7. CASE Flush(p)
  <2>1. PICK v \in dirty[p] :
          Failed(p) \/ /\ dirty' = [dirty EXCEPT ![p] = dirty[p] \ {v}]
                       /\ held' = [held EXCEPT ![p] = held[p] \cup {v}]
    BY <1>7 DEF Flush
  <2>2. \/ dirty'[p] = {} /\ held'[p] = {}
        \/ dirty'[p] = dirty[p] \ {v} /\ held'[p] = held[p] \cup {v}
    BY <1>t, <2>1 DEF Failed
  <2> QED
    BY <2>2
<1>8. CASE Commit(p) \/ DataError(p) \/ Victim(p) \/ Kill(p)
  <2>1. held'[p] = {} /\ dirty'[p] \subseteq dirty[p]
    BY <1>t, <1>8 DEF Commit, DataError, Victim, Failed, Kill
  <2> QED
    BY <2>1
<1> QED
  BY <1>2, <1>3, <1>4, <1>5, <1>6, <1>7, <1>8 DEF Persist

\* What a commit does to the tickers a document and its row name.
LEMMA OwnersCommit ==
  ASSUME Inv, FetchInv, PlacedInv, OwnerInv, NEW q \in Runs, Commit(q), UNCHANGED ask, NEW k \in Keys,
         doc'[k] # row'[k]
  PROVE  Contested(k)
<1>1. /\ dirty[q] = {} /\ pc[q] = "flush"
      /\ doc'[k] = IF Owns(q, "doc", k) THEN Ticker(q) ELSE doc[k]
      /\ row'[k] = IF Owns(q, "row", k) THEN Ticker(q) ELSE row[k]
  BY DEF Commit
<1>2. SessionIsWhole(q) /\ ~DealsWith(q, k)
  BY <1>1 DEF Inv, SessionsAreWhole, DealsWith, Dealing
<1>3. dirty[q] \cup held[q] = held[q]
  BY <1>1
<1>4. <<"row", k>> \in Touched(q) <=> <<"doc", k>> \in Touched(q)
  BY <1>2 DEF SessionIsWhole
<1>5. ASSUME NEW what \in {"doc", "row"}, NEW other \in {"doc", "row"}, Owns(q, what, k), ~Owns(q, other, k)
      PROVE  doc[k] = Ticker(q) \/ Contested(k)
  <2>1. PICK w \in held[q] : w.what = what /\ w.key = k
    BY <1>5 DEF Owns
  <2>2. <<what, k>> \in Touched(q)
    <3>1. Slot(q, w) = <<what, k>>
      BY <2>1, SlotShape
    <3> QED
      BY <1>3, <3>1 DEF Touched, Slots
  <2>3. <<other, k>> \in Touched(q)
    BY <1>4, <2>2
  <2>4. PICK v \in held[q] : Slot(q, v) = <<other, k>>
    BY <1>3, <2>3 DEF Touched, Slots
  <2>5. v.what = other /\ v.key = k
    BY <2>4, SlotShape
  <2>6. ~v.own
    BY <1>5, <2>5 DEF Owns
  <2> QED
    BY <2>5, <2>6 DEF OwnerInv, OwnersAreKnown
<1>6. doc[k] # row[k] => Contested(k)
  BY DEF OwnerInv, OwnersAgree
<1>7. CASE Owns(q, "doc", k) /\ ~Owns(q, "row", k)
  BY <1>1, <1>5, <1>6, <1>7
<1>8. CASE ~Owns(q, "doc", k) /\ Owns(q, "row", k)
  BY <1>1, <1>5, <1>6, <1>8
<1> QED
  BY <1>1, <1>6, <1>7, <1>8

\* A document and its row name one ticker, except after runs that have contested it.
LEMMA OwnersStep ==
  ASSUME Inv, FetchInv, PlacedInv, OwnerInv, [Next]_vars
  PROVE  OwnerInv'
<1>0. UNCHANGED ask /\ \A p \in Runs : Ticker(p)' = Ticker(p)
  BY StepForms DEF Ticker
<1>1. OwnersAgree'
  <2>1. SUFFICES ASSUME NEW k \in Keys, doc'[k] # row'[k]
                 PROVE  Contested(k)'
    BY DEF OwnersAgree
  <2>2. Contested(k)
    BY <1>0, <2>1, StoreLeaves, OwnersCommit DEF OwnerInv, OwnersAgree
  <2> QED
    BY <2>2, ContestsStay
<1>2. ASSUME NEW p \in Runs, NEW w \in dirty[p] \cup held[p], w.what # "chunk", ~w.own
      PROVE  doc'[w.key] = Ticker(p) \/ Contested(w.key)'
  <2>1. doc[w.key] = Ticker(p) \/ Contested(w.key)
    BY <1>2 DEF OwnerInv, OwnersAreKnown
  <2>2. CASE Contested(w.key)
    BY <2>2, ContestsStay
  <2>3. CASE doc'[w.key] = doc[w.key]
    BY <2>1, <2>2, <2>3
  <2>4. CASE doc'[w.key] # doc[w.key]
    <3>1. PICK q \in Runs : Commit(q)
      BY <2>4, StoreLeaves
    <3>2. w.key \in Keys
      BY WritesServed
    <3>3. Owns(q, "doc", w.key) /\ doc'[w.key] = Ticker(q)
      BY <2>4, <3>1, <3>2 DEF Commit
    <3>4. PICK v \in held[q] : v.key = w.key
      BY <3>3 DEF Owns
    <3>5. CASE Ticker(p) # Ticker(q)
      BY <3>4, <3>5, CommitContests, ContestsStay
    <3> QED
      BY <3>3, <3>5
  <2> QED
    BY <2>3, <2>4
<1>3. ASSUME NEW p \in Runs, NEW w \in dirty'[p] \cup held'[p], w.what # "chunk", ~w.own
      PROVE  doc'[w.key] = Ticker(p) \/ Contested(w.key)'
  <2>1. CASE w \in dirty[p] \cup held[p]
    BY <1>2, <1>3, <2>1
  <2>2. CASE w \notin dirty[p] \cup held[p]
    <3>1. Persist(p) \/ Kill(p)
      <4>1. ASSUME NEW q \in Runs, Fetch(q) PROVE UNCHANGED session
        BY <4>1, FetchLeaves
      <4>2. ASSUME NEW q \in Runs \ {p}, Persist(q) \/ Kill(q) PROVE dirty'[p] = dirty[p] /\ held'[p] = held[p]
        <5>1. SessionIsPlaced(q) /\ SessionTypeOK
          BY DEF PlacedInv, StoreTypeOK, SessionTypeOK
        <5> QED
          BY <1>0, <4>2, <5>1, PersistPlaced DEF SessionOnly
      <4>3. CASE CleanUp
        BY <1>3, <2>2, <4>3 DEF CleanUp, Select, Delete, CommitSweep, SweepVictim, session
      <4>4. CASE Idles
        BY <1>3, <2>2, <4>4 DEF Idles, session
      <4> QED
        BY <1>3, <2>2, <4>1, <4>2, <4>3, <4>4, StepForms DEF session
    <3>2. (doc[w.key] = Ticker(p) \/ row[w.key] = Ticker(p)) /\ w.key \in Keys /\ ~Commit(p)
      BY <1>3, <2>2, <3>1, UnownedIsRead
    <3>3. doc[w.key] = Ticker(p) \/ Contested(w.key)
      BY <3>2 DEF OwnerInv, OwnersAgree
    <3>4. UNCHANGED <<doc, row>>
      BY <3>1, <3>2, PersistLeaves DEF store
    <3> QED
      BY <3>3, <3>4, ContestsStay
  <2> QED
    BY <2>1, <2>2
<1>4. OwnersAreKnown'
  BY <1>0, <1>3 DEF OwnersAreKnown
<1> QED
  BY <1>1, <1>4 DEF OwnerInv

\* At first nobody has seen anything.
LEMMA InitSight ==
  Init => SightInv /\ FailuresNeedARival /\ OwnerInv /\ ArchiveComesFirst
<1> SUFFICES ASSUME Init PROVE SightInv /\ FailuresNeedARival /\ OwnerInv /\ ArchiveComesFirst
  OBVIOUS
<1>1. /\ \A r \in Runs : pc[r] = "idle" /\ dirty[r] = {} /\ held[r] = {}
      /\ row = doc /\ archived = {}
  BY DEF Init
<1>2. SightInv
  BY <1>1 DEF SightInv, SightIsCurrent
<1>3. FailuresNeedARival
  BY <1>1 DEF FailuresNeedARival
<1>4. OwnerInv
  BY <1>1 DEF OwnerInv, OwnersAgree, OwnersAreKnown
<1>5. ArchiveComesFirst
  BY <1>1 DEF ArchiveComesFirst, Calling
<1> QED
  BY <1>2, <1>3, <1>4, <1>5

\* However ingestions, provider answers and the clean-up interleave, the whole state is
\* consistent.
THEOREM StateIsConsistent ==
  Spec => []IInv
<1>1. Inv /\ FetchInv /\ PlacedInv /\ SightInv /\ [Next]_vars => SightInv'
  BY SightStep
<1>2. Inv /\ FetchInv /\ PlacedInv /\ OwnerInv /\ [Next]_vars => OwnerInv'
  BY OwnersStep
<1>3. FetchInv /\ ArchiveComesFirst /\ [Next]_vars => ArchiveComesFirst'
  BY ArchivedStep
<1>4. Spec => []SightInv /\ []OwnerInv /\ []ArchiveComesFirst
  BY <1>1, <1>2, <1>3, InitSight, Invariance, CallsAlwaysRest, SessionsStayPlaced, PTL DEF Spec
<1>5. Inv /\ FetchInv /\ PlacedInv /\ SightInv /\ OwnerInv /\ ArchiveComesFirst => IInv
  BY DEF IInv, Inv, FetchInv, PlacedInv, SightInv, OwnerInv, TypeOK, SessionsArePlaced
<1> QED
  BY <1>4, <1>5, Invariance, CallsAlwaysRest, SessionsStayPlaced, PTL

\* A run fails only for an unregistered ticker, without its archive, for an item that its
\* answer repeats or a column refuses, or beside another actor it shares a cached call or
\* an item with.
THEOREM FailuresAlwaysNeedARival ==
  Spec => []FailuresNeedARival
<1>1. Inv /\ FetchInv /\ PlacedInv /\ SightInv /\ [Next]_vars => SightInv'
  BY SightStep
<1>2. /\ Inv /\ FetchInv /\ PlacedInv /\ SightInv /\ ArchiveComesFirst /\ FailuresNeedARival /\ [Next]_vars
      => FailuresNeedARival'
  BY FailStep
<1>3. FetchInv /\ ArchiveComesFirst /\ [Next]_vars => ArchiveComesFirst'
  BY ArchivedStep
<1> QED
  BY <1>1, <1>2, <1>3, InitSight, Invariance, CallsAlwaysRest, SessionsStayPlaced, PTL DEF Spec

=============================================================================
