-------------------------------- MODULE Chat --------------------------------
(***************************************************************************)
(* POST /chat from the stored evidence to the stored exchange, with the    *)
(* mock, Bedrock and AgentCore providers, the AgentCore runtime behind the *)
(* last one, and POST /me/chat-sessions, which creates sessions too.       *)
(*                                                                         *)
(* An answer is what the guards can tell of it: whether it says anything   *)
(* outside brackets and hidden reasoning, the evidence ids it cites,       *)
(* whether it holds prohibited terms, hidden reasoning, and artifacts that *)
(* normalisation leaves.                                                   *)
(***************************************************************************)
EXTENDS Integers, SequencesExt

CONSTANTS
  Calls,        \* requests
  Users, Guest, \* who makes them
  Named,        \* session ids a client may send
  NoSession,    \* the session id of a request that sends none
  Nobody,       \* the owner of a session that does not exist
  Evidence,     \* evidence ids
  Inputs,       \* what a request may ask, and the stored data it finds
  Deployments,  \* provider settings
  Answers,      \* what a model may answer
  FewCitations, \* 2: below it the other evidence is cited too
  MaxCitations, \* 4
  MaxAttempts,  \* 2: MAX_AGENTCORE_RUNTIME_ATTEMPTS, and the citation retry
  MaxTurns      \* agentcore_runtime_max_turns

\* A request that names no session is given a fresh id, which stands for itself.
Sessions == Named \cup Calls

Answer == [text : BOOLEAN, cites : SUBSET Evidence, unsafe : BOOLEAN,
           hidden : BOOLEAN, loose : BOOLEAN]

Input == [user : Users \cup {Guest}, chats : BOOLEAN, session : Named \cup {NoSession},
          found : BOOLEAN, policy : {"allowed", "redirected", "blocked"},
          reasons : Seq(Evidence), evidence : Seq(Evidence)]

Deployment == [provider : {"mock", "bedrock", "agentcore", "other"},
               valid : BOOLEAN, dev : BOOLEAN]

ASSUME LimitsAssumption ==
  MaxCitations \in Nat /\ FewCitations \in Nat /\ MaxAttempts \in Nat \ {0} /\ MaxTurns \in Nat

ASSUME NamesAssumption ==
  /\ Calls \cap Named = {} /\ NoSession \notin Named \cup Calls
  /\ Guest \notin Users /\ Nobody \notin Users \cup {Guest}

\* Only a signed-in user can create a session. Evidence items have ids of their own
\* (uq_evidence_chunks_evidence_id; a statement's period and a price's date name theirs).
ASSUME InputsAssumption ==
  Inputs \subseteq Input /\ \A i \in Inputs : (i.chats \/ i.user # Guest) /\ IsInjective(i.evidence)

ASSUME AnswersAssumption == Answers \subseteq Answer /\ Deployments \subseteq Deployment

VARIABLES
  deployed,  \* the settings of the deployment
  input,     \* input[r]: the request and the data it reads
  pc,        \* pc[r]: what the request does next, or how it ended
  calls,     \* calls[r]: model or runtime invocations so far
  turns,     \* turns[r]: tools the runtime has called in this invocation
  reply,     \* reply[r]: the answer so far, who composed it, its citations
  owner,     \* owner[s]: the committed owner of session s
  messages,  \* messages[s]: the committed messages, by request and role
  draft      \* draft[r]: the request has inserted its session, uncommitted

tables == <<owner, messages>>
vars == <<deployed, input, pc, calls, turns, reply, tables, draft>>

Ended == {"answered", "unavailable", "conflict", "missing", "dead"}

User(r) == input[r].user
Target(r) == IF input[r].session = NoSession THEN r ELSE input[r].session

-----------------------------------------------------------------------------
\* The composer.

\* Mutation: the first citations are taken before the evidence is looked up.
MutCitations(i) ==
  SubSeq(i.reasons, 1, IF Len(i.reasons) < MaxCitations THEN Len(i.reasons) ELSE MaxCitations)

\* The elements of s at the places P, in their order.
Picked(s, P) ==
  [n \in 1..Cardinality(P) |-> s[CHOOSE p \in P : Cardinality({q \in P : q < p}) = n - 1]]

\* The evidence of the reasons, each once and in their order; with few, the rest too.
Citations(i) ==
  LET chosen == Picked(i.reasons, {n \in DOMAIN i.reasons :
                  i.reasons[n] \in ToSet(i.evidence) \ {i.reasons[m] : m \in 1..(n - 1)}})
      others == Picked(i.evidence, {n \in DOMAIN i.evidence : i.evidence[n] \notin ToSet(chosen)})
      ranked == IF Len(chosen) < FewCitations THEN chosen \o others ELSE chosen
  IN SubSeq(ranked, 1, IF Len(ranked) < MaxCitations THEN Len(ranked) ELSE MaxCitations)

\* The ids a model is offered and may cite.
Allowed(i) == ToSet(Citations(i))

Composed(i) ==
  [by |-> "composer", citations |-> Citations(i),
   answer |-> [text |-> TRUE, cites |-> {}, unsafe |-> FALSE, hidden |-> FALSE, loose |-> FALSE]]

\* Hidden reasoning and bracketed references are removed.
Normalised(a) ==
  [text |-> a.text, cites |-> {}, unsafe |-> a.unsafe, hidden |-> FALSE, loose |-> a.loose]

-----------------------------------------------------------------------------
\* The guards on an answer.

IsEmpty(a) == ~a.text /\ ~a.hidden /\ ~a.loose /\ a.cites = {}

CitesOnly(a, ids) == a.cites # {} /\ a.cites \subseteq ids

\* AgentCore's citations are taken from all the evidence of the request.
AgentCitations(a, i) ==
  LET cited == Picked(i.evidence, {n \in DOMAIN i.evidence : i.evidence[n] \in a.cites})
  IN IF a.cites = {} \/ cited = <<>> THEN Citations(i) ELSE cited

\* Mutation: the unsafe guard is skipped when the answer is the citation retry's.
MutBedrockVerdict(a, i, n) ==
  CASE IsEmpty(a) -> "fail"
    [] n = 1 /\ a.unsafe -> "fail"
    [] CitesOnly(a, Allowed(i)) -> "take"
    [] OTHER -> IF n < MaxAttempts THEN "again" ELSE "fail"

\* What Bedrock's provider makes of the answer of its n-th call.
BedrockVerdict(a, i, n) ==
  CASE IsEmpty(a) \/ a.unsafe -> "fail"
    [] ~IsEmpty(a) /\ ~a.unsafe /\ CitesOnly(a, Allowed(i)) -> "take"
    [] OTHER -> IF n < MaxAttempts THEN "again" ELSE "fail"

AgentVerdict(a, i) ==
  CASE IsEmpty(a) -> "fail"
    [] ~IsEmpty(a) /\ a.hidden -> "compose"
    [] ~IsEmpty(a) /\ ~a.hidden /\ ~a.unsafe
         /\ CitesOnly(a, ToSet(AgentCitations(a, i))) -> "take"
    [] OTHER -> "fail"

-----------------------------------------------------------------------------

NoReply == [by |-> "none"]

Init ==
  /\ deployed \in Deployments
  /\ input \in [Calls -> Inputs]
  /\ pc = [r \in Calls |-> "idle"]
  /\ calls = [r \in Calls |-> 0]
  /\ turns = [r \in Calls |-> 0]
  /\ reply = [r \in Calls |-> NoReply]
  /\ owner = [s \in Sessions |-> Nobody]
  /\ messages = [s \in Sessions |-> {}]
  /\ draft = [r \in Calls |-> FALSE]

At(r, label) == pc[r] = label
GoTo(r, label) == pc' = [pc EXCEPT ![r] = label]

\* The candidate and its evidence are read, and the session is closed.
Read(r) ==
  /\ At(r, "idle") /\ input[r].chats
  /\ GoTo(r, IF input[r].found THEN "compose" ELSE "missing")
  /\ UNCHANGED <<deployed, input, calls, turns, reply, tables, draft>>

\* A refused question is answered by the composer, whatever the provider.
AsksModel(r) ==
  /\ deployed.valid /\ deployed.provider \in {"bedrock", "agentcore"}
  /\ input[r].policy = "allowed"

Compose(r) ==
  /\ At(r, "compose")
  /\ \/ /\ deployed.provider # "mock" /\ (deployed.provider = "other" \/ ~deployed.valid)
        /\ GoTo(r, "unavailable") /\ UNCHANGED reply
     \/ /\ AsksModel(r)
        /\ GoTo(r, "call") /\ UNCHANGED reply
     \/ /\ \/ deployed.provider = "mock"
           \/ deployed.provider # "other" /\ deployed.valid /\ ~AsksModel(r)
        /\ GoTo(r, "normalise")
        /\ reply' = [reply EXCEPT ![r] = Composed(input[r])]
  /\ UNCHANGED <<deployed, input, calls, turns, tables, draft>>

Call(r) ==
  /\ At(r, "call")
  /\ calls' = [calls EXCEPT ![r] = @ + 1]
  /\ turns' = [turns EXCEPT ![r] = 0]
  /\ GoTo(r, deployed.provider)
  /\ UNCHANGED <<deployed, input, reply, tables, draft>>

\* The request, its connection or the runtime fails.  Only AgentCore's provider
\* tries again; Bedrock's retries of a connection are the client library's.
CallFails(r) ==
  /\ pc[r] \in {"bedrock", "agentcore"}
  /\ GoTo(r, IF At(r, "agentcore") /\ calls[r] < MaxAttempts THEN "call" ELSE "unavailable")
  /\ UNCHANGED <<deployed, input, calls, turns, reply, tables, draft>>

\* A tool reads the payload's candidate or evidence; an error is a result too.
UseTool(r) ==
  /\ At(r, "agentcore") /\ turns[r] < MaxTurns
  /\ turns' = [turns EXCEPT ![r] = @ + 1]
  /\ UNCHANGED <<deployed, input, pc, calls, reply, tables, draft>>

\* The development model calls one tool, then cites the first id it is given.
DevAnswer(i) ==
  [text |-> TRUE, cites |-> IF Citations(i) = <<>> THEN {} ELSE {Head(Citations(i))},
   unsafe |-> FALSE, hidden |-> FALSE, loose |-> FALSE]

RuntimeAnswers(r) ==
  IF deployed.dev THEN IF turns[r] = 1 THEN {DevAnswer(input[r])} ELSE {} ELSE Answers

TakenCitations(r, a) ==
  IF deployed.provider = "bedrock" THEN Citations(input[r]) ELSE AgentCitations(a, input[r])

Take(r, a) ==
  /\ GoTo(r, "normalise")
  /\ reply' = [reply EXCEPT ![r] =
       [by |-> "model", citations |-> TakenCitations(r, a), answer |-> a]]

BedrockAnswers(r, a) ==
  /\ At(r, "bedrock")
  /\ LET verdict == BedrockVerdict(a, input[r], calls[r]) IN
       \/ verdict = "take" /\ Take(r, a)
       \/ verdict = "again" /\ GoTo(r, "call") /\ UNCHANGED reply
       \/ verdict = "fail" /\ GoTo(r, "unavailable") /\ UNCHANGED reply
  /\ UNCHANGED <<deployed, input, calls, turns, tables, draft>>

AgentAnswers(r, a) ==
  /\ At(r, "agentcore") /\ a \in RuntimeAnswers(r)
  /\ LET verdict == AgentVerdict(a, input[r]) IN
       \/ verdict = "take" /\ Take(r, a)
       \/ /\ verdict = "compose"
          /\ GoTo(r, "normalise")
          /\ reply' = [reply EXCEPT ![r] = Composed(input[r])]
       \/ verdict = "fail" /\ GoTo(r, "unavailable") /\ UNCHANGED reply
  /\ UNCHANGED <<deployed, input, calls, turns, tables, draft>>

\* Artifacts that normalisation leaves bring the composer's answer back.
Shown(r) ==
  LET a == Normalised(reply[r].answer)
  IN IF a.loose THEN Composed(input[r]) ELSE [reply[r] EXCEPT !.answer = a]

Normalise(r) ==
  /\ At(r, "normalise")
  /\ reply' = [reply EXCEPT ![r] = Shown(r)]
  /\ GoTo(r, IF User(r) = Guest THEN "answered" ELSE "find")
  /\ UNCHANGED <<deployed, input, calls, turns, tables, draft>>

-----------------------------------------------------------------------------
\* The exchange of a signed-in user, in one transaction.

\* Mutation: the session is looked up by its id alone.
MutOwnsTarget(r) == owner[Target(r)] # Nobody

OwnsTarget(r) == owner[Target(r)] = User(r)

FindSession(r) ==
  /\ At(r, "find")
  /\ GoTo(r, IF OwnsTarget(r) THEN "commit" ELSE "insert")
  /\ UNCHANGED <<deployed, input, calls, turns, reply, tables, draft>>

\* Mutation: nothing makes the INSERT wait.
MutInserting(r) == FALSE

\* The unique index makes an INSERT wait for another one of the same id.
Inserting(r) == \E q \in Calls \ {r} : draft[q] /\ Target(q) = Target(r)

InsertSession(r) ==
  /\ At(r, "insert") /\ ~Inserting(r)
  /\ IF owner[Target(r)] = Nobody
       THEN GoTo(r, "commit") /\ draft' = [draft EXCEPT ![r] = TRUE]
       ELSE GoTo(r, "conflict") /\ UNCHANGED draft
  /\ UNCHANGED <<deployed, input, calls, turns, reply, tables>>

\* Mutation: the assistant's message is left to a second commit.
MutExchange(r) == {<<r, "user">>}

Exchange(r) == {r} \X {"user", "assistant"}

\* Mutation: the commit is missing, and the transaction stays open.
MutCommit(r) ==
  /\ At(r, "commit")
  /\ GoTo(r, "respond")
  /\ UNCHANGED <<deployed, input, calls, turns, reply, tables, draft>>

Commit(r) ==
  /\ At(r, "commit")
  /\ owner' = IF draft[r] THEN [owner EXCEPT ![Target(r)] = User(r)] ELSE owner
  /\ messages' = [messages EXCEPT ![Target(r)] = @ \cup Exchange(r)]
  /\ draft' = [draft EXCEPT ![r] = FALSE]
  /\ GoTo(r, "respond")
  /\ UNCHANGED <<deployed, input, calls, turns, reply>>

Respond(r) ==
  /\ At(r, "respond")
  /\ GoTo(r, "answered")
  /\ UNCHANGED <<deployed, input, calls, turns, reply, tables, draft>>

\* POST /me/chat-sessions: nothing recovers an id that is taken.
CreateSession(r) ==
  /\ At(r, "idle") /\ ~input[r].chats /\ ~Inserting(r)
  /\ IF owner[Target(r)] = Nobody
       THEN GoTo(r, "answered") /\ owner' = [owner EXCEPT ![Target(r)] = User(r)]
       ELSE GoTo(r, "conflict") /\ UNCHANGED owner
  /\ UNCHANGED <<deployed, input, calls, turns, reply, messages, draft>>

\* The function reaches its time limit or crashes: a transaction is rolled back.
Kill(r) ==
  /\ pc[r] \notin Ended \cup {"idle"}
  /\ GoTo(r, "dead")
  /\ draft' = [draft EXCEPT ![r] = FALSE]
  /\ UNCHANGED <<deployed, input, calls, turns, reply, tables>>

Step(r) ==
  \/ Read(r) \/ Compose(r) \/ Call(r) \/ CallFails(r) \/ UseTool(r)
  \/ \E a \in Answers : BedrockAnswers(r, a)
  \/ \E a \in RuntimeAnswers(r) : AgentAnswers(r, a)
  \/ Normalise(r) \/ FindSession(r) \/ InsertSession(r) \/ Commit(r) \/ Respond(r)
  \/ CreateSession(r)

Next == \E r \in Calls : Step(r) \/ Kill(r)

\* A request that is being handled gets on with it; the calls it waits for have
\* timeouts, so that each ends in an answer or in a failure.
Fairness == \A r \in Calls : WF_vars(Step(r))

Spec == Init /\ [][Next]_vars /\ Fairness

-----------------------------------------------------------------------------
\* Each variable has its type; the model is asked at most MaxAttempts times.
TypeOK ==
  /\ deployed \in Deployments
  /\ input \in [Calls -> Inputs]
  /\ pc \in [Calls -> Ended \cup {"idle", "compose", "call", "bedrock", "agentcore",
               "normalise", "find", "insert", "commit", "respond"}]
  /\ calls \in [Calls -> 0..MaxAttempts]
  /\ turns \in [Calls -> 0..MaxTurns]
  /\ owner \in [Sessions -> Users \cup {Nobody}]
  /\ messages \in [Sessions -> SUBSET (Calls \X {"user", "assistant"})]
  /\ draft \in [Calls -> BOOLEAN]

\* What GET /me/chat-sessions/{id} shows a user.
Detail(u, s) == IF owner[s] = u THEN messages[s] ELSE {}

\* A session shows its user only what that user asked and was answered, even when
\* users send the same session id at the same time (routes/chat.py:137,151).
SessionsArePrivate ==
  \A s \in Sessions, u \in Users : \A m \in Detail(u, s) : User(m[1]) = u

\* An answer a model gave, on the first try or on a retry, is only shown when it
\* passed every guard of its provider, and each id it cited is among the citations
\* shown with it; an answer the composer gave, the fallbacks included, is shown with
\* the composer's citations (providers.py:137-192, routes/chat.py:61-72).
ShownAnswersAreGrounded ==
  \A r \in Calls :
    /\ reply[r].by = "composer" => reply[r].citations = Citations(input[r])
    /\ reply[r].by = "model" =>
         /\ input[r].policy = "allowed" /\ ~reply[r].answer.unsafe
         /\ reply[r].answer.cites \subseteq ToSet(reply[r].citations)
         /\ pc[r] = "normalise" => reply[r].answer.cites # {}
         /\ deployed.provider = "agentcore" => ~reply[r].answer.hidden

\* Every citation shown is an evidence item of the request, and none is shown twice.
CitationsAreEvidence ==
  \A r \in Calls : reply[r].by # "none" =>
    /\ ToSet(reply[r].citations) \subseteq ToSet(input[r].evidence)
    /\ IsInjective(reply[r].citations)

\* A request that ends without an answer before its commit, and a guest's, leaves
\* no message behind, whatever the other requests store (routes/chat.py:73-82).
FailuresLeaveNoTrace ==
  \A r \in Calls :
    (User(r) = Guest \/ pc[r] \in {"unavailable", "conflict", "missing"}) =>
      \A s \in Sessions : messages[s] \cap Exchange(r) = {}

\* A transaction that has inserted its session is the only one to create it: nobody
\* can have taken the id by the time it commits (uq_chat_sessions_session_id).
DraftsAreExclusive ==
  \A r \in Calls : draft[r] =>
    /\ pc[r] = "commit" /\ owner[Target(r)] = Nobody
    /\ \A q \in Calls \ {r} : ~(draft[q] /\ Target(q) = Target(r))

\* Only a signed-in user's chat is stored, by a transaction that has found or
\* inserted its session.
TransactionsAreReady ==
  \A r \in Calls :
    /\ ~input[r].chats => pc[r] \in {"idle", "answered", "conflict"}
    /\ pc[r] \in {"find", "insert", "commit", "respond"} => User(r) # Guest
    /\ pc[r] = "commit" /\ ~draft[r] => OwnsTarget(r)

\* Messages are in the session their request named, once it is committed; then both.
MessagesArePlaced ==
  /\ \A s \in Sessions : \A m \in messages[s] :
       /\ s = Target(m[1]) /\ owner[s] = User(m[1]) /\ User(m[1]) # Guest
       /\ pc[m[1]] \in {"respond", "answered", "dead"}
  /\ \A r \in Calls :
       pc[r] = "respond" \/ (pc[r] = "answered" /\ input[r].chats /\ User(r) # Guest) =>
         Exchange(r) \subseteq messages[Target(r)]

\* Only a provider that may ask the model asks it, and only while it has attempts left.
AttemptsAreCounted ==
  \A r \in Calls :
    /\ pc[r] \in {"idle", "compose"} => calls[r] = 0
    /\ pc[r] = "call" => calls[r] < MaxAttempts
    /\ pc[r] \in {"call", "bedrock", "agentcore"} => AsksModel(r)
    /\ pc[r] \in {"bedrock", "agentcore"} => pc[r] = deployed.provider

\* The inductive invariant.
IInv ==
  /\ TypeOK /\ AttemptsAreCounted /\ DraftsAreExclusive /\ TransactionsAreReady
  /\ MessagesArePlaced

Map(r) == IF pc[r] = "answered" THEN "answered" ELSE IF pc[r] \in Ended THEN "failed" ELSE "open"

Promise == INSTANCE ChatPromise
  WITH Calls <- Calls, Sessions <- Sessions, NoSession <- NoSession, Guest <- Guest,
       Nobody <- Nobody, request <- input, status <- [r \in Calls |-> Map(r)],
       owner <- owner, messages <- messages

\* Exchanges are stored whole and once, in sessions that only their user's requests
\* create or extend, and before their user is answered (routes/chat.py:129-188).
KeepsPromise == Promise!Spec

\* Every request that is begun ends: the retries are bounded, and no two requests
\* can wait for each other's session.
EveryRequestEnds ==
  \A r \in Calls : pc[r] \notin Ended \cup {"idle"} ~> pc[r] \in Ended

=============================================================================
