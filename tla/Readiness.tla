----------------------------- MODULE Readiness -----------------------------
(***************************************************************************)
(* What the maintenance checks compute before the scheduler may be enabled *)
(* and what the status summary shows. A setting is a name: the record env  *)
(* holds the sets of the settings, of the secret's values and of the       *)
(* endpoints that answer. Ages of runs are counted in limits of max_age.   *)
(***************************************************************************)
EXTENDS Tables

Providers == {"OpenDART", "NAVER", "KRX"}

\* What a provider needs among the settings; KRX also needs its two endpoints.
Credentials(p) ==
  CASE p = "OpenDART" -> {"OPENDART_API_KEY"}
    [] p = "NAVER" -> {"NAVER_CLIENT_ID", "NAVER_CLIENT_SECRET"}
    [] OTHER -> {"KRX_API_KEY"}

KrxEndpoints == {"KRX_KOSPI_DAILY_URL", "KRX_KOSDAQ_DAILY_URL"}

Complete(settings) == (KrxEndpoints \union UNION {Credentials(p) : p \in Providers}) \subseteq settings

\* The secret fills what is missing, if there is an ARN and it loads.
Hydrated(env) ==
  IF Complete(env.settings) \/ env.arn # "loads" THEN env.settings
  ELSE env.settings \union env.secret

\* Complete settings do not load the secret.
LoadFails(env) == env.arn = "fails" /\ ~Complete(env.settings)

\* Unknown providers are issues, known ones are checked once each.
Selection(providers) == [known |-> providers \intersect Providers, issues |-> providers \ Providers]

ReadinessIssues(env, providers) ==
  LET known == Selection(providers).known
      have == Hydrated(env)
      needed == (UNION {Credentials(p) : p \in known}) \union (IF "KRX" \in known THEN KrxEndpoints ELSE {})
  IN Selection(providers).issues
     \union (IF env.arn = "none" \/ LoadFails(env) THEN {"EXTERNAL_API_SECRET_ARN"} ELSE {})
     \union (({"INGESTION_RAW_BUCKET"} \union needed) \ have)

\* The probe writes one object, and needs the bucket to be configured and writable.
RawArchiveIssues(env) ==
  IF "INGESTION_RAW_BUCKET" \in env.settings /\ env.writable THEN {} ELSE {"INGESTION_RAW_BUCKET"}

\* KRX is probed at its configured endpoints, without those of the secret.
Targets(p) == IF p = "KRX" THEN KrxEndpoints ELSE {p}

Reachable(env, t) == t \in env.answering /\ (t \in KrxEndpoints => t \in env.settings)

EgressIssues(env, providers) ==
  Selection(providers).issues
    \union {t \in UNION {Targets(p) : p \in Selection(providers).known} : ~Reachable(env, t)}

-----------------------------------------------------------------------------
\* The runs a status shows, and the stale ones.

InScope(runs, providers, tickers) == {r \in runs : r.provider \in providers /\ r.ticker \in tickers}

\* The newest runs of the scope, a later id first among equal ages.
RecentRuns(runs, providers, tickers, limit) ==
  LET newer(r, t) == r.age < t.age \/ (r.age = t.age /\ r.id > t.id)
      ordered == InOrder(InScope(runs, providers, tickers), newer)
  IN {ordered[i] : i \in {j \in DOMAIN ordered : j <= limit}}

StaleRuns(runs, providers, tickers) ==
  {r \in InScope(runs, providers, tickers) : r.status = "started" /\ r.age >= 1}

Pairs(providers, tickers) == providers \X tickers

\* Mutation: a success of the provider for any ticker will do.
MutMissingSmokeRuns(recent, providers, tickers) ==
  {pair \in Pairs(providers, tickers) : ~\E r \in recent : r.status = "succeeded" /\ r.provider = pair[1]}

MissingSmokeRuns(recent, providers, tickers) ==
  {pair \in Pairs(providers, tickers) :
     ~\E r \in recent : r.status = "succeeded" /\ <<r.provider, r.ticker>> = pair}

\* The blockers of the gate, from the results of its five checks.
Blockers(checks, providers, tickers) ==
  {c \in {"readiness", "raw_archive", "provider_egress"} : checks[c] # {}}
    \union (IF MissingSmokeRuns(checks.status, providers, tickers) = {} THEN {} ELSE {"manual_ingestion_smoke_missing"})
    \union (IF checks.stale_runs = {} THEN {} ELSE {"stale_ingestion_runs_present"})

-----------------------------------------------------------------------------
\* The corporation codes of the seed, the database and OpenDART must agree.
Mismatches(seed, stored, actual, tickers) ==
  {t \in tickers : seed[t] # actual[t] \/ stored[t] # actual[t]}
=============================================================================
