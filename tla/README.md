# Verification of the cloud security posture manager

TLA+ models of the backend of this repository and of the browser session,
checked with TLC and, where it pays, proved with TLAPS. Paths below are relative to the repository.

- [The system](#the-system)
- [What is hard about it](#what-is-hard-about-it)
- [Modules](#modules)
- [Runs](#runs)
- [What the runs refute](#what-the-runs-refute)
- [Proofs](#proofs)
- [Assumptions and limits](#assumptions-and-limits)
- [Read while modelling](#read-while-modelling)
- [Not modelled](#not-modelled)
- [Running it](#running-it)

## The system

A FastAPI process (`backend/`, one uvicorn process, PostgreSQL or SQLite behind
it) scans cloud configurations against declarative rules, and a React page
(`frontend/`) shows the scans. Scans come from an uploaded file or from a live
account read through boto3.

| Component | Source | State it keeps | Operations | What makes it correct |
|---|---|---|---|---|
| Refresh tokens | `backend/src/auth/jwt.py`, `auth/routes.py` | the set of used token identifiers, in memory; tokens in the browsers | signup/login (mint), refresh (decode, rotate), logout (revoke); expiry; restart | a token is refreshed once; a token is not spent for nothing; logout ends the session |
| Scans | `backend/src/routes.py`, `compliance/routes.py` | tables `scans`, `findings` | upload, cloud scan, list, detail, findings, compliance | acknowledged scans are stored whole; readers see whole scans; only the owner reads |
| Roles and audit | `auth/rbac.py`, `auth/audit.py` | table `audit_log` | role check, best-effort event | refusals are recorded, and only refusals; a failing insert changes nothing else |
| Accounts | `auth/routes.py`, `auth/hashing.py` | table `users` | signup, login, me | an address has one account; a session is for the account whose address and password were given |
| Access tokens, CSRF | `auth/dependencies.py`, `auth/jwt.py` | cookies | authenticate, CSRF bootstrap and check | a request acts for the account of its cookie |
| Parser | `parser.py` | a worker thread per parse | parse with size, alias, timeout and depth limits | an upload is answered though its worker may never end |
| Rule engine, scorer | `rule_engine.py`, `ml/scorer.py` | rules loaded at start | evaluate, score | findings are true of what was read; scores follow severities |
| Compliance engine | `compliance/engine.py` | table `compliance_map` (read) | report | every finding is accounted for, totals add up |
| Cloud collector | `cloud/` | none | one call after another | a failing call costs its part only; what is collected was there |
| Attack paths | `attack_paths/` | none | collect again, graph, paths | relations held, paths end at assets and are all there, severity reflects the findings on the path |
| Pools | `db.py`, FastAPI | threads of the server, connections of the engine | take, wait, give back | nothing is leaked, every request is answered |
| Browser session | `frontend/src/features/auth/`, `App.tsx`, `api/` | session context, query cache, cookies | bootstrap, login, logout, fetch | the page shows the account of the cookie |
| Pages, mock backend, offline training, deployment, migrations | `frontend/src/pages/`, `frontend/src/mocks/`, `ml/`, `infra/`, `backend/alembic/` | | | rendering, data, batch scripts and configuration |

How they meet: every request authenticates (access cookie, then the `users`
row); scan handlers check the role, collect or parse, evaluate, score, and write
two transactions; readers load the row, check its owner, and then query the
findings; compliance and attack paths compute their answers from those findings.
The browser keeps the cookies of the session, and a cache of the answers.

## What is hard about it

- **Threads.** Every handler but one is a plain `def` and runs on a thread of
  the server's pool. The registry of used refresh tokens is a bare `set` shared
  by those threads, tested in one statement and extended in another.
- **The event loop.** `upload_scan` is the exception: an `async def` that never
  awaits after it has the file's bytes. While it runs, the server neither starts
  a handler nor sends an answer. That makes uploads look atomic to readers. It is
  a property of how the function is declared, written down nowhere.
- **Two commits per scan.** The row is COMPLETED from its first commit on; its
  findings follow in a second, which can fail by itself.
- **Crashes.** The container restarts (`infra/docker-compose.yml`,
  `restart: unless-stopped`): the registry and the requests in flight are gone,
  tables and signed tokens stay.
- **Best-effort audit.** `log_event` may fail in the middle of a refusal.
- **Answers in any order.** The page cancels no request and numbers none. The
  session is set by the answer of the first `/auth/me`, of a login and of a
  logout, whichever comes last; the cookies change with the same answers, and
  survive the page.
- **Look up, then insert.** Sign-up tests the address in one statement and
  inserts it in another; the unique index is the only thing between two of them.
  The account is committed before its event and its cookies: a crash leaves an
  account nobody was told of.
- **An account read while it changes.** A collection is dozens of calls. Names
  listed before are read after; a call that fails is logged and skipped, and which
  part goes with it depends on where the `try` begins. The paths of a live
  scan come from a second collection, made when they are asked for, and are joined
  with the findings of the first by name.
- **Threads nobody stops.** A parse that runs into its timeout goes on.
- **Two pools.** A session keeps its connection while its request queues for a
  thread, and an upload may wait for a connection while it holds the loop on
  which the others would give theirs back.

`PROJECT.json` lists these hazards line by line, with the properties that would
catch each one going wrong.

## Modules

| Module | Kind | Models |
|---|---|---|
| `SingleUseRotation` | abstract specification | what rotation promises: a token is spent at most once while the process lives, and a spending yields at most one replacement |
| `RefreshTokens` | detailed | the handlers of `auth/routes.py` and the functions of `auth/jwt.py` that mint, rotate and revoke, on a pool of threads |
| `RefreshTokensProofs` | theorems | about `RefreshTokens`, and in which steps it implements `SingleUseRotation` |
| `AtomicScans` | abstract specification | a scan appears with the findings it will ever have, and reports are made from those |
| `ScanPipeline` | detailed | the handlers of `routes.py` and the compliance and attack-path reads, on the event loop and the pool |
| `ScanPipelineProofs` | theorems | about `ScanPipeline`, and its refinement of `AtomicScans` |
| `BrowserSession` | detailed | one tab: session context, forms, logout, protected routes, cached scan list, interceptor, and the cookies the backend sets |
| `BrowserSessionProofs` | theorems | about `BrowserSession` |
| `AccountBook` | abstract specification | what sign-up and login promise: addresses are claimed one at a time, and opened with their password |
| `Accounts` | detailed | sign-up, login and `/auth/me` on the `users` table, statement by statement |
| `AccountsProofs` | theorems | about `Accounts`, and its refinement of `AccountBook` |
| `RequestPools` | detailed | how requests take and give back threads, the event loop and connections |
| `RequestPoolsProofs` | theorems | about `RequestPools` |
| `RuleEngine` | operators | `evaluate`, `match`, the scorer |
| `ComplianceEngine` | operators | the report of a scan from its findings and `compliance_map` |
| `AttackPaths` | operators | edges, graph, path search, join with the findings |
| `CloudCollector` | actions | the calls of a collection, their failures, the mappers, the changing account |
| `UploadParser` | actions | the checks of an upload, its worker thread, the timeout |
| `ScanAnalysis` | composition | one scan from its input to its reports; extends the five above |
| `AttackPathQuery` | detailed | one request for paths, on any resources and any stored findings |
| `AttackPathsProofs` | theorems | about the operators of `AttackPaths`: the graph, the search, the selection |
| `AttackPathQueryProofs` | theorems | about `AttackPathQuery` |
| `ScanAnalysisProofs` | theorems | about `ScanAnalysis` |
| `MCRefreshTokens`, `MCScanPipeline`, `MCBrowserSession`, `MCAccounts`, `MCRequestPools`, `MCScanAnalysis`, `MCAttackPathQuery` | instances | symmetry sets, batches, accounts, rules, files and resources for TLC |

### RefreshTokens

A worker is a thread. `token` maps each identifier to the token issued under it
with its claims (`sub`, `exp`) and, as history, the token it replaced, who minted
it and in which life of the process; `used` is `_USED_REFRESH_TOKEN_JTIS`; `pc`
and `old` are the locals of the requests in flight; `closed` is history, the
tokens a logout has answered for.

| Action | Code |
|---|---|
| `Login` | `login`, the tail of `signup`: `create_refresh_token` |
| `RefreshDecode` | the first `decode_token` of `refresh` |
| `RotateCheck` | the second `decode_token`, and the membership test |
| `RotateRefuse` | either fails: 401 |
| `RotateMark` | `_USED_REFRESH_TOKEN_JTIS.add` |
| `RotateIssue` | `create_refresh_token` for the replacement |
| `Logout` | `revoke_refresh_token` |
| `Tick`, `Restart` | the clock; the process dies and comes back |

A login or a logout touches the shared state once, so each is one action; a
logout with a token that no longer decodes changes nothing and is left out. The
order of the tests inside one decode is irrelevant here: a token is one this
backend signed, and only its expiry can change.

### ScanPipeline

`req` is one record per request: its client's choice (user, operation, scan),
the stage of its handler, and what the handler has computed or read. `loop` is
the upload that holds the event loop. `disclosed` are the identifiers some
answer has brought to some client: a client can only ask for those (or for one
that does not exist), which is what ties the readers to the writers.

| Action | Code |
|---|---|
| `Send`, `Authorize`, `RoleDenied` | an authenticated request arrives; `require_role` |
| `Dispatch` | the loop hands a plain `def` handler to a thread |
| `UploadRefuse`, `UploadEvaluate` | `upload_scan` up to `score_findings`, on the loop |
| `CloudFail`, `CloudEvaluate` | `scan_cloud_account` up to `score_findings` |
| `StoreScan` | the first commit |
| `StoreFindings`, `StoreFindingsUnmapped` | the second commit, or its failure on the foreign key to `compliance_map` |
| `WriteAnswer`, `WriteFault` | the response; any database failure on the way |
| `ListScans` | `list_scans` |
| `LoadOwnedScan`, `LoadDenied`, `LogEvent` | `_load_owned_scan`, `log_event` |
| `ReadFindings`, `ReadFault` | the second query of a read; its failure |
| `Deliver`, `DeliverToNobody` | the answer leaves the loop; its client is there or gone |
| `Crash` | the process dies |

What a parse, a collection or an evaluation computes is an arbitrary set of rule
identifiers taken from `Batches`: the tables' consistency does not depend on it.
A finding is its rule identifier. The response of a write carries the count of
its findings; `AcknowledgedIsStored` compares the findings themselves.

### BrowserSession

`jar` is what the browser stores (whose access cookie, whether its token is still
valid, whether there is a CSRF cookie); `page` the route, the session context,
the mounted form's submission and the owner of the cached scan list; `me`, `call`
and `scans` the requests under way with the cookies they were sent with; `past`
is history for the properties. A request is judged by the server with the cookies
of the moment it is sent; one whose token expires on the way is one sent after
the expiry.

| Action | Code |
|---|---|
| `Open`, `GoTo` | a page load by the user; a link of the navigation |
| `refreshSession`, `RefreshSessionFails` | the answer of the mount's `/auth/me`, or its loss |
| `handleSubmit`, `bootstrapCsrf`, `BootstrapLost` | a form's submission; the `/auth/me` that fetches the CSRF cookie |
| `login`, `LoginFails` | the answer of `POST /auth/login` or `/auth/signup` |
| `handleLogout`, `logout`, `LogoutFails` | the button; its answer, or its loss (`LoggedOut` is the `finally` of both) |
| `FetchScans`, `listScans`, `ScansUnauthorized`, `ScansFail` | the query `["scans"]` |
| `Expire` | the access token's lifetime; the frontend never calls `/auth/refresh` |

`Render` is part of every action that changes the page: it is where
`ProtectedRoute` navigates away. `OnUnauthorized` is the interceptor and is passed
the answer's other effect. Login and signup page are one route, the four
protected pages another, since they share everything modelled. Development mode
(`StrictMode` runs the mount twice) and several tabs are not modelled. A login
refused for whatever reason, a CSRF mismatch included, is `LoginFails`.

### Accounts

`users` is the table, with the request that stored each row as history; `audit`
the accounts with a `signup_success`; `req` what each request asks, how far its
handler has come, the account its session is for, and its reply. An address is
compared letter by letter except with `ADMIN_EMAIL`, as in the code; `Lower` is
`str.lower`. A password stands for its hash.

| Action | Code |
|---|---|
| `Send` | a request arrives; `/auth/me` with a cookie of an earlier answer |
| `SignupTaken`, `SignupFree` | the look-up of the address |
| `Insert`, `InsertConflict`, `InsertFault` | the commit: stored, refused by the unique index (500), or the database fails before or after it |
| `LogEvent`, `AnswerSignup` | `refresh`, `log_event` whether it fails or not; the tokens and the answer |
| `Login`, `LoginRefused` | the look-up and `verify_password` |
| `Me` | `get_current_user` |
| `ReadFault`, `Crash` | another statement fails; the process dies |

A lost answer is a request nobody learned the reply of; the client may try
again, which is another request with the same address and password.

### RequestPools

A request goes through up to eight hops, each of them queued for its thread: 1
enters `get_session`, 2 is `get_current_user`, 3 the role check, 4 the read of an
uploaded file that was spooled to disk, 5 the handler, 6 and 7 what a handler does
after its first and its second commit, 8 makes the response of a plain handler.
`Following` says which hop may come after which, `Statements` which of them look at
the database. 6 and 7 stay on the thread, or the loop, of 5. `conn`, `thread` and
`loop` say who holds what. The pinned FastAPI runs the exit of
`get_session` on a thread beside the pool, so `Close` does not queue; it does
need the event loop.

| Action | Code |
|---|---|
| `Send`, `StartOnThread`, `StartOnLoop` | `run_in_threadpool` of a plain function; `upload_scan` on the loop |
| `Checkout`, `PoolTimeout` | the first statement of a hop takes a connection, or gives up after 30 s |
| `Return` | a dependency returns; its connection stays with the session |
| `Commit` | `session.commit()` gives the connection back, and the next look at the row needs one |
| `Finish`, `Close` | the handler is over; the session is closed and the answer sent |

### ScanAnalysis

One scan at a time; how several interleave is `ScanPipeline`'s subject. The five
modules it extends bring their variables and actions:

- `CloudCollector`: `cloud` is the moment the account is at, a member of
  `Worlds`; `Account[w]` is what it holds then. `call`, `listing`, `listed`, `todo`,
  `part` are the collector's place in its loops, `resources` its result. `seen` and
  `failed` are history: the moments the collection has lived through, the calls
  that failed. An action is one call with the code up to the next: `ListBuckets`,
  `GetBucketAcl`, `ListPage`, `GetPolicy`, `GetPolicyVersion`, `DescribeGroups`,
  `DescribeInstances`, `ListAttachedRolePolicies`, `ListInstanceProfiles`;
  `ListingFails`, `ReadFails`, `DescribeFails` are a `ClientError` caught around
  them and `Escape` any other exception. `Drift` changes the account between
  two calls. A call about what is gone fails of itself.
- `UploadParser`: `Submit` makes the checks before the parse and starts the worker,
  `WorkerEnds` is the worker's own affair, `ParseReturns` and `ParseTimesOut` the
  two ends of `future.result(timeout=3)`, the first with the depth check.
- `RuleEngine`: a resource carries the value of each dotted path a rule reads
  (`at`), or nothing there. `Evaluate` gives the findings, `RiskScore` the clamped
  sum of base and jitter for any digest. `Holds` says which `contains` and
  comparisons hold of which values. A resource's name may be missing (`None`, which
  `.get` turns into `Unknown`) or an explicit null (`Null`, which it keeps).
- `ComplianceEngine`: `BuildCompliance`, with its rows and framework totals.
- `AttackPaths`: `Links` are the edges of the graph, `FindAttackPaths` any
  selection the traversal may make of the paths, target by target in the order
  of the names, up to the limit; `Joins` the last finding per name.

`ReceiveUpload`, `Parse`, `StoreUpload` compose an upload; `StartCloudScan`,
`CollectStep`, `StoreCloudScan`, `CloudScanFails` a live scan; `AskForPaths` and
`AnswerPaths` are `get_attack_paths`, with a second collection for a live scan and
the names in the findings for an uploaded one. `StoreUpload` stores nothing when a
finding has a null for its name, since the column takes none: the second commit fails.

`ProfileRecords` is what IAM answers about a role's profiles, under the key `Arn`;
`MapRoleAttachment` asks for `InstanceProfileArn`, as the code does. So no role has a
profile here, and no live scan a path: see `paths_profiles` below.

### AttackPathQuery

`get_attack_paths` once its resources are there: `resources` and `findings` are any of
`ResourceLists` and `FindingSets`, and `GetAttackPaths` is the whole of the request
(`_deduplicate_resources`, `finding_by_resource`, edges, graph, search, response). What
`edges.py`, `graph.py` and `path_finder.py` do with a role that has profiles, or with a
policy that names its buckets, is tested in `attack_paths/tests` on such resources, and
is checked here on lists of them. The collector makes only some of these: it keeps no
profile, and no mapper sets a policy's buckets. `ScanAnalysis` is the module of what a
scan gives today; this one is of what the search does with what it is given.

## Runs

All runs but the browser's switch deadlock checking off: their bounds (clock,
restarts, identifiers, uploads, one use per request) let every instance come to
rest. The browser's instances are unbounded and never stop. That requests never
wait for each other forever is `EveryRequestIsAnswered`.

| Run | Expect | Instance | Shows |
|---|---|---|---|
| `refresh_pool` | pass | 2 threads, 1 account, 3 identifiers, tokens live 2 ticks of 3, 1 restart | what non-atomic rotation still guarantees; single use but for one race |
| `refresh_race` | violation of `RefreshedOnce` | as `refresh_pool`, no restart | one token, two replacements |
| `logout_race` | violation of `LogoutEndsSession` | as `refresh_pool`, no restart | a session continues after its logout |
| `scan_tables` | pass | 3 requests, 2 accounts, 2 identifiers, 2 rules (one unmapped), 1 failure or crash; fair | the tables, ownership, audit, atomic uploads; every request ends |
| `scan_live` | violation of `PassMeansNoFinding` | 3 requests, 1 account, no failure | a report on a half-stored live scan |
| `browser` | pass | 2 accounts, 2 calls under way | the page, the cache and the forms against the cookies |
| `accounts` | pass | 3 requests, one of them a sign-up, 2 spellings of the administrator's address, 2 passwords, 2 failures or crashes | one account per address, sessions of their owners, the promise of `AccountBook` |
| `request_pools` | pass | an upload, a cloud scan, 2 reads; 2 threads, 1 connection; fair | no leak; every request answered |
| `scan_analysis` | pass | 2 states of an account, 1 change, 1 swallowed failure, 4 rules of the repository, 4 files, 2 uploads; fair | what a scan tells, from collection or upload to report and relations |
| `attack_path_query` | pass | every choice of 11 resources, in two orders, 3 sets of findings, paths of up to 5 links, 1 path shown | where paths lead, how severe they are, and that none is missing or made up |
| `paths_profiles` | violation of `AssumedRolesAreLinked` | as `scan_analysis` | no role is related to the instance that assumes it |
| `browser_late` | violation of `AuthenticatedIsShown` | 1 account, 1 call | a late `/auth/me` takes a session back |

Why the bounds are enough:

- *Two threads, three identifiers.* A race on one token needs two threads and,
  with both replacements, three identifiers; a chain (login, refresh, refresh)
  needs three. Three ticks let a token expire between the two decodes, and a
  replacement outlive it.
- *Three requests.* A writer, a lister that learns the identifier, and a reader
  is the shortest way to see a scan half-stored; the same three give a refused
  writer or a foreign reader next to a writer. Detail, findings, compliance and
  attack-path reads take the same steps (`Reads` in `ScanPipeline`), so one of
  them stands for all in the runs; the proofs are about all.
  The three are taken in the order of `InOrder`: a run that checks liveness
  cannot use a symmetry set, and instances that differ in the names of their requests
  behave alike. One of the three reads, and at most one is a live scan: `SomeoneReads`,
  `OneLiveScan`.
- *Batches* `{r1}`, `{r1, r2}` with `r2` unmapped: all findings storable, and a
  commit that fails.
- *Two accounts, two calls.* The shortest stories about two submissions, or a
  login between two logouts, need two calls; a mix-up needs two accounts.
- *Three requests on accounts.* Two sign-ups race and a third request logs in, or
  asks for `/auth/me`; without a sign-up there is no account, so one of the three
  is one. Two faults are a crash and a failing insert of the event, or a lost
  answer twice. Two spellings are enough to tell folded from exact comparison.
- *Two threads, one connection.* With four requests the
  circle closes: a session keeps the connection while queued for a thread, the
  threads wait for it, or an upload waits with the loop. The real sizes (40
  and 15) change how many requests it takes, not the circle; `NoLeak` is proved
  for any.
- *Two states of the account* that differ in every service, with a bucket and
  a role of one name, a group that opens as another closes, a policy whose
  document stops decoding, and profiles that move from one role to another. One
  change at any of the calls gives every mix of the two a collection can
  see, in the first and in the second collection. One swallowed failure at any
  call, beside those a change causes. The rules are the repository's for three
  types, `001`, `002`, `003` and `005`; the last two share their controls, as seeded.
- *Four files*: one that is well formed and names a bucket twice, a resource
  not at all and another `internet`; one with a null for a name; one refused before
  the parse; one refused after. Two uploads let an abandoned worker run beside another.
- *Eleven resources*: an open and a closed group, two instances, a role for each of
  which one has a policy, that policy and its bucket; one of the roles again with other
  contents, a bucket of its name, and a resource without a name. All 2048 choices of
  them, forwards and backwards, have every list with a link of a chain missing or
  repeated, and every order of two resources of one name. The longest chain
  there is has 4 links; `Cutoff` is `DEFAULT_CUTOFF`. `MaxPaths` is 1 where up to
  two paths exist, so the limit decides. The findings are none, those of nodes off or
  beside the path, and two of one name.
- *One failure or crash* at every place it can happen. The theorems cover any
  number of all of these.

**Properties.** `RefreshTokens`: `OneSuccessorPerWorker`, `UsedIsAccountedFor`,
`RotationExtends`, `LogoutIsFinal` hold of the racing code; `RefreshedOnce` does not.
`SingleUseButForTheRace` is the refinement of `SingleUseRotation` step by step, and names
the two steps that are not in it: the mark of a token that something has used since its
test, and the minting of one replacement beside another.
`ScanPipeline`: `AcknowledgedIsStored`, `StoredByOneRequest`,
`OnlyTheOwnerIsTold`, `RefusalsAreAudited`, `UploadsAreSeenWhole` (invariants),
`UploadsAreAtomic` (uploads implement `AtomicScans`), `EveryRequestEnds`
(liveness). `BrowserSession`: `ShowsTheCookie`, `CacheFollowsTheSession`,
`NoRedirectLoop`, `BootstrapSuffices` (invariants). `Accounts`:
`OneAccountPerAddress`, `SessionsAreTheirOwners`, `SignupsAreLogged` (invariants),
`RetriesGetIn` (action property), `SignupsAreAtomic` (the handlers implement
`AccountBook`). `RequestPools`: `NothingLeaks`, `EveryRequestIsAnswered` (liveness).
`ScanAnalysis`: `FindingsWereTrue`, `FailuresCostTheirPart`,
`PublicBucketsAreFound` about collection and rules; `ScoresFollowSeverity`;
`ReportAccountsForFindings`; `LinksWereTrue` about the relations; `EveryScanEnds`
(liveness). `AttackPathQuery`: `PathsLeadToAssets`, `SeverityReflectsThePath`,
`ExposedAssetsAreShown`. Each is stated in words above its definition. Every property of a
passing run has a mutant in its module, a definition named after the mistake it
makes, with which TLC finds the property violated.

**Fairness.** Three runs assume weak fairness, each of what the program does by
itself. `scan_tables`: `Serve(r)`, the steps the server takes for a request it
has accepted. A thread of the pool is scheduled by the operating system, and the
event loop runs ready tasks in turn; database calls are taken to return, or to
fail. Sending, crashing and failing are never fair. Weak fairness suffices because
an upload keeps the loop only while its own next step is enabled.
`request_pools`: `Serve(r)` again. A waiting request can always go on, with a
connection or with the timeout; a queued one is passed over finitely often, since
requests have eight hops at most and are finitely many.
`scan_analysis`: `Parse`, since `future.result` has a deadline, and
`CollectStep`, since each call has a timeout. The worker thread of a parse is
not assumed to end: that is what `EveryScanEnds` is about.

## What the runs refute

- **A refresh token can be refreshed twice** (`refresh_race`). Both threads pass
  `if old_jti in _USED_REFRESH_TOKEN_JTIS` (`auth/jwt.py:274`) before either
  reaches `add` (line 280). The second `add` is silent, since the registry is a
  set. A lock around both, or a test of the set's growth, would restore what the
  docstring (lines 264-265) says.
- **A session can outlive its logout** (`logout_race`). A rotation past its test
  mints the replacement after the logout has answered
  (`docs/asvs-l1-checklist.md:38`).
- **PASS can mean "not stored yet"** (`scan_live`). The live scan's row is
  COMPLETED before its findings are stored (`routes.py:207-231`), and its
  handler runs beside the readers. A list returns the identifier, a compliance
  report passes every rule (`docs/phase7-compliance_M1.md:77`). Uploads do not
  have the problem, only because their handler keeps the event loop.
- **A login can be taken back** (`browser_late`). The login form does not wait
  for the mount's `/auth/me`; if the login is answered first, the older answer
  (401) then sets the user to null, and the protected page goes back to `/login`
  with a valid session in the jar (`SessionContext.tsx:19`,
  `docs/auth-ui.md:22`). `ShowsTheCookie` says that nothing else comes between
  the page and its cookies. Clearing the session only if no login happened since
  the request was sent would do.
- **No instance is related to the role it assumes** (`paths_profiles`).
  `map_role_attachment` keeps profiles with a key `InstanceProfileArn`
  (`resource_mapper.py:267`). IAM answers with `Arn`, as the fixture of
  `tests/test_cloud_connector.py:371-378` does, so a collected role has no profiles and
  a live scan no path to a role.

## Proofs

All obligations are discharged by `tlapm` with Z3, Zenon and LS4. The
assumptions are `ConstantsAssumption` (`Distinct` in `BrowserSession`,
`AccountsAssumption`), which say that markers such as `NoJti` are not identifiers and
that bounds are naturals; `PoolsAssumption`, that there are finitely many requests
and pools are not empty; `HiddenAssumption`, that what stands for an unpublished scan
is not a scan; and in the modules of `ScanAnalysis`, that rules, accounts
and mappings are well formed: there are finitely many rules and a rule's argument is
not nothing, an account holds
finitely many things, the jitter stays within its spread, a rule has one row in
`compliance_map`. `QueryAssumption` says that `AttackPathQuery` is given lists of resources
and finite sets of findings. None bounds a set.

**`RefreshTokensProofs`.** `IInv` strengthens `TypeOK` with what a worker past
each stage knows: an idle worker holds no token; a worker past the decode holds
an issued one; past the mark, a used one; a worker that has checked or marked a
token minted no replacement of it in this life of the process
(otherwise the token would be used, and it would not have passed). From it
follow `OneSuccessor`, `UsedAccounted`, `Extends`, and the action property
`LogoutFinal`. `OnlyTheRaceBreaksSingleUse` is about any number of threads, with all their
interleavings, restarts, logouts and expiries: each step is a step of
`SingleUseRotation` or a stutter, unless it marks a token that is used already
(`MarksUsed`), or mints while another thread owes a replacement of the same token
(`MintsAlongside`, which takes two marks of one token). So the traces of `refresh_race`
and `logout_race` show the only way there is out of single use: the gap between the
test and the mark. The case that carries the proof is the minting: `Owed` loses
exactly the token replaced, since no other worker owes for it.

**`ScanPipelineProofs`.** The invariant has a part per request (`StageOK`,
`WriteOK`, `ReadOK`) and the argument for uploads: between its evaluation and its
answer an upload holds the loop (`LoopHeld`); answers are sent by the loop, so
identifiers become known to clients only while no upload is under way; hence the
scan of a running upload is unknown (`UploadsAreUndisclosed`) and nobody can have
read it. `LocalStep` treats the ten actions that change one request only;
`OthersKept` says that a write leaves the other requests' part alone. The
theorems: `TypeCorrect`, `SeenWhole`, `Acknowledged`, `OneRequestEach`,
`OwnerOnly`, `Refusals`. The last is inductive with the rest: a request is answered
once, and what it is refused with is logged before it is.

The refinement of `AtomicScans` rests on the same invariant. A scan counts as
published once no upload is at work on it. What is proved step by step: while an upload is at work its scan is hidden and its two commits stutter
(`OpenRowsAreHidden`); it is published when the upload leaves the loop, by its
answer, a failed commit or a crash, with the findings it then has; nobody writes it
afterwards; and a reader's report is made in the step that reads the findings, which
are the published ones. Without the loop, the step between the two commits would
publish a scan that changes later. Theorem: `AtomicUploads`.

**`BrowserSessionProofs`.** `IInv` adds to the properties what they rest on:
until something overtakes it, the mount's `/auth/me` speaks of the jar's account
and nobody is shown (`MountAgrees`); whenever somebody is shown, the jar's
account has been (`JarIsShown`), so a fetch is of an account shown
(`FetchIsShown`); after a redirect nothing is under way that could end on a
protected page (`RedirectRests`). `Loading` proves all of it for a page load and
`Steady` for the steps that leave the session alone. `AlwaysAToken` has an
invariant of its own, `TokenKept`. The theorems: `TypeCorrect`, `CookieShown`,
`CacheFollows`, `RedirectsOnce`, `AlwaysAToken`.

**`AccountsProofs`.** Rows and requests are tied together: each row is the work of
one sign-up that got past its insert (`RowsHaveAuthors`), and whatever a request was
told has a row to show for it (`HasGrounds`). Rows never change, so grounds stay. An
insert needs a free address at the moment of the insert, not of the look-up: that
is the unique index, and `OneAccount` rests on nothing else. `Retries` is an action
property: a login turned away after a sign-up with its password means another
sign-up with another. `ImplementsBook` maps a row to an entry of the book;
an insert is the claim, the answers are told later, and a conflict is a failure.
Theorems: `TypeCorrect`, `OneAccount`, `SessionOwners`, `SignupEvents`, `Retries`,
`ImplementsBook`.

**`RequestPoolsProofs`.** `NothingLeaks` with the types is inductive: a request that
takes a thread or the loop is queued, so it is on neither. `TypeCorrect`, `NoLeak`,
for pools of any size.

**`ScanAnalysisProofs`.** Two invariants. The first is about truth: `Readings(W)` is
all that the mappers make of answers given at the moments `W`; a collection holds
readings of the moments it has seen and nothing else (`Gathered`), whatever is read,
fails or changes (`CollectGathers`, `DriftGathers`). A finding of a reading was true
of it (`ReadingsWereTrue`), an edge between readings held one side at a time
(`EdgesWereTrue`). The second is about completeness: name by name, where the
collector stands (`Progress`): not listed yet, listed and to be read, in hand, or
collected, so that a service it has left owes nothing that was there all along and
did not fail (`NothingOwed`). Theorems: `FindingsTrue`, `LinksTrue`,
`FailuresContained`, `PublicBucketsFound`, for any account, any number of changes and
failures; `ScoresOrdered`, from the distances of the base scores; and
`ReportAccounts`, by a bijection between a framework's rows and the pairs that are
counted.

**`AttackPathsProofs`.** The search is a recursive function over the length of
paths. Its table exists (`TablesExist`) and holds at each length the walks of that
length (`TableHoldsWalks`); both by the least length for which it would not be so,
since an induction rule cannot be instantiated. So the search finds exactly the simple
paths from the internet of up to `Cutoff` links (`WalksAreSimplePaths`).
`SuccessorsAreEdges` says that dropping repeated edges and overwriting relationships
loses no connection. `PathsCanBeChosen`: there are finitely many paths, and some
selection of them always meets the limit and the order of the targets.

**`ScanAnalysisProofs`, the answers.** `Typed` keeps the types of everything but the
answer; `AnswerOK` says that an answer stays what `get_attack_paths` made of findings and
resources that no longer change. From these: `AnalysisTypeOK`, and `AnswersExist`, that a
request for paths is never stuck.

**`AttackPathQueryProofs`.** An answer is what the request made of its resources
(`Answered`). `PathsLead` and `SeverityReflects` follow from the shape of a path and from
the join, which takes the severity of some finding of each name. `ExposedShown` is about
completeness and exactness, for lists of any length. `GraphOfResources` spells the
connections of the graph in terms of the resources, `TypesOfNames` says that the type of
a name is that of its only resource, `Chains` that what the graph connects to the
internet is an open instance, its role, a policy and a bucket in this order, and
`PathsOfResources` that the walks of the search are `Exposed`, so that the selection
shows them all or as many as the limit. It needs three things, each of which the
code relies on without a check:
`Cutoff >= 4`, which `DEFAULT_CUTOFF = 5` satisfies; `OneRolePerProfile`, as in AWS; and
`NamesApart`: since nodes are names, an attached policy that bears the name of a role or a
bucket gives the graph connections or targets the resources do not have.

Every invariant that a run of the table above checks and finds true is a theorem, and so
are its action properties and refinements, `ExposedAssetsAreShown` for a `Cutoff` of at least 4. Only model-checked: `EveryRequestEnds`,
`EveryRequestIsAnswered` and `EveryScanEnds`, since liveness under fairness is beyond
the prover; `NoLeak` and `AnswersExist` are what is proved towards them.

## Assumptions and limits

- Signatures cannot be forged and `uuid4` never repeats an identifier.
- One process: the note in `auth/jwt.py:77-88` says the registry is not shared
  between processes, and `backend/Dockerfile` starts one.
- A commit is atomic and durable; the isolation between transactions does not
  matter, because each handler reads and writes rows no other handler changes.
- A client learns an identifier from an answer: nobody guesses a `uuid4`.
- Authentication happens before `Send`; deleted accounts and failures of the
  `users` query are left out.
- Within a page an answer comes whole (cookies and body) or not at all.
- Wording, logging, response layouts, rate limits and pagination are left out.

- `Drift` replaces one state of the account by another at once. What AWS
  answers to a call is what the account holds then (its listings are in fact only
  eventually consistent: an older state is another member of `Worlds`, and a
  finding is then true of what AWS said).
- A swallowed failure is a `ClientError`, any other exception escapes; the
  retries of boto3 are inside a call.
- `contains`, `equals` and the comparisons are given by `Holds` on the values an
  instance has; that a value of the wrong type matches nothing is part of it.
- A name that is an empty string is left out; a missing one and a null are not.
- In `Accounts` requests have passed the rate limiter and the CSRF check.
- In `RequestPools` a thread that runs goes on: statements end or fail.

## Read while modelling

What the code does differently from what its texts or a reader may expect, and no
run is made of:

- `find_attack_paths` takes the first hundred paths in the order of target names, so
  an account with many paths to one name hides the targets after it
  (`path_finder.py:48`). `ExposedAssetsAreShown` says exactly as many as the limit.
- A role with attached policies is never shown as a target: its policies are
  successors, targets have none, and a policy is not a target type
  (`path_finder.py:68-93`). So an exposed instance with a privileged role has
  no path but to the buckets of its policies, and no mapper sets those.
- A policy statement whose `Action` is an empty list raises an `IndexError` that no
  `except` of the collector names, and the whole scan is a 502
  (`resource_mapper.py:137-139`, `Escape`).
- `_framework_summary` tells rows apart by framework, control and rule
  (`engine.py:178`), where its docstring (line 162) and
  `docs/phase7-compliance_M1.md:84` say distinct controls: a control is counted once
  for each of its rules, and the seeded rules 003 and 005 share 1.16 and PR.AC-4.
  `ReportAccountsForFindings` says when a total is the number of controls and when it
  is greater.
- A path's severity is that of the findings that bear the names of its nodes; types
  are not compared, so a role takes the severity of a bucket of its name. Of several
  findings of one name `finding_by_resource` keeps the last
  (`attack_paths/routes.py:50`), so the severity may be lower than the highest that
  `_path_severity` promises (line 184). `SeverityReflectsThePath` says what is left of
  it. No path of today's scans shows it, since they have none.
- Every spelling of `ADMIN_EMAIL` becomes an administrator of its own: the
  role folds letters and the unique index does not (`auth/routes.py:118`).
- A sign-up that loses the race is a 500, not a 409: nobody catches the
  `IntegrityError` (`auth/routes.py:129`).
- A collection in which every listing fails is a COMPLETED scan without findings.

## Not modelled

- *Rate limiting* (`rate_limit.py`): the counting is slowapi's; a limited request
  is one that is not sent.
- *`get_value` and `load_rules`*: the traversal of dictionaries by dotted paths and
  the reading of rule files, sequential code on data whose shape the properties
  do not tell apart; resources carry the values found.
- *Clients and credentials of the collector* (`cloud/localstack.py`): they act once, at
  import. Temporary credentials that expire later are failing calls.
- *The comparison of the CSRF cookie with its header*: the frontend copies one into
  the other.
- *Several tabs, the other cached queries, the pages*: rendering of answers; one
  tab has all of the session's races.
- *Mock backend, offline training, deployment, migrations, wiring*: canned data, batch
  scripts nobody calls, configuration, and code without state. What they determine
  is part of the modules that meet it: the restart policy, the foreign key, the
  unique index, the seeded rows.

## Running it

    tlc -config RefreshPool.cfg MCRefreshTokens
    tlc -config ScanAnalysis.cfg MCScanAnalysis
    tlapm ScanPipelineProofs.tla

`PROJECT.json` names every run, its configuration and what it checks.
