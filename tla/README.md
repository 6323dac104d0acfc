# Ma'at Legal AI in TLA+

A verification project for the code under `src/`: a legal assistant that
answers questions about Indian statutes with a self-corrective retrieval graph
(LangGraph, Pinecone, BM25, NVIDIA models) behind a FastAPI server that keeps
users and conversations in MongoDB, tokens, login sessions and rate limits in
Redis, and serves a React client.

The models are translated from the code. Where the code and its documentation
disagree, the model follows the code, and a run whose expected result is a
violation states what the documentation says.

## 1. Inventory

| Component | Code | State | Operations | Who calls it | Hard to get right |
|---|---|---|---|---|---|
| Answer pipeline | `server/agent/chat_graph.py`, `node/*.py`, `utils/grader_utils.py` | the AgentState of one invocation | decompose, qualify, retrieve, rerank, grade, rewrite, search, generate | `invoke_chat`, `terminal_chat.py` | a node that raises leaves the flags of an earlier node in force; the retry budget; the recursion limit |
| Chat sessions | `server/chat/`, legacy `server/api/routes.py` | `chat_sessions`, `chat_messages` in MongoDB | create, update, delete, add message, history, memory summary, chat turn | HTTP client | whole-document read-modify-write, two collections without transactions, deletion racing a turn, restarts |
| BM25 cache | `server/agent/node/retriever.py` | per-process index, pickle and version file on disk | build, load, save, invalidate | retriever node; ingestion, in another process | double-checked lock, version computed after the fetch, counts-only version, invalidation of the wrong process |
| Ingestion | `server/agent/vector_db_graph.py`, `node/{ingestion,cleaning,chunking,embedding}.py`, `utils/ingestion_*.py`, `utils/pdf_parser.py` | Markdown files, the Pinecone index | convert, clean, chunk, embed in batches with retries | operator scripts | batches dropped or stored twice on retry, a partial failure without invalidation |
| Tokens | `server/auth/security.py`, `token_blacklist.py` | Redis blacklist with TTLs | issue, verify, rotate, revoke | auth router, dependencies | check-then-act between blacklist and rotation, Redis failure |
| Login sessions | `server/auth/session_manager.py` | Redis hash per session, sorted set per user | create, list, touch, revoke, revoke all | auth router | two keys with two lifetimes, members stored under another name than they are looked up |
| Accounts | `server/auth/router.py`, `server/settings/router.py`, `dependencies.py` | `users`, `user_settings` in MongoDB | register, login, password change and reset, verification, settings, deletion | HTTP client | whole-document saves that undo each other or a deletion, non-atomic cascade |
| Rate limiter | `server/auth/rate_limiter.py`, scripts in `redis_client.py` | a sorted set of hits per identifier | check, status, reset | auth router | window boundaries, colliding members, failing open |
| Security events | `server/auth/security_events.py` | a capped Redis list | log, query | auth router | push and trim are two commands |
| Web client | `app/src/App.tsx`, `api.ts`, pages and components | sessions, active session, messages, loading flag | select, send, regenerate, delete | user | a late answer shown under another conversation, a stale index |
| Server lifecycle | `server/api/main.py`, `server/db/connection.py`, `redis_client.py` | database client, Redis pool | start, stop, readiness | uvicorn | lazy singletons |
| Model and embedding clients | `server/agent/model.py`, `utils/embedding_utils.py`, `RetrieverNode.execute` | singletons, the index at Pinecone | pick a model, connect, create the index, validate the dimension, retry, fuse two rankings | nodes | failures that the callers do not name, two processes creating one index, a fallback that does not fit, waits longer than the client's |
| Logging, configuration, exceptions | `server/common/`, `server/agent/{config,exceptions}.py`, `utils/logger.py` | log files | | everything | |

How they interact: the client calls the legacy chat endpoint; `invoke_chat`
reads the history through ChatService, runs the graph *synchronously* inside
the request, then stores question and answer through ChatService again. The
retriever node reads the BM25 cache, which ingestion invalidates from a process
of its own. Every endpoint but login and registration first resolves a token,
against the blacklist in Redis and the user in MongoDB.

What makes each correct: an invocation ends, within its budget, with an answer
to the current query from documents retrieved for it; a session's count,
fields and messages agree and belong to its owner; an index that is served was
built from what the vector store holds; a revoked or rotated token is not
accepted again; a limit is never exceeded; the client shows a conversation's
messages under that conversation.


## 2. Plan

Modules in the order of what matters most to a user of the system. Every
component module declares its parameters as CONSTANTS with named assumptions,
has one action per step that other actors can observe, states its properties at
the end, and holds no RECURSIVE operator, so that it can be proved about.

| Order | Module | Models | Composes or refines | Theorems | State |
|---|---|---|---|---|---|
| 1 | `ChatGraph` | one invocation of the answer pipeline | implements `AnswerLoop` | type correctness, six safety properties | checked, proved |
| 2 | `AnswerLoop` | what the pipeline promises: a loop with a retry budget | abstract | 1 implements its safety part | checked and proved through 1 |
| 3 | `ChatService` | sessions, messages, chat turns, interleaved requests | uses the pipeline as a step that answers or fails | type correctness, five safety properties | checked, proved |
| 4 | `Bm25Cache` | index in memory and on disk, threads and processes | the ingestion as an environment | type correctness, all four safety properties | checked, proved |
| 5 | `Ingestion` | the ingestion graph, retries, crashes | its last step is the invalidation of 4 | type correctness, bound on duplicates, what success means | checked, proved |
| 6 | `Accounts` | user documents, settings, the deletion cascade, interleaved requests | abstracts 3 to whether an account has chats | type correctness, all three safety properties | checked, proved |
| 7 | `RefreshTokens`, `LoginSessions` | refresh tokens and their blacklist; session hashes and the per-user set: one operator per command or script of Redis | | | used by 8 |
| 8 | `AuthRequests` | login, refresh, revocation of one session and of all, with failures and the clock | composes the two of 7 | type correctness, all four safety properties | checked, proved |
| 9 | `RateLimiter` | the sliding-window script and its caller | | both safety properties | checked, proved |
| 10 | `AuditLog` | the capped list of security events and its paging reader | | both safety properties | checked, proved |
| 11 | `ChatUi` | the conversation state of `App.tsx`, requests and their timeouts | the server of 3 as an environment | type correctness, all three safety properties | checked, proved |
| 12 | `Retrieval` | how a retrieval and an ingestion get at the vector store: attempts, fallback models, the index | what the retriever node of 1 and the embedding node of 5 do before they answer or fail | type correctness, all three safety properties | checked, proved |
| 13 | `RankFusion` | how the rankings of the two retrievers become one | what the search of 12 does with its results | its safety property | checked, proved |

`RateLimiter` and `AuditLog` share the constants of `RedisRequests`: requests, and
whether Redis may fail.

What is left of the plan: two pure algorithms (history truncation, password
strength) checked against reference definitions over bounded inputs, the
composition of `Ingestion` with `Bm25Cache`, and the start and stop of the server.
Every safety property of the runs is proved.

## 3. The modules and the code

### ChatGraph and AnswerLoop

One action is one node of `build_chat_graph`, that is one LangGraph superstep;
`steps` counts them and `RecursionLimit` is LangGraph's limit (25). The
variables are the keys of `AgentState` that a node reads or an edge tests. A
node ends in one of three ways, and `Outcomes` says which are possible for
which node:

- *answers*: the model or the vector store gave a usable result;
- *handled*: an exception that the node's own `except` names, with the update
  that clause returns;
- *escapes*: anything else. `BaseNode.__call__` catches it and `_fallback`
  returns `{}`: no key changes and the edge decides with the flags that are
  there.

Text is data: a query is a version number (`NoQuery` is the empty string, which
`ChatRequest` admits), a retrieved chunk carries the version it was retrieved
for, an answer is only told apart from the apology of the generator. Relevance
scores are integers in tenths, and those on both sides of
`MIN_RELEVANCE_SCORE_OVERRIDE` are checked. The decomposition keeps the three
things `calculate_max_retries` looks at.

`AnswerLoop` is the promise: prepare, attempt within a budget, search outside
when the budget is used up or outside sources were asked for, write an answer; or
be lost, which is where a grader, rewriter or generator that escapes may lead.
`ChatGraph!ImplementsAnswerLoop` instantiates it with a refinement mapping
(`Phase`, the budget, `requires_case_law`).

`RoundsKept` says that neither a grading nor a rewriting was lost to `_fallback`.
While it holds the loop is bounded by the repository's own counter and budget
(`EndsByItself`, `NormalPathIsBounded`); a lost rewriting is not counted and a lost
grading repeats the last verdict, so that without it only LangGraph's limit ends an
invocation.

### ChatService

A request is a process; a step is one database call with the code up to the
next `await`, so requests interleave wherever asyncio lets them. A Beanie
document is read whole into `local`, changed there, and written back whole;
`save()` is an upsert. `chat` is the legacy endpoint `invoke_chat`: history,
pipeline (synchronous, so no other request moves while it runs), then question
and answer stored by two calls of `add_message`, each of which reads the
session again. `Configured` are the users whose account holds settings: their turn
ends in an exception ahead of the graph (see section 7), and only the others' goes on.
Errors and restarts (`Failing`) end a request before its next call; the last write of
a request may be applied and still be reported as failed. `Malformed` is the id that is no object id. The history variable `serial`
is true as long as requests came one after the other and none was cut off; what
only sequential use keeps is stated under it, in the same run as what always
holds.

### Bm25Cache

A thread of a process goes through `_get_bm25_retriever`: the unlocked check,
the lock, the second check, the disk cache (two files, read one after the
other), the listing and fetching of the chunks, the two writes. An ingester
stores vectors and then calls `invalidate_bm25_cache`: memory, pickle, version.
A copy of the index is the set of chunks it was built from, so stale means a
different set. A retrieval or an ingestion begins in any process (`at`): the
memory and the lock are per process, the files and the vector store are shared.
`quiet` is true as long as nothing failed and no vector changed while an index
was built; what holds only then is stated under it.

In the server as committed `graph.invoke` runs inside the event loop, so one
process retrieves once at a time; behaviours with two threads in one process
show what the lock is there for and what the module docstring claims ("with thread
safety").

### Ingestion

The four nodes of `build_db_pipeline` in sequence, file by file and batch by
batch. A file stands for its chunks. Every conversion, cleaning and chunking
may fail for a file, and an error of a write that has truncated the file is caught
and leaves it empty; every store call may fail before or after it took effect;
the vector store may be unreachable; the process may be killed at any step, and
the graph may be run again over the same directories. `WaitsAfter` is the
condition of the retry loop, 429 included; `skipped` remembers the files of a
batch that went through both its branches, refused with 429 at the last attempt.

### Accounts

A request is a process, a step one database call with the code up to the next,
and documents are read and written back whole, as in `ChatService`. A password
is the request that set it. `register` looks for the address, inserts settings,
then the user; `login` saves the document it read for the sake of
`last_login_at`; `change` (two endpoints) and `reset` save it for the
password; `delete` removes messages, sessions, settings and the user by four
calls. Chats and settings are kept as "this account has some". Whoever names an
account is its owner: tokens are for `AuthRequests`. `overlapped` records which
kinds of calls were ever in flight together, so that a property can say which
overlap it does not survive.

### RefreshTokens, LoginSessions, AuthRequests

A request is a process; a step is one call of Redis with the code up to the
next `await`. The first two modules hold the state in Redis and one operator for
each command or Lua script that changes it; `AuthRequests` makes the handlers of
them: `login` (and registration) adds a session by the script, sets further
fields by HSET, sets the lifetime by EXPIRE, and then answers with tokens that
were made before; `refresh` looks the token up in the blacklist, decides, puts
it there, and issues another; `revoke` (an endpoint, and the logout) checks the
owner and runs the removing script; `revoke all` (an endpoint, and the reset of
a password) reads the set and runs that script for each member.

A token is its jti, with a user, an expiry and the login it goes back to
(`chain`). Time is a counter; Redis drops what ends with it. A key of Redis is
a pair of prefix and name, so that a prefix put before a full key gives another
key, as in the code. `Jti` is the id of an access token, under which the logout
looks for a session. Errors of Redis count as "not revoked" at the check, and do
not stop a rotation; a restart ends a request before its next call. HSET makes
a hash where there is none: one without a lifetime and without a user.

`clash` remembers the logins of which one token was refreshed by two requests
at once, or refreshed while Redis did not answer; `cut` the sessions whose login
was cut off; `ended` the sessions a user had when all were revoked.

No answer of the server holds the id of a session, so that `revoke` with a real
one is what the endpoint admits and not what the web client can do.

### RateLimiter

One identifier and one endpoint: a sorted set of hits. A request takes the time
(`Ask`), and the script runs then or later (`Decide`), for requests in any
order. A hit is its time and the number it drew; two equal ones are one member.
The set has a lifetime, a little longer than the window. `odd` holds the
requests whose script ran late or whose hit replaced another one.

Any exception lets the request through, and says nothing of whether the script ran:
`Unheard` is a script whose reply was lost, which may run after the handler has
given up ("counted", or "overruled" when it would have refused), `Unanswered` one
that never runs ("unlimited"). `WindowBound` counts all of them among the requests
let through, and names those without a hit as one of the reasons why a window
exceeds its limit (`Irregular`). Not modelled: a script that runs twice, since the
pool has `retry_on_timeout=True` (`redis_client.py:48`); the pool sets no
`socket_timeout`, so that this takes a timeout of the operating system. The random
number of a hit is any of `Draws`, which covers a server that seeds `math.random`
alike for each script.

### AuditLog

The list of events, the two commands of each `log_*` call, and a reader that
asks `get_security_events` for one page after the other. An event keeps who
logged it and whether it names the reader. `pushed` is every event there ever
was, `untrimmed` the requests with an event whose trim failed, or was left out
because the reply of the push was lost, since the last trim that ran. When Redis
fails the reader gets an empty list, which it cannot tell from an empty page, and
goes on behind it (`PageFails`); `missed` are the events of those pages.

### ChatUi

A call is one run of a handler of `App.tsx`: its effect on the display up to the
request, the request, what the answer or the error does to the display, and the
list of sessions where the handler loads it. Handlers start whenever the user
can start them: the input only when no answer is waited for, the suggestions
when no messages are on display, a regeneration at any answer. The server is an
environment: it carries a request out at any time or never, also after
`fetchWithTimeout` gave it up. A message is the session it was said in, the
question it belongs to, known by the call that first asked it, and who says it; a
regeneration asks a question that is there. The three are needed together: with a
selection under way a regeneration asks the question of one conversation in
another, and both will have it. `overlapped`, `crossed` and `doubled` remember
that calls were in flight together, that one of them changed the active session,
and that two of them asked; a selection or a new chat that runs alone clears the latter
two, for it puts the display right.

### Retrieval

A client is one run of `RetrieverNode.execute`, or of `embedding_node` up to its
first call of the store, in any process; a step is one call of NVIDIA or
Pinecone. A retrieval makes five attempts with the primary model, each opening the
store again: the client object, `has_index`, `create_index` if there is none, the
search. Then `get_model_with_fallback` goes through `FALLBACK_MODELS`, three
health checks each, and takes the first that answers, or the primary model if none
does; its dimension is validated and the store opened once more. An ingestion has
one attempt; once the store is open it goes on in `Ingestion`, whose store calls and
their retries are not repeated here (`HandOver`).

Every call may fail in two ways: with one of `RuntimeError`, `ConnectionError`,
`ValueError`, which the handlers name (`SoftFailure`), or otherwise
(`HardFailure`), which leaves the function; a `VectorStoreError` of `_ensure_index`
and a `VectorStoreDimensionMismatchError` are of the second kind. `create_index`
may fail because another client was faster, which is swallowed, and may fail after
it took effect. `Fits` are the models whose vectors have the dimension of the
index; the second of the chain is none of them. `slept` adds up the waits, `softs`
and `hard` remember what failed.

`ChatGraph` and `Ingestion` see of all this that a node answers, is handled or
escapes.

### RankFusion

`reciprocal_rank_fusion` as its two loops run, one turn to a step, and the sort and
the cut of `_hybrid_retrieve` as one more. `score` and `inserted` are the dictionary:
its values and the order of its keys, which the stable sort falls back on.
`results` are any rankings of at most `TopK` texts; a text may be in one twice, since
ingestion may store it twice (`DuplicatesAreBounded` says how often). A document is
its `page_content`; which of two with the same text is kept is left out.

`Weight` stands for `1.0 / (rank + k)`, of which it keeps the order. The code adds
floats; the property compares sums place by place and accepts ties, and rounding
keeps `<=`.

## 4. The runs

Passing runs:

| Run | Instance | What it shows |
|---|---|---|
| `graph` | every node may answer, be handled or escape; limit 25 | six safety properties, that the retry loop ends by itself, and that the graph implements `AnswerLoop` |
| `chat` | three requests at once, one session, two users, failures | what survives every interleaving: the count never overstates, owners, question before answer; what sequential use keeps besides: exact count, last write stands |
| `bm25` | two threads and an ingestion in two processes, everything may happen | only the lock holder builds; one copy per process until invalidated; and, while `quiet`, a loaded pickle is what Pinecone holds and a cold start misses nothing |
| `ingestion` | three files, batches of two, three attempts, two runs | success means stored, but for batches refused with 429 to the end; duplicates are bounded; a run ends |
| `accounts` | three requests at once, two accounts, two addresses, failures | the password is the last one set, addresses stay unique and deletions leave nothing, each but for the overlaps it names |
| `auth` | three requests of two users, two at a time, three tokens, two sessions, until after the first tokens end, failures | one usable token for each login, unless requests overlapped or Redis failed; spent tokens stay spent; the set of a user lists its sessions; sessions end |
| `redis` | `RateLimiter`: four requests, three at a time, a limit of two, failures; `AuditLog`: four events, a bound of two, pages of one, failures | a window exceeds its limit only by late and colliding hits and by requests that an error let through without a hit, and nobody is refused for less than the limit; the log is the most recent events and bounded, and pages leave nothing out but what was on those whose reading failed |
| `ui` | three handlers of any kind, two conversations, errors, timeouts | the display is of one conversation, answers follow their questions, the typing indicator tells the truth, each but for the overlaps it names; waits end |
| `retrieval` | two retrievals and an ingestion, with or without an index, the chain and the numbers of the code | whoever searches has an index and a model that fits it; nothing is found, and an exception leaves, only for cause; the waits of a retrieval are at most 30 s and 3 s for each model; all end; and, apart from these, two rankings of at most three of four texts: what both agree on stands after the fusion and the cut |

A type invariant is checked for `ChatGraph`. For the others it is proved, which
covers every instance (`TypeOK`, `UiType`, `RetrievalType`; `TypeInv` and `LogType`
in `Redis_proofs`, `FusionType` in `VectorStore_proofs`).

The other runs state what a docstring or comment says and are expected to be
violated; each is a finding of `PROJECT.json`:

| Run | The sentence | What happens |
|---|---|---|
| `chat_deleted` | "Delete a chat session and all its messages." | an update that read the session before saves it after the deletion was acknowledged, and `save()` inserts it again |
| `ingestion_ratelimit` | "True if successful, False otherwise." | a batch refused with 429 at the last attempt is dropped |
| `auth_reset` | "Revoke all sessions (force re-login)" | the members of the set are taken for ids, and no session is removed |

### What the properties except

A property that names an overlap (`overlapped`, `clash`, `crossed`, `doubled`), asks for
sequential use (`serial`) or for quiet (`quiet`), or leaves a cut-off call out (`cut`,
`purged`), does so because the code goes wrong there, and TLC shows it as soon as the
exception is taken out. Such a property does not catch the hazard it excepts: it says
that this is the only way. The note of each of these hazards in `PROJECT.json` says
which part is not covered: for accounts (a registration beside another, a
login or any save beside a change or a deletion), rotations that overlap or meet an
error of Redis, logins that are cut off, indexes built while vectors change and warm
copies of them, concurrent saves of one session, a deletion cut off between its two
halves, and, in the client, calls that overlap a selection or each other.

### Bounds

- One invocation of the graph is the whole life of an `AgentState`; no bound is
  needed but LangGraph's own. One chunk suffices: the safety properties speak
  of each document by itself.
- Three requests are enough for a read-modify-write race with a third party
  (a turn, an update and a deletion); a second session would only add requests
  that touch nothing in common. Requests, accounts and addresses are symmetric; so are
  users in `auth`, and not in `chat`, where one of two has settings.
- Two threads exercise the double check when they are in one process and the
  shared files when they are in two; an ingester runs once. Two vectors tell
  "before", "added" and "replaced" apart.
- Batches of two over three files give a full and a short batch; two runs give
  the duplicates of a repeated run; `MaxRuns` is the only counter that is cut.
- Two accounts and two addresses let an address be taken, freed by a deletion
  and taken again.
- `auth`: a login, a rotation and one request more are what an overlap needs; the
  clock goes past the end of the first token and of the first session and set.
  `MaxTime` bounds it, and `Forever` is beyond every end it can reach.
- `redis`: the two structures share nothing and each property speaks of one, so
  that `MCRedis` lets either move, chosen at first, and not both. Four requests with a
  limit of two fill a window and exceed it, on time, late or by an error; the clock
  goes on until the set has ended and another can begin; two draws let hits collide.
  Four events push a list of two over its bound with trims outstanding.
- `retrieval`: two retrievals and an ingestion race for the index three ways; the
  attempts, checks and models are those of the code, not cut. `softs` stops one
  above the number of attempts, which is all that the properties compare it to.
  `RankFusion` shares nothing with it, and `MCRetrieval` lets either move, chosen at
  first; four texts in two rankings of three, with repetitions, give ties, texts in
  one ranking only and more texts than the cut keeps.
- `ui`: two conversations tell right from wrong; of three calls two overlap and
  the third shows what is left.

### Fairness

- `ChatGraph`: weak fairness of `Next`. `graph.invoke` runs in one call until
  the graph ends or raises.
- `Ingestion`: weak fairness of the nodes, not of the start of a run nor of a
  crash; the graph is one synchronous call.
- `ChatUi`: weak fairness of what follows a request in the client: the answer,
  its error or its timeout. `fetchWithTimeout` ends every request after a time;
  that the body of an answer that has begun arrives or fails is assumed, since
  the timer is cleared before the body is read. Neither the user nor the server
  is assumed to do anything.
- `Retrieval`: weak fairness of the steps of a client that has begun: a call of
  NVIDIA or Pinecone comes back or raises. That the libraries' own timeouts see to
  it is assumed.
- The other modules have no liveness property and assume no fairness.

## 5. Proofs

Eight modules hold the theorems: each is named after the module it is about, but
for `Redis_proofs` (`RateLimiter` and `AuditLog`) and `VectorStore_proofs`
(`Ingestion`, `Retrieval` and `RankFusion`). Each theorem is for every value of the constants that the named assumptions of the component's
module admit; TLC evaluates these assumptions in every run. The assumptions ask
for no more than that the sets of model values are apart (`None`, `Nobody`,
`Malformed`, `Original`, `Jti` are no members of the sets they stand beside),
that bounds are numbers in their range, and, where something is counted, that
the set is finite: the files of an ingestion, the chunks of an index, and the
requests of the limiter and of the log. No bound of an instance is used: the
theorems hold for any number of requests in flight.

All have one shape. A type invariant that adds to `TypeOK` what a request holds
at each step is proved first; the property is then strengthened until every
action keeps it, and the actions are gone through one by one, with an effect
lemma for what several of them do alike. The type invariant stands behind every
later step.

Beside the liveness properties, which stay with TLC, stand four theorems about what
makes them true: `RetryLoopEnds`, `IngestionRunsOut`, `WaitRunsOut` and
`RetrievalRunsOut`. Each names a number of steps that are left, shows that it is
never below zero and that every step makes it smaller, for every value of the
constants; `RetryLoopEnds` as long as no grading or rewriting is lost, for then
only LangGraph's limit ends the loop. That a system which can go on does is the
fairness that TLC adds; that it cannot go on for ever is proved.

### `ChatGraph_proofs`

| Theorem | Property | Argument |
|---|---|---|
| `TypeCorrect` | `TypeOK` | inductive, one effect lemma per node |
| `RetriesStayInBudget` | `RetryBudget` | `RetryInv`: at the rewriter the count is still *below* the budget, and a stale retry flag implies the same unless the grader was lost |
| `ContextIsFresh` | `FreshContext` | inductive with `TypeOK` and `BeforeRetrieval` |
| `WebSearchIsLastResort` | `SearchIsLastResort` | `SearchInv`: the reason for the search also stands behind a set `search_required` flag and behind `pc = "web_search"` |
| `CaseLawAlwaysSearched` | `CaseLawIsSearched` | `CaseLawInv`: with case law asked for, no retry flag is ever set and the way to the generator leads through the search |
| `PathIsBounded` | `NormalPathIsBounded` | `PathInv`: `steps` is a function of the node and of `iteration_count`; with `RetryBudget` this gives 7 + 4 * budget |
| `RetryLoopEnds` | (of `EndsByItself`) | `RoundsLeft`: the nodes up to the answer, and four for each round that the budget has left; `RetryInv` keeps it from falling below zero, the rewriter's count makes it smaller in every round, and `PathInv` keeps the invocation below LangGraph's limit (`LongEnough`) |

Each node has an effect lemma (`DecomposerEffect`, ..., `GeneratorEffect`) that
says which variables it may change and how; the invariants are proved from
these instead of from the node's definition.

`StaysInAnswerLoop` is the safety part of the refinement `ImplementsAnswerLoop`:
the initial state maps to one of the loop, and each node, however it ends, to a
step of the loop or to none. It asks that LangGraph's limit be no obstacle
(`LongEnough`: at least 7 + 4 * `RetryCap`, which is 23 for the code's cap of 4,
and its limit is 25); `PathInv` shows that `GraphRecursionError` is then never
reached while neither a grading nor a rewriting is lost, `RetryInv` that a `Retry`
finds budget, `CaseLawInv` that a question that needs case law is never retried. That the loop also gets on,
`WF_vars(Progress)`, is left to TLC.

### `ChatService_proofs`

| Theorem | Property | Argument |
|---|---|---|
| `TypeCorrect` | `TypeOK` | `TypeInv`: messages are finitely many and older than the clock, and a request holds a session only at the steps between its read and its write |
| `OwnersAreApart` | `OwnerIsolation` | `OwnerInv`: a copy in hand has the owner of the session it was read from, so that an upsert after a deletion gives the session back to the same owner |
| `AnswersHaveQuestions` | `AnswerHasItsQuestion` | `AnswerInv`: a turn on its way to store the answer has its question stored, or the session was purged since; every page shown is closed under "came before" |
| `CountsAreLowerBounds` | `CountNeverOverstates` | `CountInv`: neither the stored count nor any copy in hand is above the number of messages; a purge takes the session out of the claim |
| `CountsAreExact` | `CountIsExact` | `SerialInv`: with one request at a time, what it holds is up to date, and the count lags only between its two writes |
| `WritesStand` | `LastWriteStands` | the same `SerialInv` |

The last two are about the executions in which `serial` is still true; the
invariant says nothing of the others, as the properties do.

### `Bm25Cache_proofs`

| Theorem | Property | Argument |
|---|---|---|
| `TypeCorrect` | `TypeOK` | `TypeInv`: a thread that began is in a process |
| `OneBuilderAtATime` | `OneBuilder` | `LockInv`: who is at a step of `Holding` is the holder, and nobody else holds; every way out, an error included, releases |
| `CopyBuiltOnce` | `BuiltOnce` | `NoCopyYet`: who holds the lock past the second check found no copy, and only the holder writes one |
| `QuietLoadsAreValid` | `QuietLoadIsValid` | `QuietInv`: what is built is what the vector store holds, since no vector changes during a build; versions are never ahead of the index, so one that agrees is from after the last change, when every pickle written was up to date |
| `ColdStartsAreFresh` | `ColdStartIsFresh` | `FreshInv`: every readable pickle has what was ingested, for the unlinking comes after the vectors and before the end of the invalidation; so has every copy a process gets while a cold retrieval waits |

### `VectorStore_proofs`

| Theorem | Property | Argument |
|---|---|---|
| `TypeCorrect` | `TypeOK` | with `BatchInv`: a batch is being stored in the embedding node only |
| `DuplicatesBounded` | `DuplicatesAreBounded` | `CopiesInv`: what was not sent in this run is there as often as earlier runs left it, what is being sent once more for each attempt |
| `SuccessStores` | `SuccessMeansStored` | `StoredInv` and `StatusInv`: in the embedding node every document done with is stored or `skipped`, and the status does not yet say success |
| `RetrievalTypeCorrect` | `RetrievalType` | the count of attempts is below its bound until the fallback begins, that of the checks until the next model |
| `SearchesAlwaysFit` | `SearchesFit` | an index, once there, stays; the way to a search with a fallback model leads through its validation |
| `OutcomesAllHaveCause` | `OutcomesHaveCause` | every attempt used up has had a failure that is counted in `softs`, and the last one counts too; only a hard failure and the validation end a client with an exception, and at the validation all attempts have been used up |
| `SleepBounded` | `SleepIsBounded` | `SleptInv`: what was slept is at most the waits before the attempt at hand, 2 * (2^tries - 1), and those of the health checks up to the model at hand |
| `IngestionRunsOut` | (of `RunEnds`) | `StepsLeft`: the files the node has still to go through, the most that the nodes after it may take, and the attempts left for the batch |
| `RetrievalRunsOut` | (of `RetrievalEnds`) | `CallsLeft`: the calls of the attempt at hand, four for each attempt left, one for each health check left, and those of the fallback; no client changes the count of another |
| `AgreementSurvives` | `AgreementStands` | `ScoredAhead`, `InsertedAhead`: a text that outranks another has at least its score, by the next weight more while it has been met in a ranking and the other not, and is inserted first, which decides ties |

`RetrievalTypeCorrect`, `SearchesAlwaysFit` and `OutcomesAllHaveCause` are read off
one invariant, `RetrievalInv`, which is a statement about each client (`ClientInv`)
and the index. The clients share nothing but
`indexExists`, and a step of one can only make that true, so that it disturbs no
other: one lemma says so for all actions.

`SleepBounded` needs powers of two, of which the provers know nothing. `Power2` is a
recursive function; `Power2Def`, its defining equation, is what tlapm takes its
definition to say, as it may, since the recursion goes down to zero. `AllNumbers` is
induction over the natural numbers for a *set* of them, proved from the library's
theorem that their order is well-founded; the library's own induction theorem takes
an operator. `Power2Positive` and `Power2Monotone` apply it to the set of the numbers
for which they hold.

### `Accounts_proofs`

| Theorem | Property | Argument |
|---|---|---|
| `TypeCorrect` | `TypeOK` | `TypeInv`: two registrations never have one account, and whoever is in flight together is in `overlapped` |
| `PasswordStands` | `PasswordIsLatest` | `PasswordInv`: a login that will save its copy holds the latest password |
| `EmailsUnique` | `EmailsStayUnique` | `EmailInv`: an address stays free while it is being registered, and a document in hand has its account's address |
| `DeletionsLeaveNothing` | `NoOrphans` | `OrphanInv`: outside deletions the account of a request stays, and within one what was deleted stays deleted |

### `AuthRequests_proofs`

| Theorem | Property | Argument |
|---|---|---|
| `TypeCorrect` | `TypeOK` | `TypeInv`: each step has the kind of call that leads to it |
| `SpentForGood` | `SpentStaysSpent` | `ClockInv`: an entry of the blacklist outlives its token |
| `SessionsEndThemselves` | `SessionsEnd` | a hash without a lifetime belongs to a login under way or cut off |
| `IndexCoversSessions` | `IndexCovers` | `CoverInv`: a set is extended with every session added and shortened by none |
| `OneTokenForEachLogin` | `OneUsableToken` | `RotationInv`: outside `clash` a token is refreshed by one request at a time, a login's tokens are rotated by one, and that one holds the last of them |

### `Redis_proofs`

| Theorem | Property | Argument |
|---|---|---|
| `RefusalsHaveCause` | `RefusedForCause` | `OwnerInv`: the hits are mapped one to one to allowed requests; causes never go away |
| `WindowsAreBounded` | `WindowBound` | `KeptInv`: each allowed request that is not odd has a hit of its own, in a set that lives long enough, until no request can be decided in its window without being late (`Gone`); hence an allowed request finds fewer than the limit of them |
| `LogStaysRecent` | `LogIsMostRecent` | `Beginning`: the list is a beginning of what was pushed; `Overhang`: a push adds one event and one request that owes a trim |
| `PagesLeaveNothingOut` | `PagesMissNothing` | `WasPushed`: an event in front is new to the reader's `original`; places move on by pushes only, and a page holds all that lies between two offsets |

### `ChatUi_proofs`

| Theorem | Property | Argument |
|---|---|---|
| `TypeCorrect` | (`UiType`) | what each step of a call of each kind holds |
| `IndicatorIsRight` | `LoadingIsWaiting` | `Apart`, `Loading`: outside `doubled` at most one call that asks is in flight, so that no other ends its indicator |
| `OneConversationShown` | `ShowsOneConversation` | `Display` |
| `AnswersFollowQuestions` | `AnswerFollowsItsQuestion` | `Display` |
| `WaitRunsOut` | (of `LoadingEnds`) | the indicator is on only while a call that asks is in flight, and no call goes back to a step it has taken: each takes five at most |

The invariant has four layers, each proved with the ones before it: the types;
`Apart`, what each history variable says of two calls in flight; `Loading`; and
`Display`, which is the two properties with what they rest on. `HistoryArrives`: the
answer to a selection is of its session and in pairs. `SelectionStands` and
`AskedHere`: a call that nothing interfered with finds its session still active when
its answer comes. `QuestionIsLast`: the question is then still the last message on
display, so that the answer comes right after it. Lemmas about sequences of
messages say that a history is in pairs, and that appending a question, appending
the answer to the last question and cutting a display before a question keep them.

### What is only model-checked

- Liveness: `EndsByItself`, `RunEnds`, `LoadingEnds`, `RetrievalEnds`, and the fairness
  in `ImplementsAnswerLoop`. The proof system handles neither `ENABLED` nor, hence,
  weak fairness; their safety cores are proved, see above.
- The runs that expect a violation.

### What the proofs showed

Two definitions were changed because a proof failed for a good reason. `Phase`, the
refinement mapping of `ChatGraph`, was a `CASE` with overlapping arms, whose value TLC
takes from the first and which the semantics leaves open; `Lost` now comes first.
The messages of `ChatUi` were told apart by the session and the call alone, so that a
question asked again in another conversation passed for one of the first; the
theorem about the display could not be proved until the session a message is in was
kept apart from the question.

## 6. Not modelled

- Prompts, text cleaning and splitting, formatting, logging, configuration: no
  property is about them.
- The ranking of BM25 and of the dense search: `RankFusion` takes any two rankings,
  and the graph sees a set of chunks.
- Of the model clients: the singletons (`get_vector_database_service`,
  `get_embedding_models`), and the chat models but for how they fail.
- Ingestion's markdown mode: `AgentState` has no key `ingest_markdown_dir`, so
  LangGraph drops it and the branch of `ingestion_node` cannot be reached
  through the graph. `utils/ingestion_service.py` and `ingestion_utils.py` hold
  equal copies of the embedding loop.
- `get_session` and `list_sessions` of ChatService, which change nothing.
- Of accounts: e-mail verification (no token of its type is ever issued) and API
  keys (`User` has no `metadata`), which no client can reach; the creation of
  missing settings in `settings/router.py`, which registration makes
  superfluous; `is_active`, which nothing clears.
- Of tokens: access tokens, which nothing puts on the blacklist and which only
  expire; `refresh_access_token` and `revoke_token`, which have no caller;
  hashing.
- Of login sessions: listing and counting, which only read, and the update of
  the last activity, which follows a lookup by an id that no session has.
- Of the limiter: status, reset and `rate_limit_dependency`, which have no
  caller. Of security events: filters other than the user, and the count. The
  endpoint that reads them asks for a verified user, and nobody can be verified.
- Of the web client: what the sidebar keeps for itself (search, renaming), the
  splash screen, the retry of the first load, forms and toasts.
- Everything marked `not_modelled` in `PROJECT.json`, with its reason.

## 7. Noticed while modelling

Disagreements of the code with itself or its documentation that a reader of the
models will meet and no run is spent on:

- Chat graph: the fallbacks of `src/README.md` presume exceptions that a node
  handles itself. One that reaches `_fallback` changes no key: a lost rewriting
  is not counted (README.md:153 says it is), a lost retrieval keeps the previous
  round's documents (README.md:150), a lost generation leaves an empty answer
  (README.md:155).
- Chat graph: the documents under `docs/` know no retry. There an irrelevant grading
  "sets `search_required` to True, and the graph routes to the Web Search node"
  (`docs/server/agent/node/grader.md:7` and `:18`, `docs/server/agent/chat_graph.md:33`,
  in other words); the code, and `README.md:79-80` of the repository, rewrite and
  retrieve again first, and search when the budget is used up. `SearchIsLastResort`
  follows the code, and contradicts these three lines.
- Chat graph: how often a query is rewritten is said in three ways. The docstring of
  `calculate_max_retries` has "retries allowed (1-4)" (`grader_utils.py:18`), which is
  what the code does; a comment has "max 4 attempts total" (`grader_utils.py:39`),
  but four retries are five attempts; `README.md:79` has "retry < 2".
- Chat turn: `routes.py:173` reads `user_settings.top_p`, and `UserSettings`
  (`db/models.py:16`) has no such field. Registration gives every user settings, so
  that the turn of a registered user ends with an `AttributeError`, status 500, ahead
  of the graph and of the two calls of `add_message`, which nothing else calls. The
  turn of a user without settings goes on; the model has both (`Configured`).
- Chat service: a malformed id raises bson's `InvalidId`, which the handler at
  `service.py:89` does not name. `add_message` writes the whole session back
  (`service.py:274`) and so undoes an update made in between. The legacy
  endpoint's conversations get ids that are never stored.
- BM25 cache: "unknown", the version reported on an error, equals itself
  (`retriever.py:304`), so that two errors make any pickle valid; the version
  counts vectors, and a replacement one for one keeps it, whatever the
  docstring at line 283 says.
- Ingestion: after a partial failure vectors were added and the cache is not
  invalidated (`embedding.py:85` against `retriever.py:10`).
  Files are cleaned in place (`cleaning.py:52`): a process that ends, or a write that
  fails, after the truncation leaves an empty file, which the next run chunks into
  nothing. The model has it (the content "empty"); nothing in the repository
  promises that a cleaned file survives, and no property is stated.
- Accounts: `change_password` of the auth router calls `get_current_session()`
  without its dependency (line 562) and answers 500 after the password was
  saved. The settings made at registration carry the user id `None` is turned
  into, a random one, since the user has none yet (`router.py:216`).
  `update_settings` saves the document of the collection and not the copy in
  the user document, which is what `get_settings` reads.
- Chat graph, grader: the model is obtained ahead of the `try`
  (`grader.py:65`), so that an error there reaches `_fallback`; the edge then
  follows the flags of the round before, where README.md:152 says "Routes to
  generator with whatever context exists".
- Retrieval: the waits of the five attempts add up to 30 s (`retriever.py:122`),
  which is the whole timeout of the client (`api.ts:10`), so that what is found after
  them is found for nobody. The second model of `FALLBACK_MODELS` makes vectors of
  another dimension than the index has; when it is the first to answer, it is
  returned and then rejected (`embedding_utils.py:123`), and the third, which fits,
  is never tried.
- Retrieval: `get_model_with_fallback` has "LLMError: If all fallback models fail."
  (`model.py:187`); when they do, it returns the primary model unchecked (line 235).
- Chat service: `get_history` with a limit returns the oldest messages, since
  the order is ascending (`service.py:311`).
- BM25 cache: the version is taken after the index was built
  (`retriever.py:272`), and may be newer than the chunks in it. An invalidation
  reaches the memory of its own process only, where the docstring of
  `embedding_node` has "the next retrieval pass" rebuild (`embedding.py:29`).
- Accounts: the address is looked up in one call and inserted by another
  (`router.py:192`, `router.py:220`). Registration and login answer 500 when the
  session cannot be created, after the user was saved.
- Password reset: an expired token makes `payload` None, and the handler asks it
  for the address (`router.py:481`), so that it answers 500 and not 401.
- Logout: `require_session` looks the session up by the `jti` of the access
  token, which is no session's id; it answers 401 to everyone.
- Rate limiter: the dependency drops the verdict of the check
  (`dependencies.py:224`), so that no limit has an effect on the endpoints the
  table calls "stricter limits" (`rate_limiter.py:51`). `bearer_scheme` is
  called without being awaited (`dependencies.py:215`), so that a limit per user
  is one per address.
- Token blacklist: the comment says "Fail closed", the next statement returns
  False (`token_blacklist.py:125`).
- Server: the paths of the legacy router begin with `/api/v1`, which is also
  the prefix it is included with (`api/main.py:160`), so that they are served
  under `/api/v1/api/v1`.
- Login sessions: the per-user set is filled with full Redis keys and read as
  if it held session ids, so listing and revoking all find nothing; the run
  `auth_reset` shows it.
