# SentinelSSH: a TLA+ verification project

SentinelSSH is an SSH honeypot with an ingest pipeline, a PostgreSQL database
and a live dashboard.  This directory models it in TLA+, checks the models with
TLC and proves the safety of every component with TLAPS.

    tlc -workers 2 -config MCIngest.cfg MCIngest      # one model-checking run
    tlapm IngestProofs.tla                            # one module of proofs

`PROJECT.json` lists the components, the runs with their properties, the map
from definitions to source lines, one mutation of the code model per property
that the property rejects, the disagreements found, the hazards and the theorems.
Operators named `X_Something` in a module are these mutations of `X`; the
specifications do not use them.

## 1. Inventory

| Component | State | Operations | Hard parts |
|---|---|---|---|
| Honeypot service (`honeypot/server.py`, `config.py`) | listening socket, stop flag, host key file, list of sinks | accept, spawn a thread per connection, stop, shut down | daemon threads run on while the GeoIP readers are closed; a crash while the key is written |
| Session (`session_handler.py`, `ssh_server.py`) | the `AttackRecord`, shell event, exec list, channel | negotiate, authentication callbacks, channel/shell/exec requests, fake shell, teardown | two threads share the record; waits with and without timeouts, in sends too; silent clients |
| Sinks (`capture.py`, `pipeline_sink.py`) | JSONL file, pipeline | fan-out write | a failing sink; sinks see the record at different times |
| Ingest pipeline (`core/pipeline.py`, `core/db.py`) | tables `attacks`, `commands`, `incidents` | enrich, count history, score, correlate, insert, commit, publish | READ COMMITTED interleavings, lost COMMIT acknowledgement, crash |
| Incident correlation (`core/intel/incidents.py`) | aggregates of an incident | find or create, update | check-then-insert and read-modify-write without locks |
| Intelligence rules (`core/intel/*`) | none (configuration) | detect, resolve, score, level | duplicated thresholds, clipping, ids that a catalogue lacks |
| Realtime channel (`realtime_publisher.py`, `api/realtime.py`, `realtime/events.py`) | connected sockets | post, emit attack / counters / incident | at most once, concurrent handlers, no replay |
| Dashboard page (`frontend/assets/js`) | feed, panels, timers, socket | initial loads, live handlers, timers | loads against events, failures, reconnects, stale answers |
| Startup (`entrypoint.sh`, `docker-compose.yml`, `demo_data.py`, `auth/security.py`) | schema, admin user, demo data, host key | wait, create, seed, serve, restart | crashes between steps, races of check-then-insert, honeypot up before the tables |
| Services, repositories, REST endpoints, incident report | none (queries) | list, filter, page, aggregate, look up | several statements per answer, pages of a table that changes |
| Demo data (`demo_data.py`, `scripts/seed_demo*.py`) | rows of the tables | seed if empty, force, reset | running ingests and other seedings, row locks, foreign key |
| Authentication (`app/auth`) | users, session cookie | login, logout, guard | inactive users, exempt paths |
| CSV and PDF, rendering, migrations, proxy, backup | none | formatting and configuration | none a model would show |

How they interact: an accepted connection gets a `SessionHandler` thread; paramiko's
transport thread calls the `HoneypotServer` callbacks on the same `AttackRecord`.
When the session ends the handler thread writes the record to the JSONL file,
to the log and through the pipeline into the database, posts a snapshot to the
backend and ends.  The backend's handler thread for the post broadcasts the attack,
fresh counters and the incident to the browsers connected at that moment.  Pages
load everything else over REST.  Honeypot and backend share nothing but the
database and that post.

What makes each of them correct: one open incident per source with the
aggregates of its attacks; scores that more evidence never lowers; a record
per session that reaches every sink; sessions that end; a screen that shows
only what was stored and misses nothing it was told; answers whose
numbers and rows fit together; demo data that harms no captured evidence but what
it was asked to delete; a start that gets through from any crash.

## 2. Modules

| Module | Models | Kind |
|---|---|---|
| `Intel` | enrichment, reputation, behaviours, techniques, score, level | operators |
| `Assessment` | one session's evidence growing step by step, over `Intel` | specification |
| `Ingest` | pipeline, correlation, database, honeypot process; extends `Intel` | specification |
| `IncidentLedger` | what correlation promises: one step per stored attack | abstract specification |
| `IngestProofs`, `IngestSerial` | theorems about `Ingest`, in general and with serial ingests | proofs |
| `Session` | one connection: client, transport thread, handler thread, sinks | specification |
| `Dashboard` | commit, post, broadcast and one page | specification |
| `Startup` | start, crash and restart of backend, honeypot, database | specification |
| `Reseed` | demo data scripts next to running ingests, with row locks | specification |
| `Reads` | lists, numbers, details and reports over changing tables | specification |
| `AssessmentProofs`, `SessionProofs`, `DashboardProofs`, `StartupProofs`, `ReseedProofs`, `ReadsProofs` | theorems about the module of that name | proofs |
| `MC*` | small instances for TLC | model checking |

`Ingest` composes the rules of `Intel` and is connected to `IncidentLedger` by
a refinement; `Session` ends where `Ingest` begins (its `PipelineSink` is one
element of `Sinks`), and `Dashboard!Store`/`Post` stand for `Ingest!Commit`/
`Publish`.  `Reseed` takes the locks and the two flushes of `Ingest` and adds the scripts;
`Reads!Store` and `Wipe` are the commits of `Ingest` and `Reseed`.

### Intel and Assessment

Evidence of a session is the username's class, the number of attempts and a set of
commands, each the set of regular-expression rules it matches.  `behaviors`,
`techniques`, `fires`, `score` and `level_for` follow `behavior.py`, `mitre.py`,
`risk.py` and `config.py`; weights, thresholds, threat feed and geography are
constants.  `Assessment` lets evidence grow by the steps that grow it in the code: an
attempt, a command, an earlier session.  The reference definitions are
separate: the dashboard's severity is `severity_for` of `services/__init__.py`.

### Ingest

One action per database statement of `process()`: `CountPrior`, `SelectIncident`,
`Flush`, `Commit`, then `Publish`.  A thread's locals are `txn[s]`; the
object that SQLAlchemy loaded is `txn[s].row`, and a commit writes the columns
it changed as absolute values (`UpdatedRow`), which is how updates get lost.
`Locked` is the row lock an UPDATE takes at flush.  `Rollback`
is any failing statement, `CommitUnacknowledged` a COMMIT whose answer is
lost, `Shutdown`, `Exit` and `Restart` the process: threads that are inside the
pipeline at `Exit` are lost.  The observer `known` is what was stored when a session connected; it is
kept when the session has ended, so that of two stored attacks one can tell whether their sessions
were open together (`Together`).  `Overlap = FALSE` restricts the
specification to ingests of one address that do not overlap.

### IncidentLedger

The promise of `incidents.py` in one step per attack: it is absorbed by the open
incident of its source, with exact aggregates, or opens one.  `Ingest` with
`Overlap = FALSE` implements it under the identity mapping (the ledger sees the
tables and what was published; threads and clocks are hidden).  With overlap it does not, which
`ingest_single` shows.

### Session

The handler thread is a program counter that follows `handle()`: `Negotiate`, `Accept`
(with timeout), `CheckExec`, `AnswerExec` or `WaitShell` (with timeout), `ShellLoop`,
`Recv` (without), `ProcessLine`, `Respond`, `CloseChannel`, `WriteSink`, `Teardown`.  The
transport thread's callbacks (`check_auth_password`, `check_auth_publickey`,
`check_channel_*`) and the client are free.  Data is a number of command lines.

`channel.sendall` has no timeout either.  `takes` is what the client takes: `data` while it
opens its window, `control` when the window is shut, `nothing` when it does not read its
connection at all.  A step that sends (`Greet`, `AnswerExec`, the echo in `ProcessLine`,
`Respond`) waits for `Sendable`; exit status and close need no window but a peer that
reads (`Postable`).  `HandlerRaises` is the exception of a send on a channel that the client
has closed, or on a connection that is gone.

### Dashboard

An attack's handler thread is `event[a]`.  What a query answers is the set of
attacks stored when it runs, so `shown[p]` says how current a panel is.  Requests
are asked, served and answered in separate steps, in any order: nothing in `dashboard.js`
orders the answers of one panel.  The observers `late` (requests that a newer one has
overtaken) and `stale` (panels that do not show the answer of their newest request) say when
that happened.  A page is
loading, failed (an unguarded load was rejected, so `init()` ended), offline
or live.  `checking` stands for the requests of the status lights, the only thing
the 30-second timer refreshes.

### Startup

`pc["backend"]` follows `entrypoint.sh` and `create_app`; `pc["script"]` is
`create_user.py` run by an operator for the same username.  Each check-then-insert
transaction is two steps.  The honeypot starts once the backend has been *started*.
`keyfile` is absent, truncated or the number of a key.  `Accept`, `AcceptFails` and
`ExitHoneypot` are the accept loop: `accept()` fails with `OSError` only while
connections are open (descriptors used up), the loop ends, and the process exits with
whatever its threads were doing.  `WriteJsonlFails` is a full disk: the line is torn or not
written, and a later line that is appended to a torn one cannot be read either.  A process that
dies in the middle of a line tears it too (`CutShort`).

### Reseed

Transactions are ingests (`SelectIncident`, `FlushIncident`, `Commit`) and scripts.
`seed_if_empty` is `CheckEmpty` and `InsertDemo`, `--force` the latter alone, and
`seed_demo_large --reset` is `DeleteAttacks`, `DeleteIncidents` (what the
statement sees), `LockIncident` (one row lock after the other, in any order, keeping those
it has while it waits), `DeleteReturns` and `InsertDemo`, whose commit applies the deletions: an attack that the first statement did not see loses its
incident (`ON DELETE SET NULL`).  `FlushIncident` of a deleted incident updates no row
(`StaleDataError`) and the session is not stored.  `met` records which transactions
overlapped.  Left out: the DELETE of commands, which only takes time; closed incidents,
which no ingest looks at; two resets at once; SQLite, where writers exclude each other.

### Reads

One client does one task at a time: `overview()`, `risk_distribution()`, a walk through
the pages of a list, a detail, the incident report.  `todo` holds the statements left, in
the order of the code, and each is answered from the tables of its moment.  `Pages` is
`ORDER BY key OFFSET .. LIMIT ..` as SQL has it: rows with the same key in any order.
A walk follows `has_next`, computed from the count of the same request.  The report
lists ids in one transaction and looks each up in another, in any order here.
`during` is an observer of what was committed since the task began.

## 3. Runs

| Run | Instance | Question |
|---|---|---|
| `assessment` | default weights, all bounded evidence | do detector, engine, catalogue and dashboard agree, and does more evidence never lower a score? |
| `ingest` | 2 sessions, 2 addresses, seeds in any status, 3 clock values | what holds however threads interleave, fail, stop and crash? |
| `ingest_serial` | 3 sessions of one address, no overlap | does the pipeline implement the ledger? |
| `session` | 1 password within the limit and 1 beyond, 1 exec, 3 lines in chunks of 2, limit 1, 2 sinks, a window that opens and shuts | what do record and sinks promise, and where may a session wait? |
| `dashboard` | 2 attacks, panels `stats` and `charts`, 4 messages and 3 requests in flight | what does the screen owe to the database? |
| `startup` | 2 sessions, 2 crashes, 1 outage, 1 write failed or cut short, the script | does the stack come up, once and complete, and what does the JSONL file keep? |
| `reseed` | 2 ingests of one address, 2 script runs of any mode | what may seeding and resetting do to attacks, and does everybody get through? |
| `reads` | 4 attacks of 2 sources, one stored late, two with one time, pages of 1 and 2 | do answers fit together that are read while the tables change? |
| `ingest_single`, `session_exec`, `session_hang`, `dashboard_missed` | smallest instance that shows it | disagreements with the documents (section 5) |

Why the bounds are enough.  The races of `Ingest` are between two transactions on one
row; two sessions show them, and three show that the serial ledger keeps its
aggregates over a sequence.  Clock values 0..2 with a window of 1 put an attack
before, in and at the edges of the window.  Two addresses, one of them
private, let a transaction touch a wrong row and an address have no country.  In
`Session` every limit can be reached and exceeded; its two sinks are those of
`_build_sink()` without `log_to_stdout`, enough for one to fail before and after another.  In `Dashboard` two
attacks let handlers and refreshes overlap; the feed limit of 3 is passed by two
loaded and two announced rows; panels do not interact, `alerts`
and `incidents` differ from `charts` only by having no timer.  `Startup` allows a crash during the
recovery from a crash; after one torn line a second session may be appended to it.  In `Reseed` a script
meets another script and an ingest at once, and a second ingest may hold the row that the
reset and the first want.  In `Reads` a walk has up to four pages, a
report two incidents, and scores lie at the bounds of the levels (30, 70, 71) and above 90.  Every bound is a constant in the guards of the module
(`MaxClock`, `MaxExecs`, `MaxLines`, `MaxWire`, `MaxRequests`, `MaxFailed`, `MaxCrashes`,
`MaxFaults`, `MaxOutages`) or the size of a set.

Deadlock is checked except in `assessment` and `session`, where all evidence is in or the session has
ended, and in `reseed`, where every transaction ends (`AllSettle`); `Ingest`, `Dashboard`, `Startup` and `Reads` have steps that always remain possible or say where they stop in
their configuration.

### Fairness

* `Reseed!FairSpec`: weak fairness of the statements of each ingest and each script.
  Threads are scheduled by the operating system and statements return; one that waits for
  a row lock is not enabled.  Failures are never needed, nor that a script or a
  session begins.
* `Session!FairSpec`: weak fairness of the handler thread, whose waits have
  timeouts except `recv` and the sends; nothing is assumed of the client, which may take
  nothing for ever.
* `Dashboard!FairSpec`: handler threads, answers, the browser's event loop,
  timers and reconnection.  Nothing is assumed of drops, failures or the analyst.  Only
  the violation run `dashboard_missed` needs it.
* `Startup!FairSpec`: the database comes back, containers are restarted
  (`restart: unless-stopped`) and run.  The script may run for ever or never.

## 4. Proofs

Every theorem holds for every value of the constants that the named assumptions
of the modules allow: any finite sets of sessions, addresses, attacks or scripts, any
evidence and weights, any limits and any bounds on crashes and faults.  The assumptions
say what the configuration can be (`Weight` is a table of integers, pages have at least
one row, the feed holds what the first load brings) and that `None` is none of the values it
stands beside.  A theorem that needs more says so in its own `ASSUME`:

* `~Overlap` (`IngestSerial`): ingests of one address do not overlap.  With overlap these
  claims are false: `ingest_single` shows it for the single incident.
* `DefaultBands`, a weight other than 0 for repetition (`AssessmentProofs!TwoPlacesAgree`): the
  dashboard repeats the default bands as literals, and a reason of weight 0 is left out.
* `NonNegativeWeights` (`AssessmentProofs!ScoreGrows`).

| Theorem | Property | Inductive invariant, and why the property is not inductive by itself |
|---|---|---|
| `AssessmentProofs!TypeCorrect` | `TypeOK` | `InputInv`; the score is an integer for any set of reasons, and clipped |
| `AssessmentProofs!TwoPlacesAgree` | `RulesAgree` | `InputInv`; lemmas on the two conditions, on the rule table and on the bands |
| `AssessmentProofs!ScoreGrows` | `EvidenceNeverLowersScore` | a step only adds evidence, more evidence only adds reasons, more reasons never take points |
| `IngestProofs!TypeCorrect` | `TypeOK` | `TypeInv`: the attacks are finite (the history count is a cardinality), and an incident that was found is still there |
| `IngestProofs!GroupedBySource` | `AttacksGroupedBySource` | `SourceInv`: a thread writes an id that it read earlier, so what it holds is of its own source, and no row bears the name of an uncommitted session |
| `IngestProofs!ClaimsAreBacked` | `IncidentsBacked` | `BackedInv`: techniques that were loaded before others committed are still backed; `AttemptsInv`: so are the attempts that were loaded, by attacks other than the one being stored |
| `IngestProofs!IdentityStable` | `IncidentIdentityStable` | `IdentityInv`: an address resolves to one country or none, and a found incident was not and is not closed |
| `IngestProofs!NothingPhantom` | `PublishedIsStored` | `StoredInv`: what a thread will publish is the row it committed |
| `IngestProofs!HistoryCounted` | `PriorCountBounds` | `HistoryInv`: what was stored at connection time is stored still |
| `IngestProofs!DatesCorrect` | `DatesMissOnlyOverlapping` | `DatesInv`: nothing stored when a session connected is dated after it, and a thread whose incident was dated by another since it was loaded has an attack there that it does not know of; `BackedInv` gives the attack that `first_seen` came from |
| `IngestSerial!SerialSingle` | `SingleOpenIncident` | `SerialInv`: an object that was loaded is what the table holds when it is written back |
| `IngestSerial!ImplementsLedger` | `RefinesLedger` | `IInv` and `SerialInv`: a commit is a `Record`, a callback an `Announce`, all else stutters |
| `IngestSerial!SerialExact` | `AggregatesExact` | none of its own: a `Record` of the ledger adds an attack to the linked ones and its attempts to the total, and every commit is one |
| `SessionProofs!SinksGrow` | `SinksSeeGrowingRecords` | inductive with the types: a step of the transport thread extends what the last sink saw |
| `SessionProofs!AllSinks`, `FinalRecord` | `EverySinkWritten`, `RecordFrozenAtEnd` | `EndInv`: teardown comes after the last sink, and the transport is closed at the end |
| `SessionProofs!LimitKept` | `ShellCommandsBounded` | `LimitInv`: while lines of a chunk are left, recorded and left together stay below the limit and a chunk |
| `SessionProofs!TypeCorrect` | `TypeOK` | a client that is up has failures left |
| `DashboardProofs!RowsSound` | `FeedSound` | `StoredInv`; `RowsInv`: until the one message of an attack has arrived, the feed has at most the row of the first load |
| `DashboardProofs!NothingOverwritten` | `AnnouncedIsShown` | `LiveInv`: the first load and live messages never meet |
| `DashboardProofs!StatsCount` | `StatsCoverAttack` | `StoredInv`: a handler has counted when it is about to send |
| `DashboardProofs!CalmIsCurrent` | `PanelsCurrent` | `CurrentInv`: an announced attack is on its way, or its timer runs, or the newest request of the panel will know it, or the panel shows it or is in `stale`; `LateInv`: at most the requests that have no answer yet were overtaken, so the answer that is not overtaken is the newest |
| `StartupProofs!SeededOnce` | `DemoAllOrNothing` | `DemoInv`: only the backend seeds, and only what it saw empty |
| `StartupProofs!OneHostKey` | `HostKeyStable` | `KeyInv`: clients see the key of the file, and a second key is generated only if the first never reached its file |
| `StartupProofs!LoggedBeforeStored` | `CapturesLogged` | `FileInv`: each write that failed or was cut short accounts for its own session and, while the line is torn, for the next |
| `ReseedProofs!HarmOnlyOverlapping` | `ResetHarmsOnlyOverlapping` | `MetInv`: transactions open at the same time have met; `HeldInv`: while a session holds an incident it updated, no reset gets the lock; `ModeInv`: a reset deletes only what it has locked; `HarmInv`: who is about to fail has met the reset |
| `ReseedProofs!SeedsEmpty`, `WipesOlder` | `SeedsOnlyIntoEmpty`, `ResetWipes` | `ModeInv`, `WipeInv`: what a reset will leave was stored by transactions that it met |
| `ReadsProofs!NumbersOfOneAnswer` | `NumbersAgree` | `OrderInv`: the statements come in the order of the code; `AgreeInv`: what was read earlier bounds the tables from below |
| `ReadsProofs!WalkComplete` | `WalkMissesFew` | `MissInv`: of every set of rows that may come before the next page no more were missed than incidents were moved; the last count lacks only the rows added since |
| `ReadsProofs!DetailsComplete` | `DetailsAgree` | `AgreeInv`: the incident that was read is still there and its attacks are still linked |

`DashboardProofs`, `StartupProofs`, `ReseedProofs` and `ReadsProofs` have a theorem `TypeCorrect`
for their `TypeOK` as well, and each module a theorem `Inductive` for the conjunction of these
invariants.  An invariant was checked by TLC on the instance of its run before it was proved.

Each proof follows the same path: lemmas on the operators (`RemoveAtProperties`, `MaxMonotonic`,
`MoreReasons`, ...), what a step can do to one part of the state (`QuietSteady`, `TransactionFrame`,
`AnswersFrame`), one lemma per action or part of the invariant, and a last step that combines them.

What the proofs showed about the models.  `Startup!AfterUser` had a `CASE` with two guards that
overlap and no order between them: it is now an `IF` in the order of the script.
`Reseed!Locked` took "no incident" for a row, so that one new incident waited for another
to commit.  `Dashboard!Recent` sorted with a recursive definition, which no prover
can follow: it now says what the answer is, the latest rows, newest first.
`Reads` relied on `None` being neither a set of attacks nor a number, which is now an
assumption, and had the first rows of an order inside `Pages`: they are a definition of
their own, as the walk is about them.  The part of `IncidentsBacked` about attempts is
named `AttemptsBacked`: with two writers it needs to know what both have loaded.

Sums and orders over sets need induction on the set, and the provers cannot instantiate an
induction theorem.  They do know that the subsets of a finite set are well founded under
inclusion, so the proofs argue by the smallest counterexample: `SmallestSet` yields
it, and removing one element gives a smaller set for which the claim holds.  That is
how `TotalInsert` (what `MapThenSumSet` does with one element more) and `FirstRow` (a first row
among finitely many) are obtained.  The walk rests on four lemmas about `Heads`, the sets
that may be the first `n` of finitely many rows with integer keys: one row more shifts the first `n` by
at most that row (`HeadsInsert`), a changed key by at most one row (`HeadsMove`), a page after
the first `n` makes the first `n + m` (`HeadsPage`), and without ties there is one such set
(`HeadsUnique`).

Only model-checked is liveness (`EndsOrWaitsForClient`, `DisconnectEndsSession`, `BackendServes`, `HoneypotListens`, `AllSettle`):
the prover has no rule for `ENABLED`, which fairness is defined by.  Every invariant and
every action property that a passing run checks is proved, and so is the refinement.

## 5. What the runs show

Passing runs: whatever interleaves, an attack is linked to an incident of its
source, incidents never claim what no attack showed, counts are never
invented, identity is stable, only stored attacks are published.  The dates of an incident miss an attack
only if another session of that incident was open together with it: sessions one after the other never
move `last_seen` back.  Sinks see
growing records, and no thread of a session whose client has left stays behind; while the client is
there a handler waits only for input or for the client to take what it sends.  Every row of the
feed was stored when it was shown (a reset may delete it later, and the open page keeps it),
and no event that reaches a live page is lost on it.  When things calm down, alerts and
charts know every announced attack unless the newest request failed or was replaced by an older answer.
The stack comes up from any crash with the admin's username registered once (its row may be the analyst
that `create_user.py` made of it) and whole demo data.  What was handed to the
database is in the JSONL file, also when the database missed it, but for at most two sessions per write
that failed or was cut short.  A reset harms only the ingests that overlap it and leaves nothing
older, seeding adds demo data only to what was stored while it ran, and nobody waits for
ever.  A walk through a list misses at most one row per incident updated meanwhile and per
row added between a count and its page; the numbers of an answer keep the orders that
`NumbersAgree` lists, and details show an attack for all that their totals count.

Disagreements with the documents, each a violation run:

* `ingest_single`: two overlapping first sessions of one address open two
  incidents (`incidents.py:36`).
* `session_exec`: an exec request that arrives after `session_handler.py:87` looked
  is recorded and never answered.
* `session_hang`: a silent client keeps the handler in `recv` for ever
  (`session_handler.py:136`).
* `dashboard_missed`: the periodic refresh "in case a socket event is missed"
  refreshes the status lights only (`dashboard.js:178`).

Seen while modelling, without a run: of two overlapping sessions that join one incident the later write
drops the attempts that the earlier one added (`incidents.py:58`; `AggregatesExact` fails when
`Overlap` is `TRUE`); the session that ends last sets `last_seen`, also when it connected first
(`incidents.py:57`), and `DatesMissOnlyOverlapping` says how far that goes; the answer of an older request of a
panel may arrive last and stay on screen (`dashboard.js:62`, `88`), which `PanelsCurrent` excepts; counters that
were counted first may be sent last (`realtime.py:52`) and stay until the next event; `active_incidents` may exceed `total_incidents` in one answer
(`stats_service.py:31`); lists have no tie-break (`attack_repo.py:64`), and `WalkMissesFew` excepts
walks that met a tie; one incident deleted by a reset fails a whole report (`builder.py:73`), which
`DetailsAgree` exempts; the history counts sessions where its comment says attempts (`pipeline.py:166`);
exec requests are not limited by `max_commands`; public keys, and passwords beyond
the limit, are refused though `ssh_server.py:4` says every attempt is accepted; the record a sink stored
need not be the final one, as the transport is closed after the sinks were written; a truncated host
key stops every later start (`config.py:80`), which `HoneypotListens` exempts.

## 6. Plan

Done: rules, pipeline with ledger, session, dashboard, startup with accept loop and file
faults, demo data, reads, and the proofs of section 4.  Next would be a larger `Reseed` with two
addresses, and several pages in `Dashboard`.

## 7. Not modelled

Login, session cookie and the guard of `/api` (`app/auth`, `extensions.py`): each request
checks the cookie and reads the user row, so a model would restate two guards.
`deploy/render-start.sh`: it has no wait loop and seeds with `seed_demo_large` before it serves, and as
the script runs under `set -e`, a seeding that fails is fatal there, while `create_app` goes on
without demo data; `BackendServes` speaks of `entrypoint.sh`.  Validation of query parameters and the error envelope: stateless.  `int()` of a bad
`limit` gives a 500 where `docs/API.md` says 422 (`api/attacks.py:30`), one conversion of
one value.  Filters of lists, single-query charts and top lists.  The environment variables and signal
handlers of the honeypot; SIGTERM appears as `Ingest!Shutdown`.  The detail modal and the clicks of the
page; the Redis queue for several workers.

CSV and PDF output, rendering, migrations, proxy and backup (formatting or
configuration without behaviour of their own), `DatabaseSink` (unused), paramiko,
SQLAlchemy and Socket.IO themselves (external; modelled as this code uses them).
