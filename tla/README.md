# FoundersHQ in TLA+

FoundersHQ is a finance workspace for small companies: a Next.js frontend, a FastAPI backend over
PostgreSQL, Celery workers, and Redis for the task queue and for live events. This directory models
its stateful core, checks the models with TLC on small instances, and proves the most important
results with TLAPS for instances of any size.

Paths below are relative to the repository root; `app/` stands for `backend/app/`.

## 1. The system

| Part | State it keeps | Operations | What makes it correct |
|---|---|---|---|
| Membership and invitations (`app/api/routers/org.py`, `auth.py`, `services/auth/tokens.py`) | `memberships`, `invitations`, `users` | register, invite, revoke, accept, change a role, remove | an owner remains; invitations are single-use; a change is authorised at the moment it commits |
| Password reset (`auth.py`, `tokens.py`) | `password_reset_tokens` | forgot, reset | a committed reset ends every token it could see |
| Event outbox and SSE (`app/services/events`, `routers/events.py`) | `events_outbox`, Redis channel | publish, stream, replay | a client sees each committed event; one is repeated only for a known reason |
| Realtime client (`frontend/lib/realtime`) | `EventSource`, timer, cursor | connect, replay, reconnect, disconnect | one stream; what it brings is new; it comes back after failures |
| CSV imports (`app/tasks/jobs.py`) | `transactions`, `invoices`, `customers` | import a file | what is reported is what is stored; importing again adds nothing |
| Notifications (`services/notifications`, `routers/notifications.py`) | `notifications` | generate, read, read-all, archive, snooze | every alert is announced and none is taken back; none is announced twice unless runs overlap |
| Insights (`services/insights`, `routers/insights.py`) | `insights` | run, dismiss | runs are idempotent; findings are cited; nothing falls between two runs |
| Parsed invoices, sample data, commitments, data purge (`routers/invoices.py`, `integrations.py`, `org.py`, `scripts/seed_dev_data.py`, `jobs.py`) | `invoices`, `invoice_parsing_jobs`, `commitments`, ... | confirm, seed, recompute, purge | a purge empties the tables it names and leaves no orphan |
| Onboarding (`services/onboarding`, `routers/onboarding.py`, `frontend/app/(onboarding)`, `components/onboarding`) | columns of `orgs`; the tab's cached state and URL | post a step, complete, seed; gate and redirects | an onboarded organisation is complete; the wizard can be finished |
| Browser data layer (`frontend/lib/api/client.ts`, `lib/api/queries`, `lib/realtime/domain-hooks.ts`, `components/providers.tsx`) | the SWR cache: data, error, request and dedupe marker of each key | fetch, retry, invalidate on events and edits, paint and restore | a panel shows what the server holds, or there is a known reason why not; an old answer never replaces a newer one |
| Application pages (`frontend/app/(shell)`, `components`) | what is mounted, open sheets and tabs, an edit under way | visit, open, turn, edit, report | a page says "nothing here" only when it has been told so; it reports what the server did |
| Runway, spending, invoice lists, funding, uploads, audit query | derived rows, audit rows and pure functions | compute, list, enqueue | what each request reads, changes and announces is modelled; the arithmetic is planned |
| FX, health score, dashboard and search services, sessions, LLM text, account pages | nothing that concurrent actors share | | not modelled |

How they interact. Every HTTP request owns one database session, which `get_async_session` commits
when the handler is over and rolls back on an exception; the engine sets no isolation level, so
transactions are READ COMMITTED. An import task ends by enqueueing the notification task; a daily
job, which has no schedule yet, starts it for every organisation, and the nightly beat does so for
insights; both may overlap a run that somebody asked for. Requests and tasks write event rows and
publish them to Redis *before* they commit; browser tabs take events from the stream and from the
replay endpoint, which reads what has been committed. A second family of events goes to an in-process
queue, after the commit or, where the handler leaves the commit to its session, before it. Realtime
hooks on the pages turn events into invalidations of cached queries; edits invalidate the queries
their page thinks they changed.

What is hard in it: transactions that interleave at every statement without serializability; rows
found by one statement and used by the next; events that overtake their commit; `await` points in
the browser after which nobody looks at the state again; refetches that overtake each other, are
deduplicated, disowned or read before the commit; optimistic edits that are put back; sessions that
stay broken after a failed flush; workers that die between two commits; tasks that overlap
themselves. `PROJECT.json` lists these hazards at their lines, with the properties that cover them.

## 2. Modules

| Module | Models | Composes |
|---|---|---|
| `OrgRoles` | abstract specification: membership administration with atomic requests | |
| `Membership` | the same, request by request, statement by statement, with locks | `INSTANCE OrgRoles` (refinement) |
| `MembershipProofs` | theorems about `Membership` | |
| `PasswordReset` | reset tokens of one account under concurrent requests | |
| `EventStream`, `EventStreamProofs` | publishers, outbox, Redis, SSE endpoint and one browser tab together | server and client in one module, because the properties relate the two |
| `CsvImport` | both import tasks and their sessions | |
| `ImportAndResetProofs` | theorems about `CsvImport` and about `PasswordReset` | extends both, which share nothing |
| `Notifications`, `NotificationsProofs` | the generator task and the inbox requests | |
| `InsightRules` | pure: the five generators and their loaders | |
| `Insights`, `InsightsProofs` | the run, its dedupe, dismissals, the changing data | extends `InsightRules` |
| `OrgData`, `OrgDataProofs` | purge, confirmation, invoice import, sample data, recomputation on shared tables | |
| `Onboarding`, `OnboardingProofs` | endpoints, uncommitted answers, the browser's wizard and gate | server and client in one module |
| `Api` | the query hooks with their keys and the tables they read; the server's changes with the tables they write and their events; the realtime hooks; the mutations | |
| `Pages` | the panels, gates, hooks and edits of each page of the shell | extends `Api` |
| `PanelCopy` | abstract specification: the copy of server data a panel shows | |
| `BrowserTab` | one tab: a cache entry under fetches, navigation, changes, events and edits | extends `Pages`, `INSTANCE PanelCopy` (refinement) |
| `BrowserTabProofs` | theorems about `BrowserTab` | |
| `MC*` | constants and symmetry sets for TLC | |

`PROJECT.json` ("map") gives the lines that each definition translates. An operator whose comment
says "Mutant" is a deliberately wrong version of another that no specification uses: it shows that
the property named with it in `PROJECT.json` notices such a mistake.

### How the models read

*Transactions.* A request has a program counter; each action is one SQL statement and the Python up
to the next one. A statement reads committed tables (plus the request's own flushed rows), its
writes are held in the request's record and reach the tables in the commit action. Row locks,
unique-index waits and foreign-key share locks are guards of the statement that would wait.
`Rollback` (enabled at every step) stands for every `HTTPException`, `IntegrityError`, deadlock,
lost connection and dying process: the session dependency treats them alike.

*What PostgreSQL gives* is the one thing not in the repository: READ COMMITTED visibility,
re-evaluation of an UPDATE's condition after a wait, `FOR UPDATE` against `FOR KEY SHARE`, unique
indexes, deadlock detection. It is modelled from how the code relies on it, and marked external.

**Membership.** `Gate` is `requires_role`, evaluated on the role read when the request arrived;
`LockOrg` is `SELECT ... FOR UPDATE` on the organisation, after which `RecheckActor` reads the actor
again and `Approve` makes the handler's checks. `Consume` is the conditional UPDATE of the token.
`Mailbox` maps accounts to lower-cased addresses, since invitations compare case-insensitively and
`users.email` does not. Row ids of memberships are identified with their users. `get_current_org` is
over-approximated: a request may begin for any actor its gate lets through.

**PasswordReset.** `SweepRow` is the UPDATE that invalidates the account's other tokens, row by row:
`visible` is what it saw when it started, `todo` what it has still to visit. Two resets can block
each other here; `Deadlocked` is the cycle PostgreSQL breaks.

**EventStream.** A publication is three steps: `Persist` numbers and flushes, `Fanout` sends, and
`Commit` or `Abort` ends the transaction. The browser side keeps `es`, `timer`, `lastSeq` and each
`connect()` that awaits its replay (`call`). Numbers are the pair (milliseconds, process counter)
that their string form sorts by; the wall clock does not go back. Each process (`ProcOf`) counts for
itself, so numbers of two processes may come in any order or be equal: a page of the replay (`Pages`)
is any set of rows that `ORDER BY seq LIMIT` allows. `sent` is history: the order of the sends.

**CsvImport.** One action is one turn of the loop over rows: lookup, `session.add`, flush at chunk
boundaries, the counters, and the branch that leaves the turn early. A refused flush leaves the
session broken until the job ends: nobody calls `rollback()`. A stored row is a record of its own
(the job and line that made it stand for its id), so two rows of one key are two elements of
`ledger`; a session is in three sets, `added` (not flushed, and seen by no lookup), `sent` and `made`.

**Notifications.** One action asks one generator and deduplicates its alert against committed unread
rows; `facts` is what the figures call for. **Insights.** One action per loader query, so the data
may change between any two; `InsightRules` computes the findings from rows, with the length of week,
month and lookback as constants. **OrgData.** One action per statement; a DELETE has a step for each
row it visits.

**Onboarding.** The answer leaves before the commit: with the FastAPI version `requirements.txt`
pins (0.141.1), a dependency with `yield` ends after the response was sent. So a request is read →
flush (takes the row's lock) → answer → commit, and the tab may fetch the state in between. The tab
is the page it shows, its URL override `?step=n`, the SWR cache, the handler's remaining awaits, and
the fetch under way. The query hooks neither revalidate on focus nor twice within five seconds.

**Api, Pages, BrowserTab.** `Api` and `Pages` are tables, read off the hooks, routers and pages;
`BrowserTab` is the machine that runs on them. Entries of different keys never read one another, so
the cache is a product of entries and `query` is any one of them, each in turn. What the server
holds is not a value but a comparison: `data` is "new" while it equals the committed tables, "old"
once a change has overtaken it, "own" while it is the user's guess; an answer on its way ages in the
same manner. `Read` is the endpoint's SELECT, `Deliver` the answer's arrival, `Renew` SWR's
`mutate(filter)`: the request in flight is disowned and, if a panel is mounted, another is sent. A
panel that mounts while `recent` is set sends nothing (`dedupingInterval`). A change commits in one
step, or is announced or answered first and committed later (`Announce`, `AnswerFirst`,
`CommitDue`, `RollBack`). `excuse` is a history variable: the last of the known gaps that left the
copy old. A panel's *gate* is the order in which the component looks at error, loading and data;
`Screen` evaluates it. SWR itself is external: disowning, deduplication, retry and the marker are
modelled from how the code configures and calls it.

## 3. What TLC checks

All runs are listed with their properties in `PROJECT.json`. "Holds" means the complete state graph
of the instance was explored.

| Run | Instance | Shows |
|---|---|---|
| `membership_admin` | 3 users, 2 requests, every membership table with an owner, no invitations | `OwnerRemains`; `AtomicAdministration` (refinement of `OrgRoles`); `ActsWithAuthority` |
| `membership_invite` | 2 users, 2 invitations possibly for one address, 2 requests of any kind but role changes | `IInv`, the invariant of the proofs; `InvitationUsedOnce`; `JoinsByInvitation`; `RequestsFinish` |
| `password_resets` | 3 tokens, 3 requests | `ResetInv`, the invariant of the proofs; `OlderTokensDie`; `ResetsFinish` |
| `events_tab` | an API request and a worker's import, each in a process of its own, 1 event each, 3 `EventSource`s, 2 mounts, 2 failures, faulty Redis and replay, pages of one row | `OneStream`, `StreamBringsNews`, `RepeatsExplained`, `Reattaches` |
| `events_skip` | 2 events each, one failure, nothing else goes wrong | *violation* of `NothingSkipped` |
| `csv_imports` | 2 jobs, every pair of files of one to three lines (good, repeated, unreadable, refused), refused event rows, crashes | `ReportedIsStored`, `NothingDropped`, `ReimportAddsNothing` |
| `notifications_inbox` | 3 runs, 3 alerts in two severities, reads in between | `DuplicatesOverlap`, `AlertsStand`, `SeverityStands` |
| `insights_runs` | 2 runs over 3 days, 2 vendors, 2 invoices, 1 commitment, 2 changes, 1 dismissal | `DuplicatesOverlap`, `RerunAddsNothing`, `DailyRunsMissNothing` |
| `orgdata_purge` | 3 transactions of any kind, 1 parsing job | `InvoicesKeepJobs`, `PurgeEmptiesItsTables` |
| `onboarding_wizard` | the owner's tab, another member, one fault, one sample | `CompletedHasPersona`, `StepsKeepToTheirColumns`, `WizardFinishes` |
| `browser_tab` | every query (35 keys) with every page, change and edit of the tables; 2 changes or edits, 1 failed request or lost event, 2 moves; with and without a carrier of late events | `StaleIsExplained`, `EmptyIsKnown`; `KeepsCopy` (refinement of `PanelCopy`); `NewsArrives`, `PanelsFill` |
| `browser_reports` | the same without faults | *violation* of `FailuresAreReal` |

### Why the bounds are enough

- *Two or three transactions.* Every race the hazards name is between two of them; the third user
  lets a demoted owner, the demoter and a bystander differ, the third reset lets a token be
  requested while two others collide, and the third run of notifications lets one run follow two
  that overlapped.
- *Three lines* are the fewest in which a row is known, repeated in the file, and refused after it
  was counted; `MaxChunks = 2` (20 in the code) makes such a file flush in the middle.
- *Two failures and two mounts* let a reconnect timer, an in-flight `connect()` and a new mount be
  there together.
- *A week of two days, a month of four, a lookback of six and twelve days* keep every boundary the
  rules have (week, month, window) within three days of calendar. A spike needs one month of
  baseline instead of three.
- *One uncommitted answer per caller, one fault and one seeding* in onboarding bound what the wizard
  can be surprised by at a time; the other member's requests are not bounded.
- *Two changes or edits, one fault, two moves* in the browser: a change can overtake the answer to
  the refetch of another, an edit can be painted over a refetch and put back over its result, and a
  panel can be left and visited again while its request is out. At most one transaction is left
  open and one edit under way at a time.
- *Changes and pages that a query cannot tell apart are one* (`Effect`, `Mattering`, `Role`,
  `Nearby`): two changes with the same effect on the query's tables and the same heard events, two
  pages with the same panels, ears and edits for it. `BrowserTab` evaluates these tables; nothing is
  picked by hand. An event that no page hears is not queued.
- `MaxWrites`, `MaxMoves`, `MaxEvents`, `MaxClock`, `MaxMounts`, `MaxBreaks`, `MaxChanges`,
  `MaxDismissed`, `MaxSamples`, `MaxFaults` and `LastDay` are guards; each module's CONSTANTS name
  them.

Symmetry is used only in runs without liveness. `CHECK_DEADLOCK FALSE` stands in the runs whose
requests, jobs or runs are each used once, so that the system comes to rest.

### Fairness

- `Membership`, `PasswordReset`: the server executes what it has started, rolls a refused request
  back, and PostgreSQL breaks deadlocks. The liveness properties speak of requests in flight once
  clients stop sending, because PostgreSQL's lock queue is not modelled and a stream of newcomers
  could overtake a waiting request.
- `EventStream`: timers fire, replays end, and a connection attempt that does not break is accepted.
  Nobody has to publish, break a connection, or leave.
- `Onboarding`: requests are read, flushed, answered and committed; a tab fetches again in the end
  (a reload); and the user presses the button that leads on whenever it keeps coming back (strong
  fairness: the button goes away while a request is under way). Faults, the other members and the
  other buttons owe nothing.
- `BrowserTab`: a request is answered (or fails) and SWR retries what failed while the panel is
  mounted; transactions end; an event in the mail is heard unless it is lost first; the server
  serves what it was sent and the promise settles. Nobody has to move about, change anything, or come back online.

### What the violations show

1. **Events are skipped** (`events_skip`). `connect()` awaits the replay and only then opens the
   stream (`frontend/lib/realtime/index.ts:52`). An event sent in between, or committed after the
   replay though sent before, is missed, and the next live event moves the cursor past it.
   `app/models/events_outbox.py:4` promises the replay of "any events they missed".
2. **Done, and reported as failed** (`browser_reports`). `apiFetch` parses the body of every
   successful answer as JSON (`frontend/lib/api/client.ts:49`), and the endpoints that remove a
   member or revoke an invitation answer 204 without one (`app/api/routers/org.py:265`, `:144`). So
   `removeMember` and `revokeInvitation`, declared to return when it is done (`team.ts:143`), always
   throw: the page reports a failure, or for a revocation nothing at all, and refreshes neither list.

### Other behaviour of the code, which no property forbids

The models have it, except where an item speaks of what they leave out.

- *CSV.* A refused event row breaks the session, and with it the whole import, although `jobs.py:72`
  says progress never aborts an import. Two imports that create the same customer name make every
  later line for it fail (`jobs.py:264`): the import still commits, without these rows, and reports
  each as an error. `NothingDropped` says that nothing is left out otherwise. A file whose last row
  is known never sends its final progress event.
- *Notifications.* Two overlapping runs may announce a key twice, and two unread rows of a key make
  every later run raise `MultipleResultsFound` until one of them is read. A raise writes over what
  the row has become since it was read; with a third severity for one key, overlapping runs could
  lower it. Preferences are stored and consulted by nothing. The weekly outflows are sorted by
  amount before the first is taken for the current week (`jobs.py:524`).
- *Insights.* A spike is sought in the vendor's latest month with spend, its evidence in the
  calendar month of today (`run_all.py:156`): before the first charge of a month the evidence is
  empty, and all such findings share one key. Two runs that overlap store a finding twice; a missed
  day is never made up; forecasts of one week cite the same rows, so a second change of runway in
  that week is dropped. No code marks an invoice paid or overdue. Two dismissals of one row write
  two audit rows.
- *Events.* They are sent before the commit, and also when it then fails. `_next_seq` promises that
  the order of its strings is chronological (`publisher.py:33`), but API processes and workers each
  have a counter, and a number is taken before its event is sent: of two events the one sent later
  may have the lower number. `index.ts:63` takes the number of whatever arrives, so the cursor goes back, and the next replay
  hands over again what the tab has handled. That the cursor goes forward and that no event is
  handled twice are therefore false of the program. `RepeatsExplained` says that this is the only
  way to a repetition in a replay, `StreamBringsNews` that a stream never repeats anything. With two
  mounts an old `connect()` may leave a stream nobody closes, so these two and `OneStream` speak of
  the first mount. The queue of the process without Redis is not ferried to other
  processes. As shipped, the client never calls `setToken` and an `EventSource` cannot send the
  header `/events` asks for, so the endpoint answers 401; `EventStream` and `BrowserTab` are of
  the client with that repaired.
- *Organisation data.* The purge (`org.py:49-83`) deletes from the tables it names. Notifications and
  their preferences, insights, `events_outbox` (with ids and amounts of invoices that are gone), the
  financial profile, memberships, invitations, the organisation's own row and the audit rows
  "org.data_purged" survive it, although the settings page says it will "permanently delete all your
  organization data" (`settings/page.tsx:124`). The page's button has no handler and sends no
  request. `PurgeEmptiesItsTables` claims no more than the code does; an outbox row stands for the
  survivors. A job confirmed twice makes two invoices; a confirmation makes customers by
  name unseen; samples seeded twice make the recomputation raise. A recomputation that began before
  a purge commits rows after it. A confident parsed job is "confirmed" without an invoice. Nothing
  enqueues `recompute_commitments`, whose detection wants three charges where the sample has two.
- *Onboarding.* The wizard's import choice pushes `/spending/transactions` before onboarding is
  completed (`_wizard.tsx:91`), and `OnboardingGate` sends the tab back at once. Two overlapping
  completions move the stamp. Steps that read before a completion still write after it. The
  dashboard's link to step 3 of a finished wizard seeds the sample and then gets a 409; picking
  again seeds twice. A commit that fails after its success was answered may leave the tab at step 4,
  refused each time, which is why `WizardFinishes` excepts it.
- *Password reset.* A token requested while a reset's UPDATE runs survives it. Two resets of one
  account may deadlock, and one answers 500.
- *Uploads.* The task is enqueued before the audit row that its status is looked up by is committed
  (`ingest.py:46`): a poll in between answers 404.
- *Browser, old copies.* Most events go to the in-process queue, so without a bridge to the stream
  the realtime hooks hear only `invoice.created` and `ingest.job_progress`; these are sent before
  the commit, so the refetch they trigger may read the old rows. The team, insight and onboarding
  handlers answer before they commit, with the same effect on the page that asked. The keys
  "transaction" and "customer-<id>" fall under no prefix that anybody invalidates. A failed save of
  the preferences puts back what was captured before it, over whatever a refetch has brought since.
- *Browser, missing routes.* `/runway/forecast`, `/runway/weekly` and `/funding/routes` are no routes
  of the API; `/funding/opportunities` answers an object where the table iterates an array. The
  rule form posts `categoryId` where `schemas.py:262` requires `category_id`, and gets a 422.
- *Browser, controls.* The switches of rules and commitments, the milestone form, the shortlist's
  heart and the imports page report success without a request, though `PATCH /runway/milestones`,
  for one, exists (`runway.py:242`). `handleRevoke` has no catch. The audit page's heading reads
  "0 events" on an error. ⌘K opens both palettes, and while the typing pause runs they read as if
  they had searched and found nothing (the pause itself is not modelled).

## 4. What is proved

TLAPS checks these for every value of the constants that satisfies the modules' `ASSUME`s; no proof
assumes a bound on users, requests, tokens, runs, connections, tabs, changes or steps. Each follows
one argument: an inductive invariant, lemmas that one action keeps it, and `PTL` for the step to
`[]`. TLC checked each of these invariants on a small instance before it was proved; the runs of
`Membership` and `PasswordReset` keep theirs as a property.

| Theorem | States |
|---|---|
| `MembershipProofs!Invariance`, `TypeCorrect`, `ClaimsHold` | `Spec => []IInv`, `[]TypeOK`, `[]Claims` |
| `MembershipProofs!LastOwnerStays` | `Spec => []OwnerRemains` |
| `MembershipProofs!Serializable` | `Spec => AtomicAdministration`: the locked handlers implement `OrgRoles` |
| `MembershipProofs!Authorized` | `Spec => ActsWithAuthority` |
| `MembershipProofs!InvitationsUsedOnce`, `JoiningNeedsInvitation` | `Spec => InvitationUsedOnce`, `Spec => JoinsByInvitation` |
| `ImportAndResetProofs!ResetInvariance`, `TokensDie` | `ResetSpec => []ResetInv`, `ResetSpec => []OlderTokensDie` |
| `EventStreamProofs!TypeCorrect`, `OneStreamHolds` | `Spec => []TypeOK`, `Spec => []OneStream` |
| `EventStreamProofs!DeliveryHolds` | `Spec => []Delivery` |
| `EventStreamProofs!StreamBringsNewsHolds`, `RepeatsAreExplained` | `Spec => StreamBringsNews`, `Spec => []RepeatsExplained` |
| `ImportAndResetProofs!Invariance`, `TypeCorrect` | `Spec => []IInv`, `Spec => []TypeOK` |
| `ImportAndResetProofs!ReportsAreTrue`, `Complete` | `Spec => []ReportedIsStored`, `Spec => []NothingDropped` |
| `ImportAndResetProofs!Idempotent` | `Spec => ReimportAddsNothing` |
| `ImportAndResetProofs!OnlyOverlapDuplicates` | `Spec => []DuplicatesOverlap` (imports) |
| `NotificationsProofs!Invariance`, `TypeCorrect` | `Spec => []IInv`, `Spec => []TypeOK` |
| `NotificationsProofs!OnlyOverlapDuplicates` | `Spec => []DuplicatesOverlap` |
| `NotificationsProofs!AlertsAnnounced`, `SeverityNeverLowered` | `Spec => AlertsStand`, `Spec => SeverityStands` |
| `InsightsProofs!Invariance`, `TypeCorrect` | `Spec => []IInv`, `Spec => []TypeOK` |
| `InsightsProofs!OnlyOverlapDuplicates` | `Spec => []DuplicatesOverlap` |
| `InsightsProofs!RerunsAddNothing`, `DailyRunsReport` | `Spec => RerunAddsNothing`, `Spec => DailyRunsMissNothing` |
| `OrgDataProofs!Invariance`, `TypeCorrect` | `Spec => []IInv`, `Spec => []TypeOK` |
| `OrgDataProofs!ConfirmedKeepJobs`, `PurgeIsComplete` | `Spec => []InvoicesKeepJobs`, `Spec => PurgeEmptiesItsTables` |
| `OnboardingProofs!AlwaysSound`, `CompletedHasPersonaHolds` | `Spec => []IInv`, `Spec => []CompletedHasPersona` |
| `OnboardingProofs!StepsKeepToTheirColumnsHolds`, `TypeCorrect` | `Spec => StepsKeepToTheirColumns`, `Spec => []TypeOK` |
| `BrowserTabProofs!TypeCorrect` | `Spec => []TypeOK` |
| `BrowserTabProofs!StalenessExplained`, `EmptinessKnown` | `Spec => []StaleIsExplained`, `Spec => []EmptyIsKnown` |
| `BrowserTabProofs!KeepsItsCopy` | `Spec => KeepsCopy`: the cache entry implements `PanelCopy` |

*Membership.* `OwnerRemains` is not inductive: a request that has counted two owners would remove
one whatever happened since. `IInv` adds `Locking` (the organisation row is held exactly by the
request between lock and commit, and then no acceptance has an uncommitted membership), `StillTrue`
(what that request read under the lock is still so, up to `MayChange` itself) and `WellFormed` (the
shape its endpoint gave it). `ChecksSuffice` turns the handler's checks into the abstract guard;
with it the commit is a step of `OrgRoles`, which gives the refinement and the authority at once.
`Tables` may be any set of tables with an owner, `Mailbox` any function, so case variants of an
address are covered. For invitations `Claims` follows the token: from the conditional UPDATE to its
end an acceptance holds the row's lock, the row is open and addressed to its account (`Accepting`),
and one being created is in nobody else's hands (`Fresh`).

*Password reset.* `ResetInv` says why a token dies: a committed reset has consumed what it saw
(`Logged`), while it works each row it has visited is consumed or its own (`Sweeps`), and whoever
holds a token holds an unconsumed one (`Locking`, `Claims`).

*Event stream.* `OneStream` needs only the tab: `Solo` says that of a mount's stream, awaited replay
and timer the others exclude each, and that nothing is open but `this.es`. What streams and replays
bring needs the server as well: any number of processes, threaded or not. `Delivery` follows an event
from its number to the handlers by the order of sending (`sent`), which all subscribers share and
numbers do not: an event is sent once at most (`Numbering`); nothing is committed, carried or handled
before it is sent (`AfterSent`); and in the first mount a stream holds, in that order, what was sent
after all that was handled, a replay brings what is numbered above the cursor, and a handled event
is above the cursor only if one numbered below it was sent after it (`News`).

*CSV imports.* `NothingDropped` is not inductive: it says nothing of an import under way. `IInv` (in
`ImportAndResetProofs`) adds what a session is worth as long as it is not broken: it holds exactly the
rows it has counted (`Balanced`), and every line it has read is settled by what it sees
(`Settles`): a row of that key is there, and its customer with it, or an error was counted for a
reason that the next import meets again, an unreadable line or a name that two customers have; there
are at least as many errors as such lines. A
broken session holds nothing and never commits. Tables and sessions only grow, so what is settled
stays settled while other jobs commit (`SettledGrows`), and a committed job has left its whole file
settled by the tables alone (`CommittedImported`). Hence a job that finds its file imported adds
nothing line by line (`Repeats`), which is `ReimportAddsNothing` when it commits. `FilesOK` assumes
that files are nonempty sequences of rows: an empty one ends the task before it opens a transaction.
The proofs hold for any flush boundaries, since they use nothing of `ReportDue`.
`DuplicatesOverlap`, stated next to its proof and a property of no run, bounds what is left of the
race of lookup and commit: `Fresh` (what a session holds was in no table when it started, and it
makes a customer once) joins `IInv` in `DInv`, and a commit can then only repeat what an import that
overlaps it has stored.

*Notifications.* `Accounted` says that a session answers each alert it found once, by a row or a
change of severity, and that the generators still to be asked raise other keys; `Standing` that the
work of a session that is alone would, as the inbox is now, announce all of its alerts; `Crossed`
that a row it is about to repeat came from a run that overlaps it. The last two are what commits
turn into `AlertsStand` and `DuplicatesOverlap`. `SeverityStands` needs `Levels`: the generators give
a key one severity or two, so whatever is raised is raised to the top and no raise can undo another.

*Insights.* `IInv` ties a session to the version of the facts it began with: if nothing has changed
since, it holds all that its loads called for (`Loaded`), and if an earlier run saw the same version
throughout, every key it found is stored. A changed fact ends the premise for every session under
way. The proof uses the rules of `InsightRules` only as functions of the rows, the day and the
balance, except for late invoices, whose evidence is the invoice itself. `CalendarOK` assumes a
calendar that starts after day 0, which stands for "no version".

*Organisation data.* Foreign keys hold because of who waits for whom: `Apart` (two transactions hold
disjoint rows, and none refers to a row that another is deleting), `Inserts` and `Updates` (what a
transaction has written and refers to is there, and its own) and `Stage` (which statement it is at).
For the purge `Sweeps` says that a table it has been through holds nothing it found when it began,
nor an invoice of a job it holds, except what it holds itself; by
`Stage` what it holds is of the tables on its list. `IdsApart` assumes that ids,
which are UUIDs, are distinct; `Spent` says that a used one never returns.

*Onboarding.* `IInv` (in `OnboardingProofs`) says that what a request has computed, and what it has
flushed but not committed, sets only the column of its step, and sets the stamp only if the persona
is committed by now. No step removes a persona, so this stays true for as long as the writes wait.
For the types, `Typed` follows the requests of a tab's handler: which are still to be sent, which
one is awaited, and that the one awaited is among the server's.

*Browser tab.* An old copy at rest says nothing about the steps that made it so. `IInv` (in
`BrowserTabProofs`) adds `NothingNewer` (an overtaken answer travels only over data that are no
newer, which is what the refinement needs when it arrives), `GuessKept` (what an edit painted, and
what it would put back, is something), `Waiting` (a mounted panel without data or error has a
request out, and so has a request marker without data, which gives `EmptyIsKnown`), and `Explained`:
a copy that is behind without an excuse is about to be renewed, by an answer no change has
overtaken, an event, the end of the edit that painted it, or the next mount (`Renewing`). At rest
none of these is left, so there is an excuse. The proofs use no particular table of `Api` and
`Pages`, only the assumptions `ShellOK` (the top bar is on every page) and `EditsOK` (an edit asks
for a listed change, and one that paints its list also refreshes it), which TLC evaluates.

*Only model-checked:* the liveness properties (`RequestsFinish`, `ResetsFinish`, `Reattaches`,
`WizardFinishes`, `NewsArrives`, `PanelsFill`), since fairness and ENABLED are out of the prover's
reach; and what the rules of `InsightRules` compute, whose sums over rows a proof for every table
would do by induction over data. Every safety property of a passing run is a theorem.

## 5. What is not modelled

- The arithmetic of runway forecasts, spending metrics, invoice scores, health score, FX conversion
  and funding scores: planned as operators (section 6). `Api` has what their requests read, write
  and announce, not what they compute.
- The job status of an upload, the audit query's cursor: planned.
- Archive and snooze of notifications on the server: columns no generator and no property reads. The
  browser's side of them is `TriageRow`.
- JWT sessions: stateless on the server. LLM explanations and the chat: checks on the text of an
  external provider, and messages kept in one component. Account pages: forms that post once.
- In the browser: two keys at a time (they share nothing), the filters, sorting and layout of tables,
  the typing pause of the search palettes, mock mode, focus and keyboard. A page's own state that
  no query or edit reads is left out.
- In the modelled parts: audit rows (except the statement order they add), event payloads, wording,
  currencies, exchange rates of imported rows, keep-alive comments of the stream.

## 6. Plan

The order put first what several actors change at once: (1) `Membership` with its abstract
specification and proofs, (2) `PasswordReset`, (3) `EventStream`, (4) `CsvImport`, (5)
`Notifications`, (6) `Insights`, (7) `OrgData`, (8) `Onboarding`, (9) `Api`, `Pages` and
`BrowserTab` with its abstract specification and proofs. These are there. To come:

1. *Rules*: pure operators against reference definitions over bounded inputs, in one module per
   service and one run over all of them: crash week and weekly history of the forecast, scenario
   multipliers and their reset, spending metrics and creep, lateness, risk and the action queue,
   health score, rate lookup.
2. *Uploads*: enqueue against commit of the audit row that the job status is read from.
3. *Audit query*: keyset pages under concurrent inserts: nothing that was there at the first page is
   skipped or shown twice.

## 7. Running

    tlc -workers 2 -config MCMembership_admin.cfg MCMembership
    tlapm MembershipProofs.tla

The longest run (`insights_runs`) takes about three minutes on two workers, `browser_tab` two; all
proofs together take about five minutes.
