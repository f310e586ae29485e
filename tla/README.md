# SberAzsMonitoring: formal models

TLA+ models of the services in this repository, checked with TLC on small
instances, and theorems about them checked with TLAPS for every value of the
constants.

    tlc -config MCClickHouseWriter.cfg MCClickHouseWriter     # one run, see "Runs"
    tlapm ClickHouseWriterProofs.tla                          # the proofs of one module

Contents: 1 the system, 2 the modules, 3 the runs, 4 fairness, 5 the proofs,
6 what the code does other than it says, 7 what is not modelled, 8 plan.

## 1. The system

Every 15 minutes a regional `WebApi` asks the fuel API of its region which
stations have which fuel and publishes the answer to the region's Kafka topic.
Two workers read these topics: `ClickHouseWorker` writes the answers to
ClickHouse for the analytics pages, `NotificationWorker` posts them as pushes to
an ntfy topic. The Dashboard API manages the firms ("tenants") who may read the
pushes: their rows are in PostgreSQL, their accounts and access lists in
ntfy-server, and changes are announced on the topic `tenant-configuration-events`,
which `NotificationWorker` reads too.

| component | state | operations | talks to |
|---|---|---|---|
| regional WebApi | none of its own but calls in flight and the producer's queue | scheduled scan, `POST /notify` | fuel API (HTTP), Kafka (produce) |
| ClickHouseWorker | `batchBuffer`, position in the topics | poll, flush (insert, commit) | Kafka (consume, manual commit), ClickHouse |
| NotificationWorker | `_tenantsCache`, position in the topics | read a configuration, post a snapshot | Kafka (consume, automatic commit), ntfy |
| tenant configuration cache | `_tenants`, the offset of a group of its own | read an update, a deletion, an unusable event | Kafka (consume, automatic commit) |
| Dashboard API, tenants | PostgreSQL rows, ntfy accounts and access, events | create tenant, add channel, remove channel | PostgreSQL, ntfy admin API, Kafka (produce) |
| Dashboard API, users | PostgreSQL rows | authenticate, seed at start | PostgreSQL |
| Dashboard API, balance | a column of the tenant's row | set an absolute value | PostgreSQL |
| analytics page | the page's table and button | submit, newest row per station and fuel, draw | Dashboard API, ClickHouse |
| Mvc, API gateway | none | pages, proxying | Dashboard API |

No two components share memory: they interact through topics, through the table
`fuel_station_snapshots`, and through ntfy. So each model stands alone and takes
what the others send from a small set of records; what a component promises to
the next is an abstract specification (`ScanFeed`, `SnapshotArchive`, `SnapshotPushes`),
`FuelPipeline` composes the first two with the page at their end, and `FuelSystem` puts the
services as coded in the place of their promises.

What is hard in this code, and what makes each component correct:

- **ClickHouseWorker.** The insert and the commit are two remote calls, either
  can fail or be cut off, the buffer outlives a failed flush and may hold records
  of several partitions, and a rebalance moves the positions under it. Correct:
  no committed offset passes a row that is not stored; nothing read is forgotten;
  commits never move back; every well-formed event is stored at last.
- **WebApi.** Two callers share one asynchronous producer; a timeout ends the
  wait for a message and not the message; the producer delays, repeats, reorders.
  Correct: success means published; a record is not stamped before its data; the
  scheduler's stamps follow its data; the scheduler never stops.
- **NotificationWorker.** Offsets are committed whether or not the push succeeded,
  a post given up may still arrive, a topic without a commit is joined at its
  end, and a lost session takes the living process back to what it had committed.
  Correct: no snapshot is passed over untried; repeats have a start or a rejoin behind
  them, steps back in the order of pushes a rejoin, a restart or a given-up post; the
  cache is what was read; no failure stops the loop.
- **Tenant provisioning.** Three stores are changed one after another without a
  transaction, requests run concurrently, each call may fail and take effect all the
  same, at once or later, an event may be published twice or late, a request may vanish
  half-way. Correct: no two firms share an account; who
  has a channel can read its topic; access is left behind by failed requests only;
  an event is out of date only through another removal, whose own event is not missing.
- **Tenant configuration cache.** Events may arrive in any order of their stamps and
  again after a restart or a rejoin, deletions leave no trace, the cache is lost with the process
  and the offset is not. Correct: the cache is the newest of what was read; what is
  deleted for good leaves it, whatever lies in between.
- **From the scan to the page.** Records appear in any order and more than once,
  are archived late or again, and the page's query is coordinated with neither.
  Correct: a page never shows less or older data than the page before; what the
  worker has acknowledged is visible; what is called current is; table and chart tell
  the same story, and the bars of the chart are the shares they stand for.

`PROJECT.json` lists these hazards at their lines, each with the properties that
are about it.

## 2. The modules

| module | models | lines of the code |
|---|---|---|
| `SnapshotArchive` | abstract: what the archive promises to the producers | - |
| `ScanFeed` | abstract: what a regional WebApi promises to the readers of its topic | - |
| `SnapshotPushes` | abstract: what NotificationWorker promises to the subscribers of the ntfy topics | - |
| `ClickHouseWriter` | `ClickHouseConsumerService` | `src/ClickHouseWorker` |
| `RegionScan` | `FuelBackgroundScheduler`, `/notify`, `NotifyRegionScanCommandHandler`, `SberAzsParserService`, `KafkaProducerService` | `src/WebApi`, `src/Application`, `src/Infrastructure` |
| `NotificationWorker` | `NotificationConsumerService`, `ProcessFuelSnapshotUseCase` | `src/NotificationWorker` |
| `TenantProvisioning` | `CreateTenantUseCase`, `AddTenantChannelUseCase`, `RemoveTenantChannelUseCase`, `NtfyAuthService`, `KafkaTenantConfigurationPublisher` | `src/SberAzsMonitoring.Dashboard.*` |
| `TenantCache` | `TenantConfigurationConsumer`, `UpdateTenantConfigUseCase`, `InMemoryTenantCache`, `Tenant` | `src/NotificationWorker`, `src/Infrastructure`, `src/Domain` |
| `FuelPipeline` | `ScanFeed`, `SnapshotArchive`, `ClickHouseAnalyticsRepository`, `AnalyticsController`, `dashboard-analytics.js` | `src/SberAzsMonitoring.Dashboard.*` |
| `FuelSystem` | `RegionScan`, `ClickHouseWriter` and the page of `FuelPipeline`, composed | as theirs |
| `MC*` | the instances TLC checks | |
| `*Proofs` | the theorems of the module they are named after; `TenantAccessProofs` those of `TenantProvisioning` about access lists and events | |

**ClickHouseWriter.** A step of the loop is an action: `PollNothing`, `PollEvent`,
`PollNull`, `PollGarbage` for what `Consume` returns; `SaveOk`/`SaveFail` and
`CommitOk`/`CommitFail` for the two calls of `FlushBufferAsync`, `pc` saying
between which of them the loop is and `last` being the argument `lastResult`;
`Restart` (death or stop at any point) and `Rebalance` (inside `Consume`).
`UniqueEntities` is the `GroupBy` before the insert and `Trackable` the reason
for which `AddRangeAsync` throws. An event stands for its time stamp, so
`RowKey` is the primary key. `RowsOf` are the rows a record stands for.

`SnapshotArchive` says only that rows come from published messages, stay, and
that a message is acknowledged when all its rows are there.
`ClickHouseWriter!ArchiveSpec` is the refinement with `acked <- committed` and
`archived <- table`.

**RegionScan.** `pc[c]` is where the call of `HandleAsync` by caller `c` (the
scheduler or a request) is. `Fetch*` is the parser, which turns every failure into
an empty list; `Produce` reads the clock, builds the event and hands it to the
producer; `outbox` is the producer's queue, from which `Send` appends to the topic
any number of times and `Forget` drops; `PublishOk`, `PublishFail` and `Cancel` are
the three ways `ProduceAsync` ends. `now` is the clock and, at once, the state of
the stations, so that "older data" has a meaning. The scheduler's timer keeps one
tick at most. `ScanFeed` is what is left of it for a reader of the topic: `now` and
`topic`, a record being publishable when its stamp is no older than its data and it
agrees with all published records on the order of the scheduler's scans. Records may
still come in any order and repeatedly. `RegionScan!FeedSpec` is the refinement, with
the variables of the same names.

**NotificationWorker.** `position` is the last offset `Consume` handed out, `since`
where it was when the topic was assigned; Kafka's client commits what was handed
out since then (`Committable`), from time to time (`AutoCommit`) and in
`Close` (`Stop`), but not in a `Crash`. A stop during the delay of a `catch` counts as
a crash: the exception of `Task.Delay` leaves the loop past `Close`. `Assign`
resumes at the committed offset or at the end of the topic. `Rejoin` is a lost session or a
rebalance: the client's own thread gives up the topics, whatever the loop is doing, and since
no handler is set the process keeps its post and its cache; `joins` counts starts and
rejoins. A rebalance in good order commits first, which is `AutoCommit` before `Rejoin`.
`hand` is the push being
posted; `Accepted`, `Refused` and `TimedOut` are the ways the post ends; `wire` holds
posts nobody waits for, which may arrive late. `gaveUp`, `joined` and `heard` only record
history, for the properties. Snapshots are reduced to what the handler's control
distinguishes: one it posts, `null`, and such as it throws on. `SnapshotPushes` knows no
offsets and no commits: the worker asks for one push at a time and, each time it has joined,
for a region's snapshots in their order with none left out; a post is distributed once or
not at all, out of turn only if nobody waits for it. `NotificationWorker!PushesSpec` is the
refinement: `join` is `joins`, `waiting` is `hand`, `stray` is `wire`, and what has been
asked for since the last join (`Asked`) are the snapshots after `since` up to `position`.

**TenantProvisioning.** A member of `Requests` serves one HTTP call, in steps between
remote calls (`pc`). `rows` and `subs` are PostgreSQL, `users` and `acl`
ntfy-server, `log` Kafka. Every remote step has a failing variant, and `Abandon` drops a
request between two steps. A call to ntfy that failed, given up after the ten seconds of the
HTTP client for one, is carried out at any later time or never (`late`, `Land`). The
producer of Kafka retries without idempotence and keeps what it was given when the wait for
it is cancelled, so `Resend` appends an event while it is being published or afterwards,
once more or for the first time. A failed write to PostgreSQL has had its effect or never
has: the transaction's connection ends with it. `loaded`
is the channel collection in the request's `DbContext`: the event lists it, not
what the database holds by then. `Fold` is comparison without case: removal looks a
channel up with it, everything else compares exactly. `RevokeAuthorized` says
whether ntfy accepts the revoke, which the code sends without credentials: FALSE is
the deployed system; TRUE shows what would hold were it accepted. Tenants are never
deleted: no code calls `Delete`. A request that the first checks turn away ends
"refused", having changed nothing; one that stops later ends "failed", and such a one
only, or a removal by a name that differs in case, can leave access without a channel
(`Leftover`).

**TenantCache.** `log` is the topic, of whose events only what the consumer looks at is
left: the tenant and `UpdatedAt`, that it is a deletion, or that it is `Unusable`
(null, no JSON, no id or name). `cache[t]` is the offset of the event that is kept,
from which everything else of it follows. `ReadUpdate` is `UpdateOrAdd`, whose `>`
keeps the first of equal stamps; `ReadDeletion` is `Remove`. `Start` resumes at the
committed offset, which for a group that has none is the first event (`Earliest`);
`Rejoin` does so within a life of the process, whose cache stays; `reads` is the history of
what the life was handed, in order and with repetitions;
`AutoCommit` and `Close` (`Stop`) commit what was handed out, `Crash` does not.
`NotificationWorker/Program.cs` registers the cache but does not host the consumer, so
the module says what the code would do and not what a deployment does.

**FuelPipeline.** `Tick` and `Publish` are steps of `ScanFeed`, `Store` and `Acknowledge`
steps of `SnapshotArchive` over the region's topic; `RowsOf` are the rows
`FlushBufferAsync` makes of a record, one for each item (station and fuel) the fuel API
listed when the data was fetched (`Listed`). `Submit` is the submit handler, which disables
the button; `Answer` is the call of `GetLatestAvailability` down to the query and back:
the newest row of each item, then those of the selected fuel; `Render` draws, `Fail`
is every way to the `catch` of the script or of the controller. The query is one step
because ClickHouse reads a consistent set of parts and nothing else is read. `First`
after `OrderByDescending` picks any row among equal stamps, which also covers `FINAL`.
`asOf` and `seen` only record history. `Offer` is what the API says of an item: its
status, up to the words anybody looks for, and whether there is a limit. `StateOf` is what
the parser makes of it, which archive and queries carry unchanged; `RowClass` and
`ChartClass` are the two classifications of the script, and `Bars` the widths of the
chart's bars, where a half may be rounded either way since the quotient is a floating
point number. The page is that of one region and one browser;
regions share no row and browsers share no state.

**FuelSystem.** The steps of `RegionScan`, of `ClickHouseWriter` over the same topic, and of
the page over the worker's table, interleaved. Each variable is that of its module (`calls`
and `stage` are the two `pc`). An event is what the scan published; the items it carries, in
order, with repetitions and null keys, are what the API listed when its data was fetched
(`Catalogue`), and `Archived` is what the page's query makes of the table's keys. The topic
holds events only, so the worker's steps for other records are left out here.
`FuelSystem!PipelineSpec` is the refinement: `acked` is `committed`, `archived` is `Archived`.

## 3. The runs

Safety runs stop at the bounds (no fairness, nothing left to do), hence
`CHECK_DEADLOCK FALSE` everywhere.

| run | states | shows |
|---|---|---|
| `writer` | 199,000 | `CommittedIsStored`, `ReadIsStoredOrBuffered`, `CommitNeverRewinds`, `EveryEventStored` and the refinement `ArchiveSpec`: two topics of two records, an event that repeats an item, null and unparsable records, one restart or rebalance |
| `writer_poison` | violation | `WellFormedEventStored`, see 6 |
| `scan` | 995,000 | `SuccessIsPublished`, `StampNotBeforeData`, `SchedulerStampsFollowData`, `SchedulerNeverStops` and the refinement `FeedSpec`: two scheduled scans and a `/notify` call, a clock of three instants, three records, one death |
| `notifier` | 619,000 | `EverySnapshotTried`, `RepeatsNeedRejoin`, `StepsBackAreExplained`, `CacheFollowsReads`, `EverySnapshotSettled` and the refinement `PushesSpec`: a region and the configuration topic with two records each, two joins: a start and a restart, or a start and a rejoin |
| `notifier_cache` | violation | `CacheKnowsTenants`, see 6 |
| `provisioning_safety` | 476,000 | `OneTenantPerLogin`, `AccessLostOnlyByRemoval`, `AnsweredRemovalRevokes`, `StrayAccessIsExplained`, `StaleEventIsExplained`: three requests, one tenant there and two to be created with one login, topics that differ by case, faults everywhere, calls carried out late, events repeated while the topic is shorter than three |
| `provisioning_delete` | violation | `NoAccessWithoutChannel` with the revoke as it is, see 6 |
| `provisioning_event` | violation | `LastEventIsCurrent`, see 6 |
| `tenant_cache` | 2,790,000 | `CacheIsNewestRead`, `RemovalReachesCache`: four events of two tenants with two stamps, deletions and an unusable event, three joins, by restarts or within a life |
| `pipeline` | 480,000 | `PageNeverGoesBack`, `CommittedIsVisible`, `ChartAgreesWithTable`, `BarsMeasureShares`: two records of the scheduler or of `/notify`, a station with two fuels one of which is no longer listed at last, any number of pages |
| `system` | 1,835,000 | `PageNeverGoesBack`, `CommittedIsVisible` and the refinement `PipelineSpec`, of the services as coded: two scans, two instants, two records, failed inserts and commits, one death of the WebApi |
| `pipeline_current` | violation | `PageIsCurrent`, see 6 |

Why the bounds suffice to meet the cases of interest. *Writer:* two topics are
needed for a buffer that mixes partitions, two records for an offset that passes
another, one restart or rebalance between any two calls; a second restart only
repeats the situation, and the proofs lift both bounds. *Scan:* a data race needs two
callers; two scans suffice for an old event of the first to arrive after the second;
three instants separate the data, the stamp and the next data. *Notifier:* a step
back needs two records of one region; a replay one restart or one rejoin (`MaxJoins`; after
the last join the process stays); regions do not influence
each other but through the loop, for which the configuration topic stands as the
second. What a restart and a rejoin do one after the other is proved, not run.
*Provisioning:* every remote pair of steps of three requests interleaves; a
removal, an add of the same topic and a failure of either need no fourth. `MaxLog` stops
`Resend` only, never a request: one request's event may be there three times, or two events
and one repeated.
*Tenant cache:* four events suffice for update, deletion and an older update of one
tenant beside an event of another, and three joins for a replay by a rejoin, one by a restart
and one after the other; the proofs lift the bounds. *Pipeline:* going
back needs an older and a newer record, each archived at its own time, and two pages;
a second fuel shows that the filter comes after the choice of the newest. Up to twelve
stations of each kind meet thirds, sixths and eighths, where rounding is at its worst.
*System:* what the parts meet alone they need not meet again together; two records suffice
for a commit to pass one that is not stored and for a page to follow another. The product of
three components leaves room for a death of the WebApi but not for restarts of the worker as
well; those are in `writer`, and the proof has no such limits.

Each property has a mutant in its module: an operator `Mutant...` that differs from the
definition before which it stands by a plausible mistake (a missing `GroupBy`, a
commit that is not checked, a post that is not awaited) and with which TLC finds the
property violated.

## 4. Fairness

- *Writer:* the loop is a running thread (WF on its steps). Kafka hands out a
  record that waits, and ClickHouse accepts an insert that is asked for again and
  again (SF): without the latter nothing could be stored. Failing and restarting
  stay possible; restarts are bounded. Nothing is assumed of commits.
- *Scan:* nothing is assumed of the fuel API or Kafka. The HTTP client's timeout
  ends a fetch, the linked cancellation source (30 s) ends a wait for Kafka, the
  timer ticks, the thread pool runs what is ready.
- *Notifier:* `restart: always` (docker-compose.yml) restarts the process; the
  client learns of its topics (`TopicMetadataRefreshIntervalMs`); delays and posts
  end (`HttpClient` times out by default); a record that waits is handed out between
  the errors `Consume` reports (SF). Nothing is assumed of ntfy.
- *Tenant cache:* the process is started again and its loop is handed what waits (WF).
  Nothing is assumed of commits, so every join may read everything again; joins are bounded.

## 5. The proofs

All proofs are for arbitrary constants subject to the named assumptions of the module
(`MessageAssumption`, `BoundAssumption`, ...), which TLC evaluates on its instances.
They have one shape: an inductive invariant of named parts, a lemma per part and
within it a step per action, and a last step by temporal logic.

| theorem | statement |
|---|---|
| `ClickHouseWriterProofs!WriterTypeOK` | types |
| `ClickHouseWriterProofs!CommittedIsAlwaysStored` | `CommittedIsStored` |
| `ClickHouseWriterProofs!ReadIsNeverForgotten` | `ReadIsStoredOrBuffered` |
| `ClickHouseWriterProofs!CommitsNeverRewind` | `CommitNeverRewinds` |
| `ClickHouseWriterProofs!WriterImplementsArchive` | `ArchiveSpec`, the refinement |
| `RegionScanProofs!ScanTypeOK` | types |
| `RegionScanProofs!SuccessIsAlwaysPublished` | `SuccessIsPublished` |
| `RegionScanProofs!StampsFollowFetch` | `StampNotBeforeData` |
| `RegionScanProofs!SchedulerOrder` | `SchedulerStampsFollowData` |
| `RegionScanProofs!ScanImplementsFeed` | `FeedSpec`, the refinement |
| `NotificationWorkerProofs!NotifierTypeOK` | types |
| `NotificationWorkerProofs!NoSnapshotSkipped` | `EverySnapshotTried` |
| `NotificationWorkerProofs!CacheIsWhatWasRead` | `CacheFollowsReads` |
| `NotificationWorkerProofs!PushesRepeatByRejoin` | `RepeatsNeedRejoin` |
| `NotificationWorkerProofs!StepsBackHaveCause` | `StepsBackAreExplained` |
| `NotificationWorkerProofs!NotifierImplementsPushes` | `PushesSpec`, the refinement |
| `TenantProvisioningProofs!ProvisioningTypeOK` | types |
| `TenantProvisioningProofs!LoginsStayApart` | `OneTenantPerLogin` |
| `TenantProvisioningProofs!ChannelsStayReadable` | `AccessLostOnlyByRemoval` |
| `TenantAccessProofs!RemovalsRevoke` | `AnsweredRemovalRevokes` |
| `TenantAccessProofs!StrayAccessHasCause` | `StrayAccessIsExplained` |
| `TenantAccessProofs!StaleEventsHaveCause` | `StaleEventIsExplained` |
| `TenantCacheProofs!CacheTypeOK` | types |
| `TenantCacheProofs!CacheKeepsNewest` | `CacheIsNewestRead` |
| `FuelPipelineProofs!PipelineTypeOK` | types |
| `FuelPipelineProofs!PagesMoveForward` | `PageNeverGoesBack` |
| `FuelPipelineProofs!CommittedIsShown` | `CommittedIsVisible` |
| `FuelPipelineProofs!DrawingsAgree` | `ChartAgreesWithTable` |
| `FuelPipelineProofs!BarsAreShares` | `BarsMeasureShares` |
| `FuelSystemProofs!SystemImplementsPipeline` | `PipelineSpec`, the refinement |
| `FuelSystemProofs!SystemPagesMoveForward` | `PageNeverGoesBack`, of the services as coded |
| `FuelSystemProofs!SystemShowsCommitted` | `CommittedIsVisible`, of the services as coded |

*Writer.* That a committed offset passes only stored rows does not follow from itself:
the commit of `lastResult` also vouches for every earlier record of its partition. So
the invariant says that whatever was read is stored or buffered, that the save stores
the whole buffer, and that while the loop is at the commit nothing read of the
partition is missing from the table; positions are never behind the commit. With it
each step of the worker is a step of the archive or a stutter.

*Scan.* Stamps follow data because the stamp is read after the data and calls of one
caller do not overlap; but the producer keeps events of finished calls. The invariant
therefore orders *all* events in flight of the scheduler (current, queued, published)
by the scan they come from, and bounds data and stamp by the clock. For the
refinement `FeedInv` adds that events carry the number of their scan, that no event
of the scan under way exists before `Produce`, and that any two events are in the
order `ScanFeed` asks of published ones: so whatever `Send` appends is allowed.

*Notifier.* `CoverInv`: the snapshots up to the committed offset and up to the position
were pushed or tried, where "tried" includes the one in hand. It is preserved
because there is one record in hand at most, a commit sends nothing beyond the
position, and a process that leaves turns its hand into a post given up. The cache
(`CacheInv`): a rejoin takes the position back to the committed offset, so up to there too
the cache must hold nothing older than the last event read; with nothing committed the
client joins at the end of the topic, and it holds of all that was read.
Two counts bound what subscribers see twice or out of order. `RepeatInv`: the pushes of a
snapshot, those still under way, the one in hand and, while the worker has yet to read it
before it joins again, one more, are no more than the joins; it rests on `HandInv`, by which
posts under way carry the join under which they were made and no offset is read twice under
one. `StepBackInv`: steps back so far, posts given up that may still come, one if the post in
hand is behind what was pushed last and one while the position is behind what was pushed or
posted last, are no more than the joins after the first and the posts given up. A rejoin may
come while a post is in hand, which is why the hand counts apart from the position. Both are
counted with the cardinality lemmas of FiniteSetTheorems. The refinement then needs `HandInv`
alone: what is posted next is the next snapshot since the last join.

*Provisioning.* `LoginInv` says who is about to be inserted: a request that is past
the registration owns its login alone, since ntfy refused everybody else. `LateInv` says whose
calls may be carried out after they were given up: those of requests that failed, of which a
grant or a revoke is for a tenant whose row was there, and which like the login stays. `AccessInv`
carries the promise of `AccessLostOnlyByRemoval` back to the request that has the
grant and not yet the row; it needs `LoginInv`, as a revoke for one tenant would
otherwise hit another. The access lists (`TenantAccessProofs`) need two more parts.
`RevokedInv`: a removal past its revoke finds the access again only if there is an add
of the same topic, for requests are never forgotten (`Remembered`). `StrayInv`:
whoever may read a topic without a channel has a `Pending` request, one between its two
stores or failed there; when nothing runs only the failed ones are left. A grant and a
revoke must hit the tenant they are for, which is `LoginInv` again, and a new tenant must
not inherit a list, which is why `AclInv` gives access to logins of rows only. For the events
`LoadedInv` says of the collection a removal holds, which nobody refreshes, that it lacks the
victim, and that each of its channels is still in the database or was taken by a removal that
has not answered or has published: the event is made of that collection.

*Tenant cache.* `CacheIsNewestRead` is inductive with the types: an update read is
compared with what is kept, which every read before it that counts has been compared
with already, and a deletion takes all of them out of `Standing`. It speaks of reads, not
of offsets, so a rejoin, which changes the position and reads nothing, leaves it alone.

*Pipeline.* `PipelineInv` uses nothing but the two abstract specifications. A row that
was seen, or whose record was acknowledged, is in the archive and stays there, so the
newest row of its item is stamped no earlier (the answer "covers" it, `PageInv`); that
a later stamp carries no older data is the order of the topic (`TopicInv`) again. The drawing is about data alone: `IsAvailable`
excludes every word the two scripts look for (`ClassesAgree`), and the shares are
multiplied out (`RoundedBars`), so the bars are right for any number of stations.

*System.* The theorems above are used, not repeated: the proof modules are instantiated over
the variables of the system. Its behaviours are behaviours of `RegionScan`, for the worker and
the page change nothing of the scan's; so `ScanImplementsFeed` says what the topic may take up.
With that the records are bounded as the worker's instance wants them (`BoundInv`), a `Send` is
the worker's `Produce`, the behaviours are behaviours of `ClickHouseWriter`, and
`WriterImplementsArchive` says what the table may take up. The two abstract steps together are
a step of the pipeline (`PipelineStep`), once rows of the worker and rows of the page are known
to be the same (`SameRows`). So what is proved of the pipeline holds from the fuel API to the
screen. The assumptions of the instantiated modules are proved of the constants they are given
(`WriterAssumptions`, `PipelineAssumptions`).

Only model-checked: `EveryEventStored`, `SchedulerNeverStops`, `EverySnapshotSettled`,
`RemovalReachesCache`: liveness is out of this prover's reach.

## 6. What the code does other than it says

- **One bad event stops the archive** (`writer_poison`). An event with a null key part
  fails every flush, its own and all later ones, since the buffer keeps it.
- **The tenant cache is empty after a restart** (`notifier_cache`), as the group resumes
  behind the events it has committed.
- **Removing a channel does not remove the access** (`provisioning_delete`). The revoke
  carries no credentials; the row is gone by then and a second DELETE answers that
  there is no such channel.
- **The last event may name a removed channel** (`provisioning_event`). The trace needs
  revokes that ntfy accepts: as long as they are refused a removal publishes nothing, so this
  appears once the removal above is mended.
- **The page shows as current what is not** (`pipeline_current`). The newest row of a
  station and fuel counts however old it is: a fuel that the last scan no longer lists
  keeps its last state under the badge "На текущий момент".

Met while reading and not checked by a run: after a failed flush the buffer may be
flushed with `lastResult = null`, stored and cleared without a commit although the log
line says the offset is committed (the rows are inserted again after a restart and the
primary key absorbs them); a push without gasoline is sent although the log line says
it was cut off by the filter; an empty answer, which also stands for a region without
data, is drawn as "all stations work normally"; the event's `RegionChannels` is read as
`Channels` by NotificationWorker, so the cached list is always empty; `UpdatedAt` is
generated by the database on insert only and a removal does not touch it, so
`InMemoryTenantCache` (`CacheIsNewestRead`: of equal stamps the first) would ignore every
event of a tenant but the first that a life of the process reads, while
`RemoveTenantChannelUseCase.cs:46` says the workers rebuild their cache at once;
`TenantConfigurationConsumer.cs:26` speaks of reading from the beginning at a cold
start, which happens once only, since the offset is committed from then on; its
dictionary of channels is deserialised and compares region names exactly, where
`Tenant.cs:29` means to ignore case; the bars of the chart can overflow by one percent (1
station without fuel and 7 with a limit give 13% and 88%); the chart
counts as warnings words the API never sends, and `unknown`, which the table would show
as a warning, is never available and so always shown as an outage; the
deployment sends pushes to `https://ntfy.sh` (docker-compose.yml) where README
section 3 says they go to the local server; nothing connects a tenant's balance with
his access to topics.

## 7. What is not modelled, and why

Assumptions of the models: one partition per topic; one instance of each worker (a
second member of the consumer group appears only as `Rebalance` and `Rejoin`); Kafka neither loses
an acknowledged record nor expires one; ClickHouse answers with `FINAL`, so rows with
one key are one row; stamps are compared exactly, although the table keeps milliseconds.

Left out: the text of pushes and summaries; the creation of tables and migrations;
AES and PBKDF2; the API gateway (configuration only); the other Mvc pages, the lists of
regions and fuel types, and the vendored libraries; `NtfyNotificationSender`,
`NtfyNotificationService` and `FuelRepository`, which nothing calls;
`SaveTenantConfigUseCase`, which is not registered; `CreateDashboardUserUseCase`, which no
endpoint calls (what runs of the users is a seed at start and a login that changes
nothing); balances, an absolute write of one row that nothing else reads; events with
`IsDeleted` in NotificationWorker's own loop, since nothing publishes them.

## 8. Plan

Done: the archive, the scan, the notifier, provisioning, the tenant cache and the pipeline
from the scan to what the analytics page draws, with their invariants, refinements and
theorems; every safety property the passing runs check is a theorem; the services as coded are
shown to implement the pipeline of their promises. Left, in this order:

1. `TenantProvisioning` composed with the two caches of NotificationWorker: a cache
   equals what some prefix of the announcements says.
2. Orders of events: of two removals of one tenant of which the second began after the first
   had answered, the event of the second names what the first took only if it was added again.
