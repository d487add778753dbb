# Libero: specifications and proofs

TLA+ specifications of the parts of Libero whose correctness depends on the
order in which things happen, the TLC configurations that check them on small
instances, and TLAPS proofs of what holds for every value of the constants.
Paths are relative to the repository's root (`src/`); `PROJECT.json` names, for
every definition, the lines it models.

    tlc -config MCAuditChain.cfg MCAuditChain      # one run
    tlapm AuditChainProofs.tla                     # one module of proofs

## 1. The system

Libero puts an agent into Slack channels.  Two processes share no credential:
the *server* (`apps/server`: Slack gateway, sessions, agent loop) and the *tool
proxy* (`apps/proxy-server` over `packages/proxy`: team sheets, approvals,
vault, OAuth grants, budget, audit).  The agent reaches every tool through the
proxy over mTLS; the certificate's name is the channel.  A third process, the
runner, executes sandboxed code.  Operator commands (`budget reset`, `grant`,
`vault`) write the proxy's files while it runs.

Each process is one Node event loop.  Concurrency is therefore the interleaving
of handlers at their awaits, plus other processes on the same files, plus the
outside world; a step of a model is what the code does between two awaits.

| Component | State | Operations | What is hard | What makes it correct |
|---|---|---|---|---|
| Call gate (`server.ts`, `enforce.ts`, `dispatch.ts`) | requests in flight, today's counters | decide, redeem, meter, dispatch, record, warn | the spend and the sheet are read before awaits and used after; anything may throw | nothing runs unauthorised; one row per call; bounded overshoot; an answer |
| Approval broker (`approvals.ts`, `approvals-route.ts`) | tickets per channel, in memory | mint, redeem, decide, observe an expiry, evict | clicks, re-submissions, expiry and restart race | an approval serves one call, once |
| Audit log (`audit-db.ts`) | a SQLite file, the tip each process carries | open, migrate, append, verify | two processes, crashes between commits, rows changed from outside | rows stand; an untouched log verifies; a break stays a break |
| Team sheet store (`team-sheet-store.ts`) | per channel: cached state, fingerprint, a read in flight and one queued | resolve, watch event | stat and read are two looks; callers share reads; half-written files | answers are of now; a typo disables nothing |
| Token engine and grants (`token-engine.ts`, `token-store.ts`, `outbound.ts`, `grant-flow.ts`) | cached tokens, exchanges in flight, a sealed file | lease, acquire, refresh, rotate, putGrant | the issuer retires a token before its successor is on disk; two processes write the file | no token is spent twice; persisted before used; a newer token on every retry |
| Budget meter (`budget-db.ts`, `budget-meter.ts`, `spend-route.ts`, `drift-db.ts`) | counters per channel and day, reported turns | record a call, record a turn, claim a warning, reset, prune | retried reports, midnight, a reset from another process | a turn is counted once |
| Upstream pool (`mcp-pool.ts`, `semaphore.ts`, `mcp-client.ts`) | clients, permits, sessions with generations | acquire, wait, sweep, reopen, close | a timer and a release race for a waiter; sessions are lost together | no permit is lost; one reopen per loss; shutdown wakes everyone |
| Approval prompter (`apps/server/src/approvals`) | cards awaiting a decision | post, click, settle, repaint, complete, abandon | deadline, click, abort and post failure race over two processes; an answer is lost and another person clicks | the wait's end is the proxy's verdict; the card says what became of the call, and has one last word |
| Sessions and ingest (`apps/server/src/session`, `ingest.ts`) | a queue, a store handle and active threads per channel | route, file a message, mirror a revision, evict | work queued while the sweep runs; a revision overtakes its message | one task at a time; no store closed in use |
| Ambient clock (`ambient.ts`, `check.ts`, `rule.ts`, `heartbeat.ts`, `proactive.ts`) | tickets in the channel's store; in memory, schedules, watermarks and post windows | scan, fire, post, mark, notice | a crash between a post and its mark; a channel held by a task; schedules that die with the process | a check speaks and speaks once, and is never forgotten; heartbeats are spaced; a rule's occurrence fires once |
| Rule clock (`rule-clock.ts`) | the next occurrence of each rule | resolve a wall-clock time, search the days | hours that are skipped or come twice | every local time the day has fires once |
| Channel memory, not modelled (`packages/memory`) | messages, summaries, skills, scheduled tasks in SQLite | append, remove, summarise, prune | triggers that keep derived rows current | a summary is of what is there |
| Gateway, runner, CLI, vault, custody backends, schemas, redaction | adapters, pure functions, sealed files | | little of it is concurrent | see `components` in PROJECT.json |

## 2. The modules

| Module | Models | Proofs |
|---|---|---|
| `OneShotApproval` | what the broker promises of a ticket | refined by the gate |
| `ApprovalGate` | call gate, ticket store, click route, with the meter and the log as they touch them | `ApprovalGateProofs` |
| `AuditChain` | the audit file and the proxies on it | `AuditChainProofs` |
| `TeamSheetStore` | one channel's sheet, cache, reads and watcher | `TeamSheetStoreProofs` |
| `TokenEngine` | tokens, exchanges, the grant file, the grant command and the issuer | `TokenEngineProofs` |
| `SpendReports` | one channel's budget file: migration, turn reports, prune, drift record, reset | `SpendReportsProofs` |
| `BoundedQueue` | what semaphores with a bounded wait promise | refined by `UpstreamPool`, proved |
| `UpstreamPool` | pool, semaphore and session handling in front of one upstream server | `UpstreamPoolProofs` |
| `HeldCallCard` | a held call on the agent's side: prompter, registry, clicks, re-submission, composed with `OneShotApproval` | `AgentProofs` |
| `ChannelSessions` | one thread of a channel: gateway, ingest, revisions, router, mutex, registry | `ChannelSessionsProofs` |
| `AmbientClock` | the ambient loop over some channels: scan, checks, rules, heartbeats, posts, shutdown and restart | `AgentProofs` |
| `RuleClock` | the arithmetic of a rule's next occurrence, and the schedule kept of it | `AgentProofs` |
| `MC*` | the instances; the `.cfg` files name the bounds | |

A definition whose name begins with `Faulty` is not part of a specification: it is a named one-line fault next to the definition it
would replace, kept to show that a property can tell the two apart.

### ApprovalGate

A slot is one connection.  `callTool` becomes `Arrive` (the body parsed, the
meter read), `Resolve` (the sheet), then one of `Refuse`, `Hold`, `TurnAway` or
`Commit` (the decision, the ticket and the count are one synchronous stretch up
to the meter's await), `Dispatch`, `Served`, `Notice`, `Reply`; the `...Throws`
actions are its catch.  `Audit` is the audit closure with the four things its
writes can do.  `Expire` and `Decide` are the click route: the store first, the
row after.  `Tick`, `EditSheet`, `ClearDay` (midnight and `budget reset`) and
`Restart` are the world.  A ticket record is kept after the store forgets it, so
that properties can speak of it; `known` is what the store still holds.

Abstracted: arguments are an opaque value (redeem compares the hash); a sheet is
the ruling it gives each call, one cap and one warning threshold; the message of
an answer.  Not modelled: the pin on the sheet's fingerprint, the token and
dollar limits, the listing routes.

### AuditChain

A step is one commit or one read of the file.  `openAuditDb` is `OpenFile`,
`ReadStamp`, `ReadColumns`, the rebuild and the stamp; a serving proxy appends
to the tip it carries and is refused where another row already follows it (the
unique index on `prev_hash`).  A hash is the sequence of what it commits to, so
two hashes agree exactly when their preimages do; a null column is not in the
preimage, as in the code.  Whoever holds the file may change, insert or remove
rows and remove the stamp.

### TeamSheetStore

`stat` and `readFile` are two steps each, the kernel's look and the continuation
that hears of it, because the flag that decides whether a caller may share a
read is set by the latter.  The file is the sequence of its versions.  A write
that is not atomic is two versions, the first of which does not parse.  The watcher
may not be had, or fail, at any point (`WatcherFails`); the next question tries again.

### TokenEngine

A refresh token is a lineage (the grant it descends from) and a place in it; the
issuer honours one place.  `MintFor` is `mint` up to the exchange: join or start.
`IssuerGrants`, `IssuerRefuses` and `ExchangeFails` are what may become of the
request, `ReadForRotation` and `WriteRotation` are the store's
read-merge-replace, cut in two because the grant command, another process, may
come between; the proxy itself does nothing in that stretch (`Blocked`).
`broken` and `undone` record why an issuer might rightly refuse: revoked, lost on
its way to the file, or written over by the grant command.

Assumed: at the moment the proxy gives a request up, the issuer has handled it or
never will; a name has one binding.  Not modelled: DPoP keys and nonces,
`close()`.

### SpendReports

A turn is reported under an id, and any report may be repeated, at once, after
midnight, after a restart, since the agent cannot tell a lost answer from a lost
request.  `Record` is `recordTokens` up to its commit (claim and tokens in one
transaction), `Prune` the delete that follows at the first report of a process's
day, `Observe` the drift record and the answer.  `Open`, `ReadColumns` and
`Rebuild` are `openBudgetDb`; they are steps of either process, since the operator's
`budget` command opens the same file and may migrate it while the proxy does.
`past` is a history: what was counted, when, and what a reset cleared.

Abstracted: a report costs one token; prices are a mark on a turn (`Priced`).  A
commit of the drift file that is lost at a host crash (it is not synced) is not
modelled; it could only lose a turn, never invent one.

### UpstreamPool

One key of the pool.  `Lease` is `acquire`, `Ask` a gated call up to its permit,
`TimerFires` and `Finish` the two ways a waiter's place changes hands, `Sweep` the
idle sweep that an acquire of another key makes, `Close` the shutdown that opens
the semaphores.  Below the permit, `Enter` is `ensureOpen`, `Connect` and
`ConnectFails` the end of a handshake and `Lost` the 404 that a request on a forgotten session
meets; `Forget` is the upstream's restart, an expiry or a late DELETE.  `alive` is what the upstream
keeps and `left` the sessions it may keep unasked: those of handshakes that failed after it
had minted one, whose id the client drops (`mcp-client.ts:616`), and those whose DELETE
did not arrive in time or failed, which is swallowed (`mcp-client.ts:897`).  A swept client is kept: a caller may
still hold it.  Promise continuations that the code runs one after another
within a turn of the event loop are separate steps here, so the model has a few
more interleavings than the code, and none fewer.  A `close` while a first handshake is
in flight lets the handshake finish and its session live on, as in the code.
`BoundedQueue` is a family of gates, one to a client, since each client has a semaphore of
its own and a swept one may still be used.

### HeldCallCard

The proxy is an instance of `OneShotApproval`, so what is shown of the card rests
on the promise `ApprovalGate` is proved to keep.  `wait` is the prompter's state for a hold,
`issued` every face `updateCard` was called with, `updates` those whose request is
under way.  `Finish` and `Settle` are the functions of those names in
`prompter.ts`; `Abort` is the task's signal with its three listeners.  A click is
relayed, decided by the proxy, and answered; the agent may give up on the answer
(`RelayFails`) before or after the proxy has decided.  Time is left out: the deadline and
the ticket's expiry run on two clocks, and either may come first.

### ChannelSessions

One thread of a channel that has a team sheet.  A mention comes in by two doors, as
`app_mention` (`Mention`) and as a message (`Receive`, then `File` once the author's
name is there); any message may be redelivered.  An edit or a deletion (`Revise`)
needs no lookup and may overtake the message.  A task may hang (`Hang`): the loop awaits a tool call without racing
it against the task's abort (`loop.ts:228`), and a held call whose wait nobody ends
(`card_hangs`) is such a call; a hung task holds the mutex for good.  The router's `Routed`, the mutex's
queue and the registry with its idle eviction are the rest; a session that was
evicted is kept, closed, so that work which still refers to it shows.  An append into
a session evicted during a long lookup is lost, as in the code (`ingest.ts:179` says
the append happens either way); `isActive` is asked after the lookup.
Taken as given: every message is a person's, in a thread, of a server with a route (`ingest.ts:355`), and fewer
mentions come than the gateway remembers (`SEEN_EVENT_LIMIT`), in one life of the process.

### AmbientClock

`Wake` is the timer with the scan's enumeration: for each channel it reads the sheet and the earliest
ticket, advances the two schedules and collects what is due.  `TakeCheck`, `TakeRule`
and `TakeBeat` are the workers of `runBounded`, checks before rules before heartbeats; each queues on
the channel's mutex, which a mention's task may hold (`TaskBegins`), for good if it hangs (`TaskHangs`, as in `ChannelSessions`).  `Start` is what the job does first
there, `FiredTurnEnds` and `BeatTurnEnds` are the end of its turn up to the request to Slack,
`Lands` that request, and `FinishJob` the mark on the ticket or the record of the notice, either
of which may throw.  The next sleep begins when every worker is done, as in the code.  `Stop` is the
signal and the clock's `stop()`, `Exit` the end of the drain, `Crash` any moment before.
Tickets and notices stay; `memory` and everything under way are gone.  `Edit` switches a sheet's parts on and off and
dates its rule anew; under the same name the rule keeps the instant it was scheduled for (`ambient.ts:736`).
`past` is a history; in it a post is the request made of Slack, which may refuse it (`check.ts:297`).

Abstracted: a channel has one rule, whose occurrences are given (`RuleClock` has the
arithmetic); a turn is one of its five ends; of messages only how many there are to
weigh, all of them idle long enough.  Time passes only while nothing that could go on without an answer
from outside waits to go on (`Tick`): timers are prompt.  A sheet that cannot be read and a store
that cannot be opened are left out; an installation always has its readers.

### RuleClock

`instantOfWallClock` and `nextRuleOccurrence` as they stand, over zones with one transition, at
any offset; days and weeks have lengths of their own so that a few dozen instants hold
several of each.  `Sight`, `Fire` and `AwaitDue` are what a scan does with one rule, a scan in every
minute.  A gap on a rule's only day leaves it without an occurrence, and the
next scan looks again.
A transition may skip or repeat up to a whole day (zones have crossed the date line), and of a
time that comes twice only one whose readings both follow the first scan is owed: a process that
starts inside the repeated hour may leave out a time it has already read once.

## 3. The runs

| Run | Instance | Shows |
|---|---|---|
| `gate` | 2 slots, 2 calls, 2 sheets, 1 ticket, 1 tick | the five safety properties of the gate |
| `store` | 1 slot, 2 tickets at a cap of 1, a cap of two calls with a warning at one | eviction, the refinement of `OneShotApproval`, and that every request is answered |
| `chain` | 2 proxies, 7 starting files, 3 rows, 2 outside changes | an untouched log verifies, rows stand, breaks stay |
| `sheets` | 2 callers, 2 reads, 3 versions | answers are of now, the cache is keyed, sheets go forward, resolves are answered, edits land |
| `tokens` | 2 names, a caller of one and a caller of both, 2 grants, 2 exchanges | no refusal without cause, persisted before used, newer on retry, every request answered |
| `spend` | 2 turns, 3 models, 3 starting files, days of 2 ticks, a retention of 3, 5 ticks, a reset | a turn is counted once; claims, tokens and drift agree; no figure is lost by a migration |
| `pool` | 3 calls on 2 permits, 2 clients, of 2 sessions and of 1 | the semaphore is a fair bounded queue, the upstream's load is bounded across a sweep, no tool runs twice for a call, a client loses sight of no session it was given |
| `card` | 2 clicks, 1 hold | what the card says is so, its end is the proxy's, it has one last word, and "running" is followed |
| `sessions` | a mention, whose message event comes twice, and a reply; 2 sessions, 2 ticks | a channel's turns wait in one open session, a mention is answered once, no eviction cuts a thread's window short, queued tasks run unless one hangs |
| `ambient` | 2 channels on 1 worker, 2 tickets, a rule at two instants, which may move to another, a heartbeat with a notice, 3 ticks, one mishap | a check is told once or its firing was cut off, is not forgotten unless a task hangs, heartbeats are spaced over restarts, an occurrence fires once |
| `rules` | days of 4, weeks of 2, 100 zones, 15 rules, 24 scans | each local time fires once on each of its days, over gaps and repeats |

One more run ends in a violation on purpose.  It is a sentence of the repository
that the code does not keep:

| Run | The sentence | What the code does |
|---|---|---|
| `card_hangs` | the wait still ends where there is no card (`prompter.ts:199`) | a wait settled while its card is being posted is never finished when the post then fails: `settle` ran `finish` too early, and the failure calls `settle` again, which returns at once |

### Further disagreements, with their configurations

These were found and are kept as configurations to run by hand (`tlc -config X.cfg
M`); they are no part of the runs above.

| Configuration | Module | The sentence | What the code does |
|---|---|---|---|
| `MCAnsweredOnce.cfg` | `MCChannelSessions` | the redelivery of an ordinary message is a no-op (`gateway.ts:184`) | the insert is; the result of `append` is ignored (`ingest.ts:248`), and a redelivered follow-up is routed and answered again |
| `MCDeletedStaysDeleted.cfg` | `MCChannelSessions` | a message deleted in Slack is deleted here (`ingest.ts:390`), out of order only on a redelivery (`:414`) | the deletion awaits nothing and overtakes the message's name lookup (`ingest.ts:218`); the message is filed after it |
| `MCCalledOffDoesNotRun.cfg` | `MCAmbientClock` | the row a check runs from is re-read on the mutex (`ambient.ts:561`) | it is read before `mutex.run` (`:564`, `:575`); a check called off while it waits behind a task still runs and speaks |
| `MCNoticedInTime.cfg` | `MCAmbientClock` | a minute is the slowest this process notices anything (`ambient.ts:867`) | the next sleep begins when every worker is done (`:898`), so one channel's long task keeps all channels' checks waiting |
| `MCLaterReading.cfg` | `MCRuleClock` | a time that happens twice fires at the later reading (`rule-clock.ts:59`) | west of UTC the first guess is before the transition, and it fires at the earlier one |
| `CardIsClosed.cfg` | `HeldCallCard` | no card reads "running" for ever (`prompter.ts:24`, `:218`) | a click settles while the post is in flight, the abort comes before `finish` listens for it (`prompter.ts:224`): the listener is put on a signal that has already fired |
| `ExpiredDidNotRun.cfg` | `HeldCallCard` | "Expired ... The call did not run" (`approval-card.ts:457`) | the deadline settles the card while the approving click is on its way to the proxy; the re-submission finds the ticket approved and runs |
| `MCSessionsAreKept.cfg` | `MCUpstreamPool` | no session is dropped unterminated (`mcp-client.ts:632`) | a reopen beside a first handshake, possible after one that failed (`mcp-client.ts:668`), strands the loser's session, which is counted apart from what failed handshakes and DELETEs leave (`left`) |
| `MCResetIsNotRespent.cfg` | `MCSpendReports` | spend before a reset does not come back (`budget-admin.ts:25`, its test) | the reset clears the turn ids with the tokens (`budget-db.ts:485`), so a report repeated after it is counted again |
| `MCForkRefused.cfg` | `MCAuditChain` | two proxies cannot make an untampered log verify as broken (`audit-db.ts:356`) | a migration that read the columns before its transaction rebuilds by outdated ones (`audit-db.ts:1214`) |
| `MCExpiredMeansUndecided.cfg` | `MCApprovalGate` | an `expired` row is of a ticket that died undecided (`schema/src/audit.ts:57`) | redeem and decide look at the expiry first, whatever the verdict (`approvals.ts:262`) |
| `MCWarningIsOfItsDay.cfg` | `MCApprovalGate` | a warning belongs to the day of its spend (`budget-meter.ts:75`) | the spend is read before the dispatch, the day after it (`server.ts:889`) |
| `MCNeverOlder.cfg` | `MCTeamSheetStore` | an answer is never older than the question (`team-sheet-store.ts:173`) | the flag is set one continuation after the look (`team-sheet-store.ts:187`) |
| `MCWatchedRewrite.cfg` | `MCTeamSheetStore` | the watcher covers the rewrite that keeps mtime, size and inode (`team-sheet-store.ts:23`) | the watcher's handler compares the same fingerprint (`team-sheet-store.ts:287`) |
| `MCRegrantStands.cfg` | `MCTokenEngine` | a rotation whose record was replaced mid-flight is dropped (`token-store.ts:141`) | it is dropped only if the binding changed; the old grant's token is written over the new one (`token-store.ts:230`) |

### Bounds

Two of each actor are enough for every race here, because each is between two
parties: two requests on a ticket, two processes on a file, a caller and a read.
`gate` has one ticket since tickets do not interact except at the cap, which
`store` reaches with two.  Three rows let a log have a first, a middle and a
last one, and two outside changes let a row be changed and its hash mended.  Three
versions of a sheet let an answer skip one.  Two exchanges and two grants give a
rotation, its successor and a grant made anew; a third exchange was tried with
one name and adds no behaviour.  Of the two callers one needs one name and the other either
(`EitherOrFirst`): they race on a name, and exchanges of two names race for the file.  `MaxMints`, `MaxTime`, `MaxRows`,
`MaxMeddling`, `MaxEdits`, `MaxGrants` and `MaxExchanges` bound counters the code
does not bound.  Where a bound could stop a request half-way it is a guard on
arrivals (`MintsLeft`), or the step has an alternative that stays enabled
(`ExchangeFails`), so liveness is not lost to it.
In `spend`, days of two ticks under a retention of three make a turn outlive its
day and then its id; the second process makes migrations overlap.  In `pool`, three
calls on two permits are the least that queue, and the second client is the one that replaces a swept one; of the first
client's two sessions the second is the one a reopen gets, or one whose handshake fails after it was minted, and the second client is given one
(`MayMint`).  `MCUpstreamSessions.cfg`, for running by hand, gives one client three sessions, which a loss, a failed handshake and a reopen take
together.  Two clicks let the second bring the news of the first.
In `sessions` the reply's event comes once; its redelivery is in `MCAnsweredOnce.cfg`.
In `ambient`, two channels on one worker make one wait for the other, and both tickets are of the
channel with the rule, so that three jobs queue there; one mishap is a crash, a shutdown, a mark that throws, an
edit, a cancellation or a task that hangs, at any point.  In `rules`, weeks of two days make the search come round to the day it began on.
Symmetry is used in `gate`, `chain` and `pool`, which check no liveness.
`CHECK_DEADLOCK FALSE` is set for `chain` (a log that is full, proxies that are
closed), `sheets` (nobody asks and the file is in its last version), `pool` (every
bounded session used up), `card` (one hold, which ends), `sessions` (every message
has arrived) and `rules` (its last scan).

### Fairness

Weak fairness of the program's own steps and of nothing else.  Node runs a
continuation that is ready; the dispatcher, the exchange and the upstream call
have deadlines, so an answer or a failure comes.  Nothing is assumed of clients,
humans, editors, operators, other processes or the clock.  `TeamSheetStore` also
assumes that a change event that was raised is handled.
In `HeldCallCard` the client's own steps are fair, requests to Slack end one way or
the other, and timers fire; neither a human nor the proxy is relied on, so the
re-submission's answer may never come.  In `ChannelSessions` a queued task starts when the mutex is free.  A task's wall clock ends its
model calls, and tool calls have deadlines of their own, but nothing ends the wait of a held call that was lost (`loop.ts:228`).  So only a task
that does not hang is sure to end, and `TasksRun` promises nothing of a queue with one that does.  In `AmbientClock` timers fire, workers go on, posts and fired turns
end by their own deadlines (a fired turn has no prompter, so no call is held for it), tasks that do not hang end, and a process
that stopped exits and is started again.  Where a task hangs under a job that waits for its channel (`Stuck`), no worker's end and no
further scan is promised, and `DueChecksEnd` promises none.  `SpendReports`, `UpstreamPool` and `RuleClock` state
no fairness: what is asked of them is safety.

## 4. What is proved

The theorems hold for any finite or infinite sets of channels, calls, sheets and
proxies, any finite sets of names and callers, and any bounds, from the assumption named in each module
(`GateAssumption`, `ChainAssumption`, `EngineAssumption`, `SpendAssumption`,
`StartsAssumption`, `PoolAssumption`, `StoreAssumption`, `SessionsAssumption`, `AmbientAssumption` and `RuleClockAssumption`), which TLC
evaluates on every run.  The last says of zones what is true of all of them: they are within a day
of UTC and a transition is of at most a day.  `HeldCallCard` needs none.

*Gate.*  `GateTypes` is inductive as it stands.  `OneRow` rests on `RowsInv`: for
each slot, what its rows and the flags `audited` and `lost` must be at each `pc`.
`Authorization` needs `AuthInv`, which says of every committed request what
`DispatchIsAuthorized` says and keeps it true through the store's changes; that in
turn rests on `TicketStep`, proved of every action and published as
`TicketsStand`: a ticket's call, channel and expiry never change, a verdict and
a spent mark are never taken back.  `ServedOnce` adds `OnceInv`: a redeemed ticket
is in one request's hands, and its dispatches and that request's position add up
to at most one.  `Overshoot` is a counting argument: today's calls are at most the cap
less one plus the requests that have read the meter and not been counted; it is
`SpendInv`, over the cardinality of a set of slots.  `StoreBounded` is the cap on
tickets, through the cardinality of what eviction keeps.  `RowsAgree` needs, besides
`AuthInv`, the story of each ticket (`Story`): what its rows say at most, given what the store
and the requests that present it say, so that a handler that writes late contradicts
nobody.  `Implements` maps each
ticket to its status and shows each step to be a step of `OneShotApproval` or a
stutter.

*Audit.*  One invariant, `AuditInvariant`: the rows form one chain or were
touched, every tip is a hash in it or a genesis, no two rows follow one hash, and a
proxy that is rebuilding saw a shape the file once had.  From it `AuditTypes`,
`OneChain`, `TheRowsStand` and `TheBreaksStay`.  `OneProxyIsEnough` shows that the
sentence `fork_refused` refutes holds without exception when there is one proxy,
which is the deployment the documents describe.

*Tokens.*  `InvHolds` is the inductive invariant, in parts.  `Numbers` and
`Requests` order the exchanges: a flight the issuer has answered is later than
the cached token and than any token in a request's hand, and within one life of a
cached entry a higher generation is a later exchange (the generation starts over
when an entry is dropped, so the two need not agree across lives).
`RetriesAreNewer` follows.  `Copies` and `Lineages` say that a copy of the file
held by a write that is under way has no record the file had not, and that a
lineage belongs to one name wherever it is: file, flight or copy.  `Persisted` asks of
the file *and of the copy a rotation is about to write back* that it is as new as
the token cached and the one in flight, which is what makes `RotationIsPersisted` survive the
stale write.  `Honoured` asks of both that the issuer honours what they hold, or
that its successor is on its way, up to the lineages broken or undone:
`RefusalsHaveCause`.  It was checked with TLC at three grants before it was proved.

*Held call.*  `CardInv` follows a verdict from the proxy to the card.
`Answered` says that an answer on its way back is what the ticket was settled
with, for good; `Settled` says it of the wait's end; `Served` ties the ticket to the
re-submission; `Written` says which faces may have been painted at each point of the
wait, `Painted` that those that speak of the call came from its answer.  `Turns` is the order the others
need: the first repaint is answered before the re-submission begins, so no face of
the first phase is under way in the second.  From it `CardTypes`, `Colours`,
`VerdictStands` and `LastWord`, for any number of clicks.

*Spend.*  `SpendInvariant`.  `Remembered`: a counted turn's id is in the file with the
time it was counted, unless it was cleared or is past the retention; `Once` follows, through prunes at
either process's hand.  `Behind`: the report in hand was counted, so the drift record
may take it.  `Moving`: columns that are gone are empty, also for a process that looked for
them before another moved them, which is what `Figured` needs of a migration made
twice.  `ClaimsCounted` is by the cardinality of the claims of a day and model.  The
division that makes the clock into days needs one lemma (`TodayIsADay`).

*Team sheet.*  The invariant gives every refresh its turn (`InTurn`): one runs, each of the
others waits for the one before it, and `inFlight` is the last.  So no refresh writes the
entry behind another's back, which dates the entry (`EntryFits`), the look and the text of the
read that runs (`ReadOK`) and the answers (`CallerOK`) against the versions of the file.
`StoreIsTyped`, `SpeakTrue` (an answer is of one version of the file, and says what that
version says or, of one that does not parse, an earlier good one) and `Forward` hold always.
`Fresh` and `Keyed` are stated under `~SameTick`: every rewrite changes size, inode or mtime.
Where one may keep all three the code looks at a fingerprint that did not change, and
`MCWatchedRewrite.cfg` shows what comes of it.  The hypothesis is that of the run `sheets`.

*Upstream pool.*  `CallsOK` says where a call can be and what it holds there, `ClientsOK` that a
client which is not the pool's entry is quiet for good, `Awaited` that a handshake in
flight has somebody who awaits it (without which the sweep, which looks at the calls
only, could drop a session that is about to live), `Kept` that the upstream keeps no session of a
client but its own and those it left, `LineOK` that the count of permits is the number of calls that hold one and that
the line is those who wait, each once.  `Bounded` is then the count of the one client that is not
quiet; `Once` and `OneSession` follow, and `Fair` shows that every step is a step of one gate of
`BoundedQueue` or a stutter: that a place which comes free goes to the caller who has waited
longest, whoever's timer fires meanwhile.

*Sessions.*  A turn waits only in the queue of the channel's current session, whose store is
open, so an eviction, which requires an empty queue, cannot part the two: `Serial`.
A thread's deadline is within a window of the last use of its session, except while a task that may move it
runs, when the session is not idle: `WindowKept`.  `Answered` counts: a mention has been
given a task exactly when it has been seen.

*Ambient clock.*  `Told` counts, for each ticket, its posts against the firings that were cut
off, whatever its row says and whatever its channel's work has come to; it needs `Fits` and
`InOrder`, the order of the scan (checks, then rules, then heartbeats), because that order is
all that keeps a worker from taking work in a channel that has some.  `BeatOK` dates a heartbeat: what is due or at
work was scheduled a cadence after the process began, and the last post of an earlier process
is before that, so `Spaced` holds though neither schedule nor window is stored.
`RuleOK` says that what a rule is due for next, at every place it can be (schedule, scan or
job), is after the start and after all that was fired: `FiresOnce`.  The one fact about instants the proofs rest on is
that a set of them that is not empty has an earliest (`EarliestIs`).  `Onward` is the step of a job as
such, so that each action has to show only what is its own.

*Rule clock.*  Three facts of the arithmetic carry it.  `Resolves`: a reading the clock has is
resolved to an instant at which it has it, so what does not read back does not exist.
`KeepsOrder`: of two readings the later is resolved to the later instant, although the clock goes
back between them; so days may be searched in order, and the earliest of the first day is the
earliest of all (`NextFiring`).  `ComesAgain`: a time of a day already past that is still to come was read
before, so a search that begins today misses it only when it is not owed.  `DueOK` then says that
what is due is the earliest firing owed, and that while nothing is due none is within the days last
searched: a transition of a day brings the day after next at most (`DayAfterNext`), which in a week of
two days or more is within them, so the next scan has looked in time.  Division by a day of any length
comes down to one product (`Lengths`).  `OnceEach`.

`AgentProofs` holds the proofs of three components of the agent's server; so `AmbientClock`
calls its specification `ClockSpec`, its invariant of types `ClockTypeOK` and so on, `RuleClock` calls
its own `RuleSpec`, and they can be extended together.

*What waiting waits for.*  Liveness itself is out of reach, but its safety half is not: that
whoever waits, waits for something that is under way.  `NobodyWaitsOnNothing` (tokens) is
inductive over the lemma that says what a request's step does to the flights.
`WaitersWaitForSomething` (sheets) follows the line behind a queued refresh to its head: of the
refreshes behind which it waits one has the least number in `InTurn`, and that one is at the file.
`NobodyWaitsInVain` (pool) adds `HandshakesRun`, the converse of `Awaited`: who awaits a handshake
awaits one that is in flight.  `HeldBySomething` (card) needs `Goes`, what each point of the wait still
has to come: the post's answer, the deadline or the repaint's; its one exception is the wait
that `card_hangs` shows.

*What the disagreements lack.*  For sentences the code does not keep, theorems say when it
does, so that the counterexample TLC has is seen to need what it uses:

| Sentence | Holds if | Theorem |
|---|---|---|
| two proxies cannot make an untampered log verify as broken | there is one proxy | `OneProxyIsEnough` |
| a rotation whose record was replaced is dropped (the new grant stands) | the grant command writes while no exchange is in flight | `RegrantsStandIfBetween` |
| no session is dropped unterminated (but by a DELETE that fails) | no handshake fails | `KeptIfNoneFails` |
| a message is answered once | its event is delivered once | `OnceIfDeliveredOnce` |
| what is deleted in Slack is deleted here | it is delivered once, and not deleted during its name lookup | `DeletedIfInOrder` |
| a check that was called off does not run | it is called off before its row is read to run it | `CalledOffInTime` |
| a time that comes twice fires at the later reading | the zone is at UTC or east of it after the transition (`LaterIfEast`); in zones west of it before, the earlier reading fires (`EarlierIfWest`) | both |
| the wait still ends where there is no card | no end came before the post failed | `EndsIfPostFailsFirst` |
| "Expired ... The call did not run" | no wait expires by itself under a click the proxy is being asked about | `ExpiredIfUnclicked` |

A hypothesis on steps is written `Spec /\ [][A]_vars`, and `A` speaks of the environment's choices only:
which step comes when, never what a step does.  `RegrantsStandIfBetween` needs more than that the name's own exchange is over:
a rotation of another name writes back what it read of every name (`Matches`).  For the sheets, `Fresh` is of this
kind already (`~late`).

### Only model-checked

All liveness (`RequestsAreAnswered`, `ResolvesAnswer`, `WatchedEditsLand`, `RunningIsFollowed`, `TasksRun`,
`DueChecksEnd`), which the proof system does not reach.
Every safety property of a passing run is a theorem, and so is each state machine's invariant
of types, except for `RuleClock`, which states none (`RuleInv` has what its proof needs).

## 5. The plan

Written, in this order: ApprovalGate, AuditChain, TeamSheetStore, TokenEngine, SpendReports,
UpstreamPool, HeldCallCard, ChannelSessions, RuleClock and AmbientClock; and the proofs of all.  Next:

1. A disk that loses what was not synced, under `replaceFileAtomically`.
2. The catalogue's single flight, and the triggers that make a summary stale.

## 6. Not modelled

See `components` in PROJECT.json for each part and its reason.  In short: pure
functions of one request (schemas, redaction, signatures, header checks),
adapters over other people's services (Slack, model providers, cloud secret
managers, Docker), interactive commands, SQL that has no second actor, and
everything that is text assembly.  Most of the repository's lines are of these
kinds, so the share of them that the modules translate is small.  `hazards` lists what is hard to test in the
parts not yet modelled, at the line where it bites.
