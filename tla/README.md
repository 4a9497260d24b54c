# Live Ninja: verification project

Live Ninja is a voice assistant: Lambda functions behind one web application, one
DynamoDB table, device and browser clients. This directory holds TLA+ models of
the parts of it where correctness depends on the order in which things happen,
TLC configurations that check them on small instances, and proofs that hold for
every value of the constants.

Run inside this directory: `tlc -config Services.cfg MCServices.tla` (module and
configuration of every run are in `PROJECT.json`), `tlapm ServicesProofs.tla`.

## 1. The system

All state that outlives a request is in one DynamoDB table, `USER#<id>` being the
partition of an account. There are no long-lived server processes: handlers and
workers are Lambda invocations that read items, compute, and write with a
condition. Two invocations share nothing but the table. So the hard behaviour is
the same everywhere: what lies between a read and the conditional write that
follows it, what a crash or a retry between two writes leaves, and what an
eventually consistent index shows. Outside the table are the devices, with their
shadows at AWS IoT, the phone provider, and the queues.

| component | state it keeps | operations | interacts with | hard behaviour | what makes it correct |
|---|---|---|---|---|---|
| Jobs (`internal/jobs`, `cmd/jobs-worker`) | per job one record (job, bounded runs, receipts, version, generation), an append-only history, a due index | create, update, pause/resume/cancel, run now, retry, approve, cancel run, note, expiry on read, tick, suspension | account profile and grant (transaction checks), purge, phone provider | concurrent commands and ticks, repeated requests, lost answers, revocation and deletion in flight, full history | commands at most once; an occurrence runs once; nothing pending survives its generation; nothing runs without an active account; history complete; overdue work is served |
| Phone research (`internal/jobs/phone_research.go`, `tools/phone-trial`) | the run in the job, the provider's control and attempt rows, the voice lock | dispatch, pause, resume, cancel, dial, sync of a result | jobs, provider Lambda, telephone | commit before the paid call, late and repeated results, lost answers of the telephone service | one paid call per hotel, one at a time; a job that says it stopped is silent |
| Sessions (`internal/store/sessions.go`, `internal/auth/refresh.go`) | one row per session: current and previous refresh hash, family, device | sign in, refresh, register and rename a device, log out (one, everywhere), revoke a device | devices, pairing | two rotations of one token, reuse, a family revoked row by row from a lagging index | one winner per token; reuse ends the family; what was signed out stays out |
| Device pairing (`internal/auth/device.go`, `internal/store/oauth.go`) | pairing row with its counter of wrong codes | register, confirm, cancel, poll, claim | sessions | two claims, wrong codes against a right one, expiry | a pairing yields one credential; a code guessed too often does not pair |
| MCP authorization (`internal/mcpauth`) | pending requests, codes, grants, credentials, each with a version | consent, exchange, refresh, revoke | assistants | reuse, revocation against refresh, lost answers | each secret is exchanged once; reuse ends the grant; a grant never grows |
| Code-update dispatch (`internal/codeupdate`, `cmd/codeupdate-dispatch`) | request row, single-use token row, progress claims | dispatch, launch, fail, progress post | queue with redelivery, workflow service, mail | crash or upstream error between token and launch, duplicate delivery | one launch per request; no request disappears silently |
| Code approval (`internal/codeapproval`) | intent row with version, receipt and expiry | prepare, get, approve | the owner's browser | approval of an older review, copies of an approval, expiry in between | what is recorded is what was reviewed, once |
| Quota gate (`internal/realtime/quota.go`, `internal/store/quota_hardening.go`) | token bucket, session slots, burn anchor, suspension flag | mint, redeem, free, burn, suspend, reinstate | broker, bridge, phone | check before record, concurrent takers, double redemption | bucket within its rate; sessions bounded; a session redeemed once; nobody suspended without cause |
| Account deletion (`internal/webapp/account_routes.go`, `cmd/account-purge`) | profile status, purge invocation | delete, purge | every partition of the account | crash between mark and invocation, writes during the purge | a requested deletion completes; nothing remains |
| Settings (`internal/store/settings.go`, `internal/sync`, `cmd/shadow-ingest`, firmware) | versioned document with overrides per device, device shadows | put, patch, purge of an override, push, report | devices, IoT | two writers, revocation, lossy and reordered messages | an override that was removed stays removed; a version means one thing; devices converge |
| Tool registry (`internal/tools`) and mail dispatch (`cmd/email-dispatch`) | idempotency keys, proposals of commands, the queue of mails and its markers | invoke, propose, confirm, dispatch | broker, bridge, coding fleet | a call posted again while it runs or after a lost answer, two confirmations of one proposal, a batch delivered again | an effect at most once; a command is one that was read back |
| Authentication (`internal/auth`, `cmd/authorizer`) | grants, revocation cut-off, cached verdicts | login, verify, revoke | all handlers | cached verdict after revocation | revocation takes effect in bounded time |
| Realtime broker, voice engines, phone bridge | live calls | connect, relay, hang up | quota gate | goroutines and provider callbacks | a call ends and is accounted |
| Topics of conversations (`internal/store/topics.go`, `cmd/topics-extract`) | topics with counts, assignment rows, conversations, session claims | flush, extract, merge, archive, delete | asynchronous events, the owner's requests | a session flushed twice, extractions that overlap or die, merges meanwhile | one conversation per session, found under its topics and counted |
| Root-cause analysis (`internal/rca`, `cmd/rca-analyzer`) | claims of signatures, of a day's budget and of notices, records | enqueue, analyse, report, notify | queue with redelivery, paid model, mail | redelivery after any failure, lost answers, the change of a day | paid and reported once, within the caps |
| Deliverables, conversation prompts, memories, wake words, Alexa | rows and files of their own | see `PROJECT.json` | S3, model services | little state | not modelled |
| Web front end, Android app, rest of the firmware | client state | user interface, audio, connection | HTTP API, IoT | reconnects | not modelled |

## 2. What is modelled

A behaviour of a combined run (`MCJobOperations`, `MCCodeUpdate`, `MCAccess`,
`MCServices`) follows one *scenario*, chosen at the start: one instance of a
module, with the operations, identifiers, faults and bounds that the question
needs. Properties are checked of every scenario. All operations of a component
together would have too many interleavings; the scenarios divide them so that
those that touch the same rows meet. `CHECK_DEADLOCK FALSE` is given in every run
because clocks, requests, names and versions are finite: a behaviour ends when
they are used up. Two invocations are enough for a race of two conditional writes
on one item; a third only repeats what one of the two did.

### Jobs

| module | what it is |
|---|---|
| `JobRecord` | the aggregate and the pure operations on it: what every command, tick, expiry and suspension makes of the record it is given (`service.go`, `schedule.go`) |
| `Jobs` | handlers, workers, clients, the account and its purge running concurrently against the table; one action per read and per conditional write (`service.go`, `dynamo.go`, `history.go`, `cmd/jobs-worker`) |
| `AtomicJob` | the promise: one object on which every operation happens at one instant |
| `MCJobs`, `MCJobOperations` | schedules, symmetry and the scenarios for TLC |
| `JobsProofs` | lemmas about the operations, theorems about `Jobs!Spec`, the proof that `Jobs` implements `AtomicJob` |

How the state corresponds to the code:

- `rec` is the item `USER#<uid>/JOB#<id>` (`types.go`, `Record`). A run is named by
  its position of creation instead of a random identifier, so "the first of the
  slice" is "the smallest name"; `made` is how many names were given out. Texts are
  left out: the content of a job is its kind. Times are natural numbers, `NoTime`
  is the empty timestamp, and a schedule is the set of its instants (the civil-time
  arithmetic of `schedule.go` only decides which set). `evicted` exists between an
  operation and its write only, as in the code.
- `ledger` is the newest history snapshot of every run (`history.go`).
- `account` is what `authorizationChecks` reads in the transaction: "active" is an
  active profile with a grant, "inactive" one without, "deleting" a marked profile.
  A job may be asked for when the account is marked already.
- `proc[p]` is an invocation: `pc` says which conditional write it is about to do,
  `snap` and `now` are the record and the instant it read. `CommandRead` followed by
  `CommandCommit` and perhaps `CommandRecheck` is `mutate`, `ViewRead`/`ViewCommit`
  is `read`, `TickStart`/`TickRead`/`TickCommit` is `Tick` with `Due` before it,
  `SuspendRead`/`SuspendCommit` is `SuspendInactive`. `Crash` ends any of them
  between its steps: a timeout or a failed store call.
- `calls` are the commands the clients have sent, each with the version its author
  saw; the same request may be handled any number of times, at once or later.
- `applied` and `answers` are history variables: commits per request, and the runs
  named in successful answers.
- `SetAccount`, `PurgeList`, `PurgeDelete` are the account events; the purge lists
  the keys of the partition after the profile is marked, then deletes what it listed.

`compact` and `BackOff` depend on the number of bytes of the texts. The models do
not count bytes: `Oversize` says whether the budget may bite, and if so any number
of the oldest finished runs may have to go.

| run | bounds | shows |
|---|---|---|
| `JobsSchedule` | 2 requests, manual, one-time and recurring schedules, 2 runs retained, byte budget, clock 0..3, no account event | no occurrence becomes two runs; nothing pending is left of an earlier generation; the history is complete; a cancellation stops the job while its account stays active |
| `JobsAtomic` | "account": 2 requests for any operation, revoke, reinstate and purge, one-time job or recurrence; "commands": 4 requests on a manual job; 2 runs retained, 1 receipt, clock 0..1 | `Jobs` implements `AtomicJob`; commands are idempotent although only one receipt is kept, and all copies are answered alike; one successor per retry although its record may be evicted; a finished run keeps its outcome; nothing runs without an active account; a purge leaves nothing |
| `JobsProgress` | one run request, revocation, fairness, 1 run, clock 0..2 | an overdue occurrence is served; the row of a revoked account leaves the due index |
| `JobsCancel` | 2 requests, recurrence, revoke and reinstate, cancel and resume only, clock 0..2 | finding 1 |

Two runs retained and one or two receipts make both limits bite with three or four
commands; the clock is long enough for an occurrence to be due, missed, retried
after a backoff and for a review to expire. `LedgerComplete` is checked without
account events: a suspension cancels pending runs without an event in the history
(on purpose, `dynamo.go:157-159`), so that after one it keeps showing them as pending.
Request identifiers are interchangeable and are taken in order in `JobsAtomic`.

Fairness (`JobsProgress`): every invocation ends, if only by its timeout
(`WF_vars(Ends(p))`), and the schedule starts the worker every minute whatever
happened to earlier ones, so a step of the worker that is enabled again and again
is eventually taken (strong fairness per step): it is not killed at the same point
for ever. Nothing is assumed of clients, of the account or of the clock.

### Code-update dispatch

`CodeUpdate` models the queue worker `cmd/codeupdate-dispatch` with
`internal/codeupdate/dispatch.go` and `store.go`, and the progress endpoint
`internal/webapp/codeupdate_routes.go`. `MCCodeUpdate` holds its scenarios,
`CodeUpdateProofs` its theorems.

- `message`, `received` are the queue: a message stays until a worker has returned
  without a failure and may be delivered again before that, `MaxReceive` times
  (`maxReceiveCount` of the template) before it goes to the dead-letter queue.
- `token` is the row `CODEUPD#<id>/TOKEN`. Its hash is modelled as the number of the
  delivery that minted it, `posts` is `postCount`. `status` is the status of the
  owner's record, `mails` and `progress` what was put on the mail queue.
- `proc[p]` is an invocation of the worker or of the progress endpoint. `Mint`,
  `Preprocess`, `Assemble`, `Launch`, `Record*`, `Tell*` are `Dispatch` cut at its
  calls to the table, the launch service and the mail queue; `PostRead`, `PostClaim`,
  `PostMail` are the endpoint cut in the same way.
- `sessions` and `busy` stand for the launch service: it starts a session unless it
  takes the repository for busy, it may refuse, and its answer may be lost.
- `Faults` says which faults occur: a killed invocation (or a failed write of the
  token row, which ends it in the same way), a lost answer of the launch service, a
  mail or a status that cannot be written, which the code logs and ignores.

| run | bounds | shows |
|---|---|---|
| `CodeUpdate` | "reported": 2 requests for one repository, lost answers, fairness; "faulty": 1 request, every fault; 2 invocations, 3 deliveries, 2 posts | one session per request; progress mails bounded; the owner told at most once and never of a start that was none; in "reported", every request is reported or kept for an operator |
| `CodeUpdateRetry` | 1 request, 2 deliveries | finding 2 |

Three deliveries (the template's number) and two invocations give every overlap of
a delivery with its redelivery; two requests for one repository make launches
collide; two posts allowed let a third race for the last claim. A run of the
session may end at any time, so a redelivery also meets a repository that is free.

Fairness: the event source polls the queue (strong fairness of `Deliver`, as an
invocation may be busy when it polls), an exhausted message is moved to the
dead-letter queue, and an invocation that is not killed runs to its end. `Told` is
stated of "reported" only, where nothing is killed.

### Account deletion

`AccountDeletion` models the DELETE handler (`internal/webapp/account_routes.go`), the
purge it invokes asynchronously (`cmd/account-purge`) and what they race with.
`MCAccountDeletion` instantiates it, `AccountDeletionProofs` holds its theorems.

- `profile` is the status in `USER#<id>/PROFILE` ("none" when the row is gone),
  `allowed` the allowlist entry, `rows` the rest of the partition: `Held` at first and
  one row for every writer. `marker` is the row `IDEMP#account-purge-<id>`.
- `delete[d]` is a request: `Read`, `Mark`, `Invoke` are the handler cut at its calls.
  `SetTokensValidAfter` is part of `Mark`, since the check of a token reads both.
- `event[d]` is the asynchronous event and counts the starts Lambda has left for it;
  a run that ends without an error ends its event. A start may come while an earlier
  one is still running.
- `run[p]` is an invocation of the purge: `PurgePhone`, `List`, `Forget` (allowlist),
  `Erase` (one batch, any subset of what is listed and left), `Confirm` (the marker),
  `Send`. `Die` is a failed call or a timeout.
- `Check`/`CheckSignIn` and `Put` are a request that was authorized, or a sign-in,
  and the row it writes later; such a write carries no condition on the profile.
  `Suspend` and `Reinstate` are the quota gate and the owner.
- `old` is history: the rows when the profile was marked.

| run | bounds | shows |
|---|---|---|
| `Deletion` | 2 requests, 2 purges, 3 starts, 2 deaths, one other writer, 1 row, every fault, fairness | the deletion is never undone; a purge that was asked for completes; one confirmation, only after what existed is gone |
| `DeletionLeft`, `DeletionRetry` | 2 requests at most | findings 3 and 4 |

Two purges give every overlap of a list and an erasure of two runs, two requests two
events at once; the row and the profile are two keys, so a batch may leave one of
them. `mails` counts apart the mails of runs that could not write the marker: the
code sends these on purpose ("sending anyway", `main.go:543`).
Fairness (`FairSpec`): a handler or a purge that is not killed runs to its end, and
Lambda starts the events it holds (strong fairness, as both invocations may be
busy). The number of deaths is below the number of starts. One writer is enough:
writers touch only their own rows.

### Access: sessions, pairing, grants, tools

`Sessions` models the rows of `internal/store/sessions.go` with the handlers of
`internal/auth/refresh.go`, of log-out and of the device routes; `Pairing` extends
it with `internal/auth/device.go` and the claim of a bound pairing
(`internal/store/oauth.go`); `McpGrants` models `internal/mcpauth`, which shares
nothing with them. `ToolCalls` models the tool router and two tools behind it
(`internal/tools`) with the dispatcher of mails (`cmd/email-dispatch`). `MCAccess`
holds the scenarios; `PairingProofs` (sessions and pairing) and `AccessProofs`
(grants and tools) hold the theorems.

- `row` is the session row, `index` what the secondary index by session id shows;
  `Replicate` brings it up to date at any time later. A refresh token is the number
  of the exchange that made it, `cur` and `prev` are the two hashes of the row.
- `proc[p]` is an invocation: a refresh reads the index, rotates on the row, and
  after a lost rotation adjudicates whether the token was reused, which lists the
  family and deletes row by row (`list`, `delete`); registration reads and puts the
  device and then binds the session, with up to `MaxUpserts` tries; a revocation
  flips the device and sweeps its family and its bound sessions.
- `held` are the tokens a client has received: an answer may be lost, and a client
  may repeat any token it ever held.
- `pair` is the pairing row; confirmation creates a device and binds it, wrong codes
  are counted and read back in two steps, a poll creates a session and then claims.
- In `McpGrants` every row has the version its transaction compares; the nonce on
  the consent page is modelled by the version of the request. `handler[p]` is what an
  invocation has read. `revokeFamily` tries `Attempts` times. `standing` is the owner's
  account: whether it is active, and the codes and grants older than the last log-out
  everywhere (`cut`). A refresh reads the credential, the grant and the account, and is
  refused for an owner who is not active and for a client that the credential was not
  issued to (`RefreshByStranger`) before it asks whether the credential is spent, in
  the order of `mcpauth/service.go:333-341`.
- In `ToolCalls` a call is an idempotency key. `router[r]` is an invocation: `Invoke`
  claims the key, the handler of the tool follows, and `release` gives the key back
  after the codes that a handler returns only before its effect (`Releasable`).
  `proposal` are the rows of `ghost_confirm.go`: a command is proposed, read back,
  and confirmed by a later call, which deletes the proposal before it sends the
  command. `mail` is the queue, `dispatched` the markers, `dispatcher[d]` a batch.

| scenario of `Access` | bounds | meets |
|---|---|---|
| "tokens" | 1 session, 3 tokens, log-outs, killed handlers, failing calls | chains of refreshes, reuse of every earlier token |
| "outs" | 2 sessions, 2 tokens, log-outs | sign-ins and refreshes against log-out everywhere |
| "bindings" | 1 session, 2 devices | registrations against revocations |
| "names" | 1 session, 2 devices, 1 name | registrations against renames: whole-item puts |
| "codes" | 1 session, 1 pairing, 2 codes allowed, 3 counted, killed handlers | two confirmations, wrong codes among them |
| "claims" | 2 sessions, 1 pairing, 1 device | overlapping claims against a revocation |
| "grants" | 1 request, 2 codes, 2 grants, 4 credentials, 2 scopes, 2 page loads, 2 tries, killed handlers, lost answers, failing calls | everything of `McpGrants` but what happens to the owner |
| "ousted" | 1 request, 1 code, 1 grant, 3 credentials, 1 scope, 1 page load, lost answers | refreshes and reuse while the owner is suspended, reinstated and logged out everywhere |
| "commands" | 3 calls, 1 proposal, 2 arguments, 2 posts each, 2 routers, killed handlers, lost answers | a proposal confirmed by several calls, with its own arguments and others |
| "posted" | 2 calls, 2 mails, 2 posts, 2 deliveries, 2 routers, 2 dispatchers, killed handlers, lost answers | calls posted again, batches delivered again |

The run shows that a refresh token is exchanged once and a pairing answered once
(`TokensOnce`, of the parts `ExchangedOnce` and `OneCredential`), that codes and
credentials of assistants are used once (`UsedOnce`), that used-up wrong codes lock a
pairing unless the handler is killed in between (`LockPending`), and that an ended
family, a revoked device and a session before a log-out everywhere obtain nothing
more (`EndedSilent`), nor does a revoked grant (`GrantShrinks`, `ReuseRevokes`),
whole-item puts notwithstanding (`DeviceKept`). A call of a tool has one effect, a
command is one that was read back, and a mail is sent once (`EffectsOnce`). Two
sessions are one that is ended and one that is being made; two devices are what a
registration moves between; 3 tokens are a token, its predecessor and one before it;
3 calls are a proposal and two confirmations of it.

What the properties do not say, because the code does not promise it: a revocation
whose sweep failed is answered with an error and not counted as complete; a
revocation of an old installation between the bind and the detach of a move signs
out the client that has moved; when a right code is bound while a wrong one uses up
the count, the wrong one is answered "cancelled" although the pairing succeeds
(`device.go:613-622`); `Revoke` of a grant answers success also when the grant cannot
be read (`mcpauth/service.go:485`). A spent credential that is presented while the owner
is suspended or logged out everywhere, or by a client it was not issued to, is refused
without revoking its grant (`service.go:333-338` come before the check of reuse at
341), and `ReuseRevokes` excuses exactly these refusals: a grant that the
suspension does not cut off by itself, being as young, lives on once the owner is
reinstated. An effect may also be missing: a claim whose write
succeeded and whose answer was lost makes every repetition a "duplicate" although
nothing ran, until the key expires. A key lives for 24 hours; the model covers a call
and its repetitions within that time, and the repetitions of one HTTP request that
the AWS SDK makes by itself count as one operation.

### Services: quota gate, phone research, settings, approval, topics, analyses

`MCServices` combines six components that share no state.

`MintBucket` is the token bucket (`quota.go`, `TakeMintToken`): read, refill, and a
write on the pair that was read, `Attempts` times. `VoiceGate` extends it with the
checks of a mint in their order (suspension, bucket, burn, count of live slots,
record), the fallback turn, the redemption of a slot by the bridge and by a phone
call, and the owner's reinstatement. `slot` is `REALTIME#<sid>`, `gate[p]` an
invocation. `anchors` are the values of `BUCKET#burn`, the hour and the tokens the burn
is reckoned from: the read of the row (`quota.go:613`) is eventually consistent, so it
may return any value ever put. The read of the day's tokens (`quota.go:898-905`) is
too, and returns what they were at some instant not more than `Lag` ago; `usedAt`
remembers what they were when each instant began. `Use` is `RecordAlexaUsage`, the one
route that adds to the day's tokens. The model is of one UTC day. `Ops` switches on: a
flush that frees a slot, a log-out everywhere between a token and its connection, a
suspension check that reads a stale profile (the comment says "fresh", the read is
eventually consistent), failing writes, turns. Daily and monthly ceilings only refuse.

What `SuspendedFairly` says follows from these reads: a mint at the start of an hour may
read tokens of up to `Lag` before it and put them as the anchor, so that the hour is
charged with what was used in the last moments of the previous one. A later anchor is
no smaller risk: "a concurrent racer writes an equivalent anchor for the same hour"
(`quota.go:637-639`) is not so, as two racers may have read different usage; but each
anchor of an hour is at least what was used `Lag` before it, whoever put it, and this
bound is what is stated and proved.

`PhoneResearch` is one run: `job` (status, run, command and provider version),
`control` and `attempt` (the provider's rows), `lock` (the voice lock shared with other
calls), `line` (the telephone). `worker[w]` is an invocation of the provider, cut at
each of its calls; `fresh` says which of its copies is still the present one, which
is what a conditional write tests. `seen[h]` is a view on its way to the job. The
telephone may accept, reject or lose a request; budget, calling hours, expiry and
configuration are one choice to block.

`SettingsSync` is the document with one setting, the handlers that read and later put
it (`editor`), the updates on their way to shadows (`pushes`), the shadows, the
messages to and from each device in order, and the device. `listed` is the
secondary index of devices, which lags behind `enrolled`. A delta carries only the
fields that differ, as AWS IoT computes it; the firmware drops a message without a
version and applies the fields of a newer one.

`CodeApproval` is one intention: `intent` is its row, a generation being one life of
it; `approver[p]` is an invocation of Prepare or Approve between its read and its
transaction, `receipts` and `confirmed` what was recorded and what was answered. The
hash of what is approved covers the content, which never changes within a
generation, so it is modelled by the generation. A row whose retention is over counts
as gone before it is removed.

`Topics` is the history of an account. `ClaimConversationSession`,
`LookForConversation`, `Extract`, `CreateTopic`, `PutTopicRef`,
`IncrementTopicConvCount` and `CreateConversation` are an extraction cut at its calls
to the table, `MergeTopics` to `MarkMerged` and `DeleteTopic` to `DeleteTopicRow` the
owner's requests. `young` is the two minutes during which another flush waits for
the first, and "lag" a read that misses the latest write. `released` is history: the
pairs of a topic that a request took refs from and the topic they went to, `NoTopic`
for a deletion. What the model tags a
transcript with is any set of topics it was offered and of new ones.

`RootCause` has a clock. `failure` are the messages of the queue, `cooldown`, `budget`
and `notice` the expiring claims, `analyzer[a]` an invocation, cut at each of its
calls. A message that is not deleted is visible again after `Visibility` and is
delivered then or at any time later, since neither the queue nor Lambda bounds that
from above (a backlog, throttling); "twice" delivers one while it is invisible. No
report has a marker of its own, so an analysis is known by its failure and the
instant at which its delivery read the clock.

| scenario of `Services` | bounds | meets |
|---|---|---|
| "slots" | 3 sessions, cap 1, 2 takers, bucket of 3, clock 0..2 | mints that pass the count together; expiring slots |
| "bridge" | 1 session, clock 0..2, every operation but turns | redemption against flush, log-out, suspension, stale reads, failing writes |
| "burn" | no session, 2 tokens used, burn limit 1, hours of 1, readings at most 1 behind, bucket of 2 without refill, 1 try, clock 0..2 | suspension across the change of an hour, with anchors and usage that lag |
| "turns" | bucket of 3, refill 2, clock 0..5 | takers of the bucket at its rate |
| "stops" | 1 hotel, 2 commands, 4 provider versions, 2 workers, 1 handler | a pause or a cancellation while a call is dialed, and the results that come back |
| "resumed" | 1 hotel, 3 commands, 3 versions, 2 workers, no view | a run that is stopped and taken up again |
| "nextCall" | 2 hotels, 1 command, 6 versions, no view | from one call to the next |
| "edited" | 2 editors, 2 devices, 2 edits, 2 tries of a purge, no messages | put, patch, patch all and revocation |
| "relayed" | 1 editor, 1 device, 1 edit and local choices, 1 message in flight each way, lost and offline | the way to a device and back |
| "approvals" | 2 invocations, 2 request identifiers, 2 generations | copies of approvals, expiry, preparation anew, an owner who is demoted |
| "talk" | 1 session flushed at 2 times, 2 deliveries each, 2 topics, 2 extractions, killed handlers, lagging reads | flushes and extractions that repeat, overlap and die |
| "curated" | 1 flush, 1 extraction, 2 topics, 2 requests | merges, archives and deletions during an extraction |
| "failing" | 2 failures, 2 signatures, 2 analyzers, 2 deliveries, visible after 1, cooldown 1, notice window 1, days of 2, 1 analysis a day, clock 0..2, killed analyzers, lost answers | one signature or two, on one day or two, a redelivery within the cooldown and after it |
| "twice" | the same, clock 0..1, messages delivered while invisible, nothing lost | a message with two analyzers |

The run shows: the bucket never gives more than its rate (`SpentWithinRate`); live
sessions overshoot the cap by no more than the mints that ran together
(`SessionsBounded`); nobody is suspended for less than the limit, reckoned from `Lag`
before the hour (`SuspendedFairly`); a session is opened once and not by a token that was cut off
(`OpenedOnce`); a hotel is dialed once and calls never overlap (`CallsSafe`); what is
said to be stopped is silent (`StoppedSilent`); a removed override stays removed
(`OverridesForgotten`); a version desires one thing (`DesiredTruthful`); one approval,
of what was reviewed (`ApprovedAsReviewed`); a session has one conversation, found
under its topics, or where a merge took them, and counted once (`HistoryIndexed`); an
analysis is paid for and reported once, those of one signature lie more than a cooldown
apart, and a day has no more than its budget (`AnalysesBounded`).
`SettingsConverge` (one device, two
edits, nothing lost, fairness: handlers end, messages arrive) is finding 5.

The cap of 1 with two takers and three sessions lets the overshoot happen; two hotels
are the present and the next one; two commands are a run and its stop, three also its
resumption; two devices are the revoked one and another whose edit must survive. Names of
sessions and of signatures are interchangeable, so that the sessions are taken in order
and the failures occur in theirs (`SessionsInOrder`, `FailuresInOrder`).

Facts about the code that the models follow rather than the comments: nothing writes
the seconds of a day (`azure-migration-plan.md:148` says they are metered), so daily
ceilings never bite; the header of `quota.go` names a burst of 3 and one token in 5 s,
the constants are 6 and 3 s; an infrastructure error of the check before a phone mint
is overwritten (`phone_session.go:122`) and the mint proceeds (not modelled). In
settings, a PATCH that finds a revoked device in the lagging index may give it an
override after the purge (`late` excuses exactly that case); errors of the purge are
only logged; `deviceInitiatedBump` (`shadow-ingest/main.go:163-210`) cannot be reached
by this firmware, which never raises its version. An approval that was checked before
the expiry may be recorded after it.

In topics, a writer that ends between a ref and its count loses the count for good
(`uncounted` excuses it); a merge that is repeated after a crash counts nothing of
what the first one moved, although `topics.go:837` calls a re-run safe; an extraction
that races a merge may leave a ref under the merged source, and two opposite merges
may drop refs. `HistoryIndexed` therefore looks for a conversation of a merged topic
under the destination, and gives up only if that was merged or deleted in turn or the
topic was deleted; counts it compares for topics of which no merge or deletion was
begun. A dead extraction may leave a ref whose conversation does not exist, which no
property forbids (the history skips it).

In root-cause analysis a failure that may pass sends the message back "will be retried"
(`analyzer.go:421`), but a redelivery within the cooldown finds what its first delivery
claimed and is dropped. One after the cooldown is analysed, paid for and mailed again:
the comments that a redelivery "loses the cooldown claim" and "sends no second email"
(`cmd/rca-analyzer/main.go:34-37`, also `analyzer.go:501-503`) hold while the cooldown
lasts, and nothing makes the redelivery come before that. With the template's default of 60 minutes it
takes a backlog; with its least allowed `RcaCooldownMinutes` of 1 the 6 minutes of
invisibility suffice. `AnalysesBounded` states what is left in general. The comment on
`confirmation_required` is older than the registry's codes.

## 3. What is proved

Eight modules hold proofs; each result holds for any number of the actors named and
any value of the bounds.

`JobsProofs` begins with lemmas about the operations of `JobRecord`, for arbitrary
limits and schedules: each maps a well-formed record to a well-formed record of the
next version (`Successor`). And each does one thing only to the runs
(`Derived`, `Evolves`): none is lost, because what leaves the record travels with the
write; a finished run keeps its outcome; the others keep their content; at most one is
added, and that is a fresh run or the first retry of one that failed, while this one
and its retry are retained together (`Linked`). From these lemmas the inductive
invariant says that the stored record is always in order (`RecordBase`: well formed,
nothing evicted left in it, `Linked`, and pending work only of the current generation
of an active job), and `WritingSteps` reduces every step of `Jobs` to what it is for
the record: a creation, a commit, the system's own work, a suspension, a purge.

| module | theorem | states | argument |
|---|---|---|---|
| `JobsProofs` | `TypeCorrect` | `[]TypeOK` | one lemma per kind of action; commits cite the lemmas about the operations |
| | `SnapshotsAreCurrent` | `[]SnapshotsCurrent` | inductive with `TypeOK` and `PurgeIsFinal` (`Current`): every write carries the next version, and a create needs an active account, which a purged job does not have again |
| | `AppliedAtMostOnce` | `[]AtMostOnce` | inductive with `CommandsHold` (a command is committed on the version it names) and `AppliedBehind` (a command that was carried out names an older version than the record); the bounded receipts play no part |
| | `PurgeLeavesNothing` | `[]PurgeComplete` | inductive with `Purged`: after the listing, what exists was listed |
| | `ImplementsAtomicJob` | `ActsAtomically` | refinement under the identity on `rec`, `ledger`, `account` and `now`: a commit on an unchanged version computes from the current record (`SnapshotsCurrent`), so it is the atomic operation at the instant of the write; every other step stutters |
| | `PendingStaysCurrent`, `OutcomesStay`, `AccountFenced` | `[]PendingIsCurrent`, `OutcomeFinal`, `AccountFence` | from `RecordBase` and what each writing step does to the record |
| | `RetriedOnce` | `[]RetryOnce` | inductive with `LedgerFollows` (the history names exactly the runs that were made, with the work they were made for) and `RetriesLinked`: the check for an earlier retry reads the record only, and is enough because a run that is retained is retained with its retry |
| | `OccursOnce` | `[]OccurrenceOnce` | inductive with `SlotsPast`: an occurrence that became a run lies before the schedule's next one, and not after the instant at which a handler that can still commit has read the clock |
| | `AnswersAgreeAlways` | `[]AnswersAgree` | inductive with `AnswersTrue`: whoever was answered, or will be from a receipt, is told of one run, and nobody before the command was carried out |
| | `LedgerTellsAll` | `[]LedgerComplete` | if nothing takes the account's grant ("revoke" and "purge" are no events): a write archives all it changes or evicts, and only a suspension archives nothing |
| | `CancelledForGood` | `CancelStopsRuns` | if a lost grant is not given back ("reinstate" is no event): while the account is active no write takes a job out of "cancelled", and without it no run is made; finding 1 is what happens otherwise |
| `CodeUpdateProofs` | `StartedAtMostOnce`, `TokensStayLive`, `OwnerToldOnce` | `[]OneSession`, `[]TokensLive`, `[]ToldOnce` | inductive together (`Safe`): the delivery that created the token row is the only one that carries the request on (`Carrier`), no session exists before its launch, the owner hears of it in its last step, and a request without a token row was told nothing (`Unminted`) |
| | `ProgressStaysBounded` | `[]ProgressBounded` | mails sent plus posts claimed but not yet sent are at most the claims in the row (`Claimed`) |
| `AccountDeletionProofs` | `TypeCorrect` | `[]TypeOK` | one step per action |
| | `DeletionIsFinal` | `DeletionFinal` | every write of the status looks at the status, or marks |
| | `MailMeansErased` | `[]ErasedBeforeMail` | inductive with `Purged`: purges only work on a marked account (`Asked`), a writer that has its row in the partition does not write again (`RowsWritten`), and what existed at the mark and still exists is on the list of every purge that has listed (`Listed`) |
| | `ConfirmedAtMostOnce` | `[]ConfirmedOnce` | inductive with `Sole`: a run that is about to send with a marker of its own created it and is alone |
| `PairingProofs` | `PairingTypeCorrect`, `TokensGivenOnce` | `[]TypeOK`, `[]TokensOnce` | inductive together (`PairingIInv`): a live session's token is one more than the number of its exchanges, whatever old copy the index shows (`RowOK`), so the conditional rotation cannot count one number twice; a paired device has one pairing, and its sessions have tokens only through the one claim of it (`DevicesInv`, `Owned`) |
| | `EndedStaysSilent` | `EndedSilent` | what a sweep has still to delete is in the X of `Dying`, `Gone` and `Out`, which say that a session outside X can no longer be exchanged; at its listing every session is in X, each deletion takes one out, and new sessions of the family, bindings to the device and tokens of the generation cannot appear (`EndInv`, `SweepOK`) |
| | `DevicesKept` | `DeviceKept` | a put is conditioned on the name that was read, and what a registration read of a device that is revoked meanwhile cannot be put (`RegisterOK`) |
| | `LockIsPending` | `[]LockPending` | inductive with `PairingIInv` |
| `AccessProofs` | `GrantsTypeCorrect`, `YieldsOnce` | `[]GrantTypeOK`, `[]UsedOnce` | inductive together (`GrantIInv`): rows refer to rows that exist (`RowsOK`), and what a handler read is what it will compare (`Valid`): a version that is still the same means a row that is still the same |
| | `GrantOnlyShrinks`, `ReuseEndsGrant` | `GrantShrinks`, `ReuseRevokes` | action properties of every step from `GrantIInv`: of a client's own spent credential, with the owner active, no refusal is left but those that found the grant ended or ended it |
| | `ToolsTypeCorrect`, `EffectsHappenOnce` | `[]ToolsTypeOK`, `[]EffectsOnce` | inductive together (`ToolsIInv`): a call that is not claimed, or that an invocation works on, has had no effect; a proposal is gone before its command is sent; a message is claimed before it is mailed and is then with one dispatcher |
| `VoiceGateProofs` | `BucketTypeCorrect`, `RateHolds`, `GateKeepsRate` | `[]BucketTypeOK`, `[]SpentWithinRate` | tokens given plus tokens left are at most the capacity and the refills up to the bucket's own instant, which is at most the clock; for the bucket alone and for the whole gate |
| | `GateTypeCorrect`, `SessionsStayBounded`, `SuspensionsAreFair`, `SessionsOpenOnce` | types, `[]SessionsBounded`, `SuspendedFairly`, `OpenedOnce` | inductive together (`GateIInv`): live sessions and those being minted are counted together, and only a count that found room adds one (`RoomInv`); the day's tokens only grow, and an anchor of an hour, whoever put it and however late it is read, is at least what was used `Lag` before the hour (`MeterInv`); a slot is written and redeemed by one (`SlotsInv`) |
| `PhoneProofs` | `PhoneTypeCorrect`, `CallsStaySafe` | types, `[]CallsSafe` | inductive together (`PhoneIInv`): an attempt that is not over holds the lock, and the invocation that reserved it is the only one that dials it (`CallsInv`) |
| | `StoppedStaysSilent` | `[]StoppedSilent` | the same invariant: an invocation acts on a command only while its copies are the present ones, a row that says paused or cancelled was saved when no attempt was open and nobody was on the way to one, and the job follows the row (`StopInv`) |
| `ServicesProofs` | `SettingsTypeCorrect`, `OverridesStayForgotten`, `DesiredIsTruthful` | `[]SettingsTypeOK`, `[]OverridesForgotten`, `[]DesiredTruthful` | inductive together (`SettingsIInv`): a version is written once, so that of the handlers that prepared it all but one have lost; what a handler that can still win will write respects the purges so far (`Pending`), since a purge moves the version on even when it removes nothing; and no version later than the present one is desired |
| | `ApprovalTypeCorrect`, `ApprovedAsWasReviewed` | `[]ApprovalTypeOK`, `[]ApprovedAsReviewed` | inductive together (`ApprovalIInv`): a generation that was drawn and is not written is in nobody else's hands (`Drawn`), a row of version 1 has no receipt and one of version 2 has the one that was recorded (`RowHolds`), and an approval that passed its checks saw version 1 (`Passed`) |
| | `RcaTypeCorrect`, `AnalysesStayBounded` | `[]RcaTypeOK`, `[]AnalysesBounded` | inductive together (`RcaIInv`): an analysis that has claimed its signature, or has asked, lies more than a cooldown from every other of that signature, since whoever finds the cooldown free is later than all it was claimed for (`ClaimsOK`); so an analysis is claimed by one analyzer, which asks and reports once (`WorkOK`); those of a day that were asked for, or are about to be, are at most its units (`BudgetOK`); a notice claims its window (`NoticesOK`) |
| | `TopicsTypeCorrect`, `HistoryStaysIndexed` | `[]TopicsTypeOK`, `[]HistoryIndexed` | `HistoryInv`: the key of a conversation is its session with the time of the session's claim, which is never renewed (`ConvSound`); an extraction files a conversation under a topic before it writes it (`ExtractionSound`), and a merge has recorded its destination before it takes anything from the source, and filed there what it takes (`RequestSound`). `CountsInv`, inductive with it: the references of a topic exceed its count and what running handlers have yet to count by nothing, or by what a dead handler left uncounted (`Balance`) |

The assumptions are those named in the modules (`LimitAssumption`,
`InstanceAssumption`, `BucketAssumption`, `GateAssumption`, `PhoneAssumption`,
`PairingAssumption`, `GrantAssumption`, `ToolCallsAssumption`, `SettingsAssumption`,
`ApprovalAssumption`, `RootCauseAssumption`, `TopicsAssumption`): limits and bounds are naturals, positive where the code divides
by them or counts down from them, names of different kinds of things differ, and the
values that stand for "none" are none of the others. `GateAssumption` has finite sets
of invocations and sessions, as the overshoot is reckoned from their number.
TLC evaluates all of them in the runs.

`TypeOK` of the proved modules, `SnapshotsCurrent` and `TokensLive` are proved and
therefore not checked by a run. The strengthened invariants were checked by TLC on
the instances of the runs before they were proved. Every safety property and every
action property of the passing runs is now the statement of a theorem. Only
model-checked remain the liveness properties (`OccurrenceServed`, `RevokedLeavesQueue`,
`Resumed`, `Told`), which are out of the prover's reach, and the counterexamples behind
the findings.

## 4. Findings

1. `JobsCancel`: `SuspendInactive` (`internal/jobs/dynamo.go:333`) writes the status
   "paused" whatever it was. A worker that found the account inactive reads the job
   afterwards; if the owner cancelled it in between, the cancelled job becomes a
   paused one, and once the grant is back a resume starts it again. The front end
   promises "Stop future runs" (`web/static/js/jobs.mjs:289`) and both `Update` and
   `Action` treat a cancelled job as final.
2. `CodeUpdateRetry`: the token row is written before the launch and every later
   delivery that finds it is dropped (`dispatch.go:174-182`). An upstream error is
   returned to the queue because it "is worth one more attempt" (`dispatch.go:246-247`;
   also `cmd/codeupdate-dispatch/main.go:34`, "A duplicate delivery re-mints the token
   and re-launches"); for that reason no further attempt is ever made, and a worker
   killed in between loses the request without a word, "the worst outcome here"
   (`dispatch.go:437-438`).
3. `DeletionLeft`: the mail says that "all associated data" have been deleted
   (`cmd/account-purge/main.go:551-553`), but what is written after the purge has listed
   the partition stays; a sign-in refuses only disabled accounts
   (`internal/auth/access.go:111`) and the allowlist entry is removed after the listing.
4. `DeletionRetry`: when the purge cannot be invoked the member is asked to retry, and
   "the caller can retry the DELETE, which re-invokes idempotently"
   (`account_routes.go:346-347`). The retry finds the status "deleting" and is accepted
   without invoking anything (304-306): the account stays marked and its data stay.
5. `SettingsConverge`: `contracts/shadow.md:106-107` says that "the device just
   eventually converges to the latest `desired`". A value that is changed and changed
   back while the device has not reported yet leaves a device with the new version
   and the old value: the last delta carries the version and no value, the one after
   it a value and no version, which the firmware drops (`ln_iot_shadow.c:133`), and
   `shadow-ingest` compares versions alone. A reconnect does not heal it.

## 5. What is not modelled, and the plan

What the modelled components leave out:

- Jobs: paging of lists and history (read only), the quarantine of rows that do
  not decode, several jobs sharing the due index.
- Phone research: evidence of calls, the second run of a job, the first authorization
  of an operation (it only refuses).
- Sessions: expiry of sessions (it only refuses), a stale profile,
  `RotateDeviceSession` (no handler uses it). Pairing: the text of codes, rate limits.
- MCP: PKCE and resource checks, expiry of rows, limits on clients, access tokens. (The
  refusals for an owner who is not active and for another client are modelled.)
- Dispatch: who queues a request, the expiry of the token row after a day, the
  recheck of the owner's account on a progress post. The launch service may start a
  session and lose its answer; the owner is then told that nothing started although a
  session runs, and no property says otherwise (`ToldOnce` is about the opposite).
- Approval: the catalogue of repositories and machines, lists, the content of actions.
- Quota: daily and monthly ceilings, warnings, the roll-up of usage, which writes
  totals while `RecordAlexaUsage` adds to them.
- Tools: the other tools, the checks of arguments and surfaces, the 24-hour life of a
  key. Mails: other producers of the queue.
- Topics: the transcript and what the model makes of it, paging.
- Root-cause analysis: the content of records and reports, suggestions, the count of
  suppressed failures, the second kind of notice.
- Deletion: files, IoT things, device partitions and memories, a stale read of the
  profile, the expiry of the marker, accounts without a mail address.
- Settings: that `SettingsSync.TakeDelta` compares the version and applies the fields in
  one step, while the firmware does them one after the other (only `SettingsConverge`
  depends on it); the fields of the document and their validation, patches of several
  devices at once, deletion of the account (which starts versions anew).

The components that have no module are in `PROJECT.json` with the reason. Worth
modelling next, in this order: the due index with several jobs and quarantine, the
authorizer's cache, the answer of an Alexa turn, the session orchestration of the
clients. What is left to prove belongs to them: no safety property that is checked
today lacks its theorem.
