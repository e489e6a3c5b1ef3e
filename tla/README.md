# A TLA+ model of trollbridge

trollbridge is a forward proxy for coding agents. Every request is matched with
operator lists and rules; what they do not settle is *held* until an operator,
an LLM advisor or a timer decides. Decisions are written to the configuration
file, which the daemon (and everybody with an editor) keeps rewriting and
reloading, every answer is recorded in an audit log, and operators watch and
decide in a terminal UI, in the daemon's process or far from it.

The program's core is mostly not in its algorithms but in what meets in them: request
handlers, hold timers, operators' calls, the advisor's goroutines, the writer
of the audit log, the file watcher, polls of the UI, scans for suggestions and shutdown.
The modules here model those meetings, one atomic step per critical section,
channel operation or system call; where there is an algorithm (matching, subsumption,
rules, generalization, the rows of the UI) it is an operator, used by the state machines.

## 1. Inventory

State, operations and what makes each part correct.

| Component (source) | State | Operations | Correct when | Covered |
|---|---|---|---|---|
| Approval queue (`internal/approvals`) | holds by id and by dedup key, waiters' channels, `maxPending`, `onTimeout` | Enqueue, Wait (answer, timeout, disconnect), Approve, Deny, ResolveByAdvisor, Shutdown, Reconfigure | one verdict per hold, told to all who still wait; no slot without a waiter; no handler blocked for ever; persisted once, and only an operator's verdict | `ApprovalQueue`, `HoldContract`: TLC, TLAPS |
| Audit log writer (`internal/audit`) | bounded channel, writer goroutine, `closed`, `stopCh`, level, counters | New, Write (block, drop, deny), SetLevel, Close, writeLoop | accepted entries reach the file once and in order; Close flushes; each Write is accounted for; nobody blocks for ever | `AuditLogger`: TLC, TLAPS |
| Request pipeline (`server/server.go`, `internal/opstream`) | per handler: decision, answer; operations ring; tracked tunnels; context | handleHTTP, handleConnect, holdAndWait, writeAudit, writePostSignalAudit, ListenAndServe, finishServe | a held request is forwarded only by an allowing verdict (also a timer's, with `on_timeout: allow`); every answer has an audit entry; ring rows follow requests; the proxy itself keeps no request waiting for ever | `RequestPipeline`: TLC, TLAPS |
| Deciding (`internal/policy`, `hostlist`, `pattern`, `server/openmode.go`, `internal/advisor`) | lists, rules, version, mode, history ring, open window, verdict cache, counters | fastPathDecide, Engine.Decide, Reload, SetMode, SetLists, ReloadConfig, History, extend and close, Classify | deny wins through reloads; a body rule fails closed; subsumption implies matching; a cached verdict is fresh; counters add up | `Matching`, `PolicyRules`, `Decision`: TLC, TLAPS |
| Configuration file and reload (`internal/configwrite`, `configwatch`, `reloadstatus`, `cmd/trollbridge/run.go`) | the file, its mtime, the matcher's lists, `Server.cfg`, the watcher's `seenMTime`, the reload badge | OperatorApprove, OperatorDeny, removals, Generalize, AddDeclinedSuggestion, atomicWrite, reloadAfterInternalWrite, MarkReloaded, maybeFireReload | a decision leaves its pattern on one list; no edit undoes another; matcher and pointer follow the file; the badge tells when they do not | `ConfigStore`: TLC, TLAPS |
| TLS interception (`server/intercept.go`, `tls_diag.go`) | per tunnel: buffered reader, deadline, current inner request, rebound CONNECT row | handshake, read, sample and drain of the body, hold with a Peek that watches for disconnects, forward, loop | entry, row and verdict agree; no byte of the next request lost; a watcher never outlives its hold | `InterceptTunnel`: TLC, TLAPS |
| Suggestion manager (`internal/suggestion`, `internal/generalize`) | the active suggestion, the session's declined and skipped sets | Tick, SuggestNow, produce, Accept, acceptPattern, Decline, Skip, revalidateActive | an offer is about lines that are still there; answered once; accepting changes no decision but as accepted; what is settled does not come back | `Generalize`, `Suggestion`: TLC, TLAPS |
| Control plane, client, console (`internal/control`, `controlclient`, `console`, `attach.go`) | none of its own | approve, deny, accept, skip, scan, list edits, open and close; a timeout of five seconds | an answer tells what happened, whatever scans do to the offer meanwhile; an answered edit is in force, also after a restart | `ControlPlane` over `ConfigStore`: TLC, TLAPS |
| TUI (`internal/tui`) | `Model`, the event channel, the console worker's queue | keys, polls, results of calls and commands | the cursor stays on the operator's hold; panels show the file; the loop goes on | `OperationsPane`, `BottomPanel`: TLC, TLAPS |
| CA, sessions, identity, redaction, configuration schema, operations log, refusal pages, lint, setup plans, updater, command line, test harness | files, tables | see PROJECT.json | sequential code with unit tests | not modelled |

### How the parts interact

- A **handler** (one goroutine per request) reads the allow list, then the deny
  list, then the engine, then the open-mode window; an `ask_user` decision goes
  to the **queue**. Retries of one URL by one identity *coalesce* into one hold.
- A hold is decided by an operator (TUI, console, `/v1` control plane), by the
  advisor's goroutine, by the timer of any of its waiters, or by Shutdown. All of
  them call `claim` under `Queue.mu`; the winner broadcasts on the waiters' one-slot channels.
- An operator's verdict goes on, through a callback, to **configwrite**, which
  rewrites the file and reloads it; the **watcher** does the same for external edits,
  SIGHUP for both files.
- With `signal_after_seconds`, the handler stops waiting and answers 471; the
  hold goes on, and a follow-up goroutine records its outcome.
- Every handler ends in `writeAudit`, which calls **audit.Write** and resolves the
  row of the request in the **operations ring**. The **TUI** polls ring and queue, and
  lays the two over each other.
- A **suggestion** is made from the lists in quiet moments, ranked by the advisor, and
  accepted, declined or skipped by operators; accepting it edits the lists or a rule file.
- `shutdownOnContext` cancels the context, sweeps the queue, and calls
  `http.Server.Shutdown`; `ListenAndServe` meanwhile closes the audit log.

### Hard behaviours

They are listed with their lines in PROJECT.json ("hazards"). In short: four kinds
of resolver racing for one hold; disconnects of some of several coalesced clients;
timers firing while an answer is on its way; sends to a channel whose reader is
leaving; a signal timer racing the verdict; read-modify-write of one file by
callers that share no lock; a watcher that must ignore the daemon's own writes but
nobody else's; three goroutines that reload at once; a cache that outlives what it was
asked under; polls that land after the key they precede; calls that are lost, late or
given up; an offer about lines that are gone; a restart or a shutdown between any two of these.

## 2. Modules

| Module | Models | Composes |
|---|---|---|
| `HoldContract` | what the queue promises, without locks, channels, timers or indexes | - |
| `ApprovalQueue` | `approvals/queue.go`, every operation | refines `HoldContract` |
| `ApprovalQueueProofs` | proofs about `ApprovalQueue`, the refinement among them | |
| `AuditLogger` | `audit/audit.go`, every operation | - |
| `RequestPipeline` | `server/server.go`'s handlers and shutdown, `opstream.go` | takes its queue from `HoldContract` (INSTANCE); its audit log is the outcomes of `AuditLogger`'s Write |
| `RequestPipelineProofs` | proofs about `RequestPipeline` and `AuditLogger` | |
| `InterceptTunnel` | `server/intercept.go`: one goroutine per tunnel and the watcher of its hold | takes its queue from `HoldContract` (INSTANCE) |
| `InterceptTunnelProofs` | proofs about `InterceptTunnel` | |
| `ConfigStore` | `configwrite`, `configwatch`, the reload of `run.go` | - |
| `ConfigStoreProofs` | proofs about `ConfigStore` | |
| `Matching` | `hostlist.go`, `pattern/`, the pattern clause of `policy/rule.go` (operators) | - |
| `PolicyRules` | `policy/rule.go`, `timewindow.go`, `history.go`, `Engine.Decide` (operators) | extends `Matching` |
| `Decision` | deciding one request while lists, rules, mode, window, clock and cache change | extends `PolicyRules` |
| `DecisionProofs` | proofs about `Decision` | |
| `Generalize` | `generalize/generalize.go`, the detectors (operators) | extends `Matching` |
| `Suggestion` | `suggestion/`, `configwrite`'s Generalize and AcceptPatternSuggestion | extends `Generalize` |
| `SuggestionProofs` | proofs about `Suggestion` and `Generalize` | |
| `ControlPlane` | the endpoints that change state, their clients, the console's edits | drives `ConfigStore` (INSTANCE) |
| `ControlPlaneProofs` | proofs about `ControlPlane` | |
| `OperationsPane` | the upper half of `tui/reducer.go`, its polls and calls | - |
| `BottomPanel` | the lower half of `tui/reducer.go`, `runLoop`, the console worker | - |
| `OperatorUIProofs` | proofs about `OperationsPane` and `BottomPanel` | |
| `MC*` | the instances for TLC | |

### ApprovalQueue

`items`, `byKey`, `waiters`, `resolved` are the fields of `Queue` and `Hold`; a hold
is named after the request that opened it, since ids are fresh UUIDs. Code under
`Queue.mu` is one step (`Enqueue`, `Claim` inside each resolver, `CancelWaiter`,
`Shutdown`, `Reconfigure`). What the code does after the unlock is split: a
resolver's `job` goes from "send" (one step per waiter's channel) to "persist" (an
operator's callback). `Wait` is the program counter `pc`: "enqueued" (before the
timer is armed), "select", "fired" (the timer's case was taken and `onTimeout` read,
but the hold not yet claimed), "sending", "receive" (lost the race: a receive without
a timer), "done". `Background` are the waits that cannot be cancelled, `Advised` the
requests that the server also sends to the advisor. `verdict`
is a history variable: the decision of whoever claimed the hold.

### AuditLogger

A Write is three steps: the `closed` load, the level load, the select. `SendEntry`
and `GiveUp` are the select's cases; with room *and* `stopCh` closed either may be
taken, as in Go. The writer goroutine's select, its encoding of the entry in hand
and its drain are separate steps, so that Close can fall between any two. `sent` and
`sentAtStop` are history variables.

### RequestPipeline

The program counter's labels name the calls in their order: "allow list", "deny
list", "engine", "open mode", "enqueue", "hold row", "wait" or "race", "resolution",
"resolved", "forward", "tunnel", "audit", "row", "done". `fastPathDecide`'s two reads
are two steps because each takes `listsMu` by itself. What a list contains and what
the rules say is data: a set of keys, and an effect for each key (`Decision` has the
lists and rules themselves). `wire` is what the
client was told: the codes 470 (refused) and 471 (signaled), "origin", "failed".
The queue's variables are those of `HoldContract`, whose actions are the steps here:
that is sound since `ApprovalQueue` implements it, which is proved. `TimeoutVerdicts` are
the decisions that a timer may take: `ask_user_timed_out`, or with `on_timeout: allow` an
allowing `approval_timeout`, by which a held request is forwarded.

### InterceptTunnel

What a client sends is a sequence of parts, `script[t]`: heads, and pieces of bodies
by what the code does with them (taken by the inspection sample, drained before a
hold, longer than both). `written`, `fetched` and `used` count the parts that are on
the connection, in the `bufio.Reader`, and read from it: the difference of the last two
is what a Reset throws away, which `discarded` remembers. `pc` follows
`interceptCONNECT` and `dispatchInterceptedRequest`; "unwatch", "interrupt"
and "joining" are the select on `peekDone`, the read deadline in the past, and the
receive with the Reset. `watch` is the watcher's goroutine, `buffered` is
`bodyFullyBuffered`, `rebound` is `connectRebound`. Rows of the operations ring are
those of inner requests, of the CONNECT, and of a failed handshake. The decision
without a hold is any of three outcomes: `RequestPipeline` has its steps.

### ConfigStore

One `mutate` is a `Read` (with the early return when nothing changes) and a `Write`
(the rename) or `WriteFails`; an operation is a sequence of edits, OperatorApprove
and OperatorDeny have two. When the operation reloads, and what it does after an
error, depends on the caller, as in `run.go` and `console.go`. `mtime` counts writes
(two writes in one clock tick of the file system are not modelled); `seen` is
`Watcher.seenMTime`. `Generalize` adds its line to one list without a look at the other, as
`configwrite.Generalize` does, and it and `AddDeclinedSuggestion` reload after every edit that did not fail,
changed or not. Two history variables: `raced`, some edit overlapped other work; `unrecorded`, a line that does not
compile went on or off a list since a reload last recorded its outcome.

### Matching, PolicyRules, Decision

A list line is the record of its parts after `parsePattern`; a host is the sequence of
its labels, a path that of its segments, because every prefix or suffix the code
compares begins at a dot or a slash. A rule is the record of its clauses, a clause `{}`
or `""` the absent one; a regular expression is the set of strings that it matches. Time is in
minutes from a Monday, so that a window over midnight is arithmetic.
`Decision` has one program counter per handler ("idle", "lists", "engine", "gate", "held",
"record") and one for the advisor goroutine it started ("start", "lookup" once the rule-set version is read,
"hit" or "asked" once the cache is: the two reads are under two locks, and a reload may come between); each reloader (watcher, own
write, SIGHUP) goes through load, lists, rules, pointer and mode in its own order. The rule-set version is the
content of the rules it was computed from. `denied` and `raced` are history variables.

### Generalize, Suggestion

The detectors are set comprehensions over lines: groups by method, by path segment, by
host prefix and by the components of a recognized pattern. Of a group the advisor is asked about `MaxCandidates`
at most; a set of sources has four candidates at most, so the default of eight cuts none. A scan is "detecting" (lists
read), "asking" (the advisor ranks) and stored; the tick's scan and `SuggestNow`'s may overlap,
and so may two answers. An accept is several steps: the offer is
cleared under the lock, then the rule file or the list is written, then reloaded. Restart
keeps the files and forgets the session. The rule file is a sequence, for its order decides. `file.enabled` is the
switch of the LLM configuration (`Toggle` is an editor's change of it): while it is off, Tick and SuggestNow return
before they look at what is offered. `Decided` is what the files say of a request: the deny list, then the
allow list, then the first rule that fires. An offer carries, as history, the sets that were
settled when its scan began.

### ControlPlane

One call per operator, `phase` from "unmade" over "sent", "serving", "reply" to "over"; a remote
call may be lost, given up (the daemon goes on, unknowing), or cut off by `Restart`.
Edits are the steps of `ConfigStore`'s writer of the same name. The hold, the offer and
the window are reduced to what a call can tell of them. Offers have fresh ids: a scan on demand clears what is
offered (`SuggestNow`), goes on without the lock, and stores what it found in place of what another scan or the
ticker has stored meanwhile (`ScanEnds`, `TickEnds`); `revalidateActive` withdraws. A decline puts another axis in
place under the same id, and after the last one writes the declined row and reloads; the row may fail to be written, and
the call is then told so. `Gist[o]` is what an offer would write. Its pattern is that of the axis which the offer has
come to when it is accepted: an offer is accepted once at most, so one pattern for each offer loses no behaviour.
Accepts of pattern rules (`acceptPattern`) are in `Suggestion` only.

### OperationsPane, BottomPanel

In `OperationsPane` the daemon is the queue and the ring as the UI sees them (a row appears, its hold is
enqueued, then marked on the row, then resolved). `Displayed` is `DisplayedOps` with its folding and
the rows it makes up for holds the ring does not show; `Preserved`, `Clamped` and
`Stuck` are `preserveSelection`, `clampSelection` and `applyCursorPendingStickiness`. `late` is a
poll that was read before a change and lands after it. `BottomPanel` has the event channel as the number of
keys in it and the results, the console queue, its worker and the re-reads; the lists
are abstracted to a version number.

## 3. Runs

| Run | Shows |
|---|---|
| `queue` | the safety invariants of the queue, that it implements `HoldContract`, and that whoever entered is answered; all resolvers, timers, disconnects and reloads in every order |
| `audit` | conservation and order of entries, flush on Close, accounting, every Write and Close returns |
| `pipeline` | who is forwarded, what the ring shows, what the log records, with two requests that may share a hold |
| `pipeline_live` | every request that was read reaches the origin or is finished, the follow-up of a signaled one ends |
| `config` | lists, matcher, pointer and badge as long as edits do not overlap |
| `tunnel` | who is at the reader and what it loses, entries, rows and verdicts of inner requests, a disconnect ends its hold |
| `decision` | deny through reloads, the daemon follows its file, cache and counters, padding, subsumption |
| `suggestion` | accepting keeps decisions, what is settled stays away, one answer per offer, stale offers go |
| `control` | what an answer may say, and what is in force when all is quiet |
| `tui_operations` | rows and cursor of the operations pane |
| `tui_panels` | the list editor and the results of commands |
| `tui_responsive` (violation) | the event loop waits for itself |

Properties, by the question they answer:

- *Who decides.* `OneAnswerPerHold`, `PersistedOnceByOperator`,
  `HeldRequestObeysVerdict`, `EntriesRowsAndVerdictsAgree`, `StandingDenyIsObeyed`
  (a request that the deny list matches all the time it is decided passes by nothing but
  the open window), `PaddingIsNoEscape` (a body too long to be sampled gains nothing),
  `AdviceIsFresh` (of what the cache key tells apart: identity, method, scheme, host, port and path,
  rules and age; not headers, body or lists. The rules are those of the version that was read for the request: a
  reload after that reading is not seen).
- *Who still waits.* `NoLeakedSlot`, `AbandonedOnlyWhenAllLeft`, `NoLostWakeup`,
  `EveryWaiterReturns`, `EveryRequestIsSettled` (at the origin or finished: the proxy bounds neither a client that sends
  its body nor an origin that answers), `SignaledHoldIsFollowedUp`,
  `EveryCallReturns`, `DisconnectEndsHold` (of a client that has not pipelined its next
  request: the Peek returns that at once, and a later disconnect is not noticed).
- *Who reads.* `WatcherHasReaderAlone`, `PatientClientsLoseNothing`: two goroutines share
  a tunnel's reader during a hold; most of the code around the hold is there to part them.
- *What is recorded.* `NothingLostOrReordered`, `FlushedOnClose`, `EveryWriteIsAccounted`,
  `EveryAnswerIsAudited`, `OpsRowsFollowRequests`, `EveryConsultIsCounted`.
- *What the file says.* `OnOneListUnlessRaced`, `NoUpdateIsLost` (an action property),
  `DaemonFollowsFileUnlessRaced` (of `ConfigStore` for lists, pointer and badge; of
  `Decision` for lists and mode). The names say that they are conditional: without the condition they are
  false (section 4). `OnOneListUnlessRaced` says that a decision takes its pattern off the other list and that
  nothing but an edit which only adds (a generalization, an editor's) puts one on both;
  `DaemonFollowsFileUnlessRaced` exempts the badge, not the lists, while `unrecorded`.
- *What may be narrowed or offered.* `SubsumptionIsSound`, `AcceptKeepsDecisions`,
  `DecidedIsNotOfferedAgain`, `OfferIsAnsweredOnce`, `StaleOfferIsWithdrawn`. Three are conditional, for the reasons
  of section 4. `AcceptKeepsDecisions` compares what the deny list, the allow list and the rules, in this order, say of
  each request before and after each write of an answer, and exempts: the path `/a` of a synthesized
  `/a/*`; a new rule that is asked too late (an overlapping line of the allow list, an earlier rule); and sources
  whose rule was made for the other list. `DecidedIsNotOfferedAgain` exempts synthesized offers.
  `StaleOfferIsWithdrawn` holds while suggestions are on.
- *What the operator sees and is told.* `EachHoldHasOneRow`, `CursorStaysOnOpenRows`,
  `PollsKeepTheHold`, `QuietListsAreCurrent`, `ResultsDoNotYank`, `AnswersTellTheTruth`,
  `AnsweredEditIsInForce`.

Each of them has a mutant, a one-line change of a definition (a dropped guard, a
missing reset, a swapped order) that TLC finds to break it; PROJECT.json lists them.
The type invariants of `ConfigStore`, `InterceptTunnel`, `OperationsPane` and `BottomPanel` document
their variables; those of `ApprovalQueue`, `AuditLogger` and `RequestPipeline` are proved.

## 4. Where code and documents disagree

The run `tui_responsive` shows one: the event loop reports a full console queue by
a send into the channel that only it empties (`approvals.go:840`, against the comment at
line 834). The modules contain the behaviours of the following too; they were met while
translating, and no run states them.

*Of the daemon.*
- The approval timeout's policy is read when the timer fires, so a reload changes a wait in
  flight (`queue.go:273`, comment at line 148).
- An audit entry carries the rule-set version of the moment it is written, not that of
  the decision (`server.go:1195`, `DESIGN.md:1174`).
- The audit log is closed while plain requests are still served inside the grace period
  (`server.go:467`, `DESIGN.md:2159`).
- Two operators' approve and deny at once can leave a pattern on both lists, where deny wins
  (`configwrite.go:119`, `CHANGELOG.md:344`).
- The reader is reset although the watcher may have filled it since the select: a pipelined
  request is dropped (`intercept.go:546`, comment at line 505).
- A rule's `expires` is parsed and never read (`DESIGN.md:810`, `rule.go:24`).
- `ReloadConfig` swaps the pointer under a lock and sets the engine's mode after it: two
  overlapping reloads can leave them different (`server.go:1718-1732`). Overlapping `Engine.Reload`s can
  leave the older rules.
- `fastPathDecide` reads the allow list before the deny list under two locks: a move between the two
  reads is seen as neither.
- The time-window's weekday is that of the present minute, also after midnight. History
  stamps are taken before its lock, a decision made by `prior_decision` renews the history
  it came from, and what the open window lets through counts as a precedent.
- The advisor's cache key leaves out lists, body and headers, which the advisor was shown.

*Of lists and suggestions.*
- The list endpoint does not compile what it adds, the console does
  (`control.go:467`, `console.go:271`): one malformed line, answered as a change, makes every
  later reload fail, and the daemon will not start again.
- `AddAllow` and `AddDeny` answer whether the add changed the file, not whether the move did, and then
  do not reload (`run.go:885`, `control.go:62`). An approve is answered although its line
  could not be written. A call given up after five seconds may take effect later.
- `reloadAfterInternalWrite` records no outcome (`run.go:768-778`): when the daemon itself writes a
  malformed line the badge stays clean, and when it removes one it stays set, although "a non-empty
  LastError means the running set diverges from the file on disk" (`reloadstatus.go:20-22`).
- An accepted pattern's rule is in the file but not in the engine until something reloads the rules
  (`suggestion.go:116`). Its id is made of neither list nor effect. The
  canonical key of a candidate leaves out its list. A prefix line `/x/*` does not cover `/x`.
- Candidates that `preferNarrowerOnConcentration` synthesizes after triage pass no filter, so one that was
  skipped or declined is offered again by the next scan (`suggestion.go:485`, `:603-700`; against the
  filter's comment and `skip_test.go:22`).
- The rule of an accepted pattern "subsumes" the lines it replaces (`accept_pattern.go:30`, `:62`) by what it matches, not by
  when it is asked: where deny lines become a rule, a line of the allow list that overlaps them now wins, and an earlier
  rule wins over a later one (`server.go:614-621`, `:1798-1816`).
- A generalized line may be on the other list already, and stays on both (`configwrite.go:48-71`); deny wins.
- Switched off, the manager returns before it looks at what is offered, so a stale offer stays up
  (`suggestion.go:289`, `:308`).
- The sources of a synthesized `/a/*` may hold the line `/a`; accepting it drops them all, and requests for
  `/a` are held again (`suggestion.go:592`, `configwrite.go:43`).
- The id of a pattern's rule is made of its sources only: the same sources accepted on the allow list and
  later on the deny list append no second rule, and are removed (`suggestion.go:928`,
  `accept_pattern.go:30`, `:63`; `DESIGN.md:1454`).
- `Accept` clears the offer before it writes, so a failed write does not leave it offered, although it
  should (`suggestion.go:790`, `DESIGN.md:1460`).

*Of the UI.*
- The info panel can be left with the keyboard focus still on it. A result that sends the operator back to
  the list editor may land after a panel change that did not forget the way back.
- The idle snap needs the bottom row to be "pending", not just open; Home, like Up, leaves the
  open rows, although the changelog (#191) speaks of Up only.

## 5. Bounds

- `queue`: three requests, two of them retries of one URL, the third of another key
  and not cancellable; an operator, and the advisor for one hold; capacity 1 or the default. Two waiters on
  one hold are needed for coalescing and its partial disconnects; a third request
  for a full queue. Two resolvers of different kinds already race in every way a claim can.
- `audit`: three Writes by two goroutines, a buffer of one, two callers of Close, one
  change of level, three modes: a full buffer, an entry in hand and a third entry
  at the select exist at the same time.
- `pipeline`: a plain request with a signal timer and a CONNECT; a ring of one row,
  so that the second request evicts the first one's; `MaxPresses` bounds open mode.
  `pipeline_live`: two keys and one slot, so one request may be refused.
- `config`: the console's and the daemon's writer with every kind of edit, three
  patterns, one of them malformed, one debounce goroutine, `MaxWrites = 2`: no operation begins after two
  writes, so an operation of two edits may run after, before and between others. The generalized line may be on the other
  list, and the daemon adds and removes the malformed one, as the list endpoint does.
- `tunnel`: a client with an upload and then a second request (longer than the drain
  limit and waiting for the answer, or shorter and pipelining), or two tunnels whose requests may share a hold; both
  kinds of wait,
  an operator's allow and Shutdown's denial, a queue of one and a ring of two rows.
- `decision`: two handlers, two requests (an upload with a body that a rule is about, and a
  CONNECT to a vault), two contents of the list file and three of the rule file, one of which does not load;
  the clock starts before midnight and its tick exceeds the cache's TTL; `MaxServed` and `MaxEvents`
  bound requests and events. `SubsumptionIsSound` ranges over 432 lines of every form and 96 requests
  around them.
- `suggestion`: four start files: lines that make a host-wide, a segment and a pattern candidate; pages
  that are few enough for a narrower, synthesized one; denied keys of vaults, one of which a line of the allow list and another
  an earlier rule lets through; and sources whose rule was made for the other list. Two scans, two answers, one edit,
  switch, failure or restart (`MaxOffers`, `MaxMishaps`).
- `control`: two calls, each one of nine requests, near and far, one restart, two writes, three patterns: one that holds and
  list edits are about and that is the source of the offers, the offers' own, and a malformed one. Two offers: one
  that is answered and one that takes its place, so that a call may be told of a conflict. Two calls are enough for
  every property, each of which is about one call and one that interferes.
- `tui_operations`: two retries on one hold and a request without one, a ring of two rows, one call
  and one late poll at a time. `tui_panels`: channels of one, two re-reads, two versions.

TLC explores the full state space of each in less than four minutes.

## 6. Fairness

Weak fairness of a goroutine's own steps says that the Go scheduler runs runnable
goroutines; of a timer, that timers fire. Where several goroutines cannot disable each other's steps for
good, one condition on their disjunction is enough (`ApprovalQueue`, whose waits are bounded in number). `AuditLogger`
needs strong fairness of one step, the writer's `<-stopCh` case: Go picks uniformly among ready cases, so with
the buffer full for ever the case is still taken. `RequestPipeline` assumes that the handlers' own steps run and that a
pending hold is decided at the latest by its timer, which is what
`EveryWaiterReturns` shows of the queue. It assumes neither that a client finishes its body (`io.ReadAll`, and only
`ReadHeaderTimeout` is set) nor that an origin answers (`http.Transport` has no response timeout): its liveness
ends where the request is at the origin. In `InterceptTunnel` only
the watcher and the return of a wait are fair: no hold need be decided, which is the
point of `DisconnectEndsHold`. `Suggestion` assumes that the ticker ticks, which does
something only while suggestions are on, and that a tick's scan ends, since the advisor's call has a timeout. `BottomPanel`'s loop takes what is in its channel and its
goroutines run: even so it can stop. Nothing is assumed of operators, clients,
the advisor's verdicts, origins and their tunnels, reloads or shutdown.

## 7. Proofs

All for arbitrary sets of requests, keys, operators and writers and arbitrary bounds, under the named
assumptions of the component's module, which TLC evaluates on each of its runs. `ConstantsAssumption` types
the constants. `NoneAssumption` says that the null value is none of the values beside it, `RowsAssumption` that operation
ids are unique, `ScriptsAssumption` that clients send requests (a head and then its body),
`RulesAssumption` that a rule file is finite, `LinesAssumption` that lines are records of strings. `LogAssumption` and
`PanelAssumption` type the constants of `AuditLogger` and `BottomPanel`, whose definitions have names of
their own (`LogSpec`, `PanelSpec`) because their proofs share a module with others. In `OperationsPane` requests
and holds are different values, as in `reducer.go`, where the key of a hold's row has a prefix.

- **ApprovalQueueProofs.** `IInv` is inductive: it adds to the type invariant and
  to `IndexesInLockstep` who can be where. `MintInv`: a hold's id is its first
  member, and it is in `items` exactly until it is resolved. `WaiterInv`: a pending
  hold's waiters are exactly its unanswered members. `JobInv` (`SendInv`,
  `OwnerInv`, `KindInv`): at most one goroutine owns a claimed hold, and carries its verdict.
  `DeliveryInv`: each unanswered member of a resolved hold has the verdict in its
  channel, or is in somebody's list of sends. Without the last two `NoLostWakeup`
  and `OneAnswerPerHold` are not inductive: they say nothing about what is still
  going to be sent. The safety invariants of run `queue` follow from `IInv`.
  The refinement, `Spec => Contract!Spec`: each step of the queue is a
  step of `HoldContract` or leaves its variables alone. The claim is where the
  contract decides; the channel sends are stutters; the receive is its Answer. `IInv`
  gives that a received value is the verdict, and that the contract's pending holds
  are exactly `items`, hence the capacity guard.
- **InterceptTunnelProofs.** `WatcherHasReaderAlone` is not inductive: it lacks why the
  body is off the tunnel when the watcher starts. `IInv` adds that, between the sample
  and the hold, `buffered` implies that no part of the body is left on the tunnel, and that
  a watcher peeks only between `StartWatch` and its join. A step of one tunnel leaves
  what the invariant says of the others alone (`KeptAt`), so each action is looked at once.
  `RInv` is the invariant of the requests: which of a tunnel's requests are behind it (`Past`, by where their heads are in
  the script), what the one under way has (`Present`), where the goroutine is in the bytes (`Place`), that
  the CONNECT's row gives way before the first inner row (`OwnRow`), and, if the client does not pipeline, that
  nothing was written
  behind an unanswered request (`Patient`), so that a Reset has nothing to throw away.
- **RequestPipelineProofs.** `IInv` says of each request what its program counter implies for its hold, decision and
  answer (`HandlerInv`), that what a held request was told and does is its hold's verdict (`HoldInv`), and what row
  and entries it
  has (`RowInv`, `AuditInv`); of the ring, that it holds each row once (`RingInv`, by facts about subsequences and
  `Len`); of the shutdown, that the log is not closed before it begins. That
  the background wait of a signaling request starts after the row's "held" update is needed for `HandlerInv`.
  The last part is about `AuditLogger`: `LogInv` adds `CloseProtocol`, `closed` precedes `stopCh`, which one
  caller closes once, which precedes the drain, which precedes the writer's exit, at
  which the buffer held nothing that was sent before the stop. `FlushedOnClose`
  follows from it and from conservation. The accounting invariant is inductive with
  the type invariant alone.
- **DecisionProofs.** Five properties, five small invariants over one typing of the records: `StandInv` (while the
  deny list matches a request, its
  handler can be only where the lists, the gate or nobody decides), `FollowInv` (a reload that nothing overtakes has
  the file as it stands and has installed it as far as it is), `CountInv` (by `Cardinality` of the consultations under way),
  `CacheInv` (an entry is filed under the question it answers, so a hit for the version that was read was given under that version,
  whatever is in force by the time of the hit), and for `PaddingIsNoEscape` that what decides is the first
  rule in priority order that speaks (`DecidedByFirst`), so that a rule that fails closed comes no later
  for the padded request than any rule that allows it.
- **SuggestionProofs.** First of the operators: subsumption of paths and hosts implies matching
  (`PruningLosesNoRequest`), and each detector of `generalize.go` proposes a line, or a pattern, that matches all
  that its sources match (`DetectedReplace`), which the triage and the synthesized narrowing keep (`PickedReplace`).
  `SoundInv` carries that through scans, offers and half-done answers, with what the rules of the rule file stand for
  (`RulesInv`): each that bears the id of some sources fires on all that they match. `AcceptKeepsDecisions` is then a fact
  about the three writes an accept makes, `Decided` before and after each: a line or rule that is added changes only
  what it matches, and sources that go were replaced by a line of the same list, or by a rule that is asked
  after both lists. `SettledInv` says that a session's settled sets are
  among the skipped and the declined ones, so the filters see them. `AnswersInv` says that offers are numbered once:
  an open offer is
  unanswered, and so is one that a scan still holds.
- **ConfigStoreProofs.** `IInv` says that what a writer has read is still in the file when it writes,
  unless somebody was at work beside it: whoever replaces the file sees the writer in between its two
  steps, and the history variable says so. `NoUpdateIsLost` follows, an action property.
  `LInv` follows the two edits of an operation: the second finds what the first left (`Cleared`), and a pattern
  reaches a list only if
  some file or operation puts it there (`ReachInv`). `CInv` says of each copy that it is what the file says, or an
  unseen change will fire the
  watcher, or a reload is at the step that will install it; and of each reload under way that it has the file as it
  stands. Neither theorem has a hypothesis about the operations.
  `OnOneList` says of an operation that takes its pattern off the other list first that it leaves it on one,
  and of every other edit that only what it adds comes to be on both. `DaemonFollowsFile` covers
  malformed lines: such a file is not loaded, and the badge is claimed unless `unrecorded`.
- **ControlPlaneProofs.** `IInv` goes call by call: an answer is chosen when it is known whether the
  effect took place, and becomes nothing but "error" afterwards; a hold that a call decided stays decided by
  it, and no call that is not made yet has decided one (`CallInv`); an offer that was answered is not up, has one
  who answered it, and its id is not given again, though any scan may clear or replace any offer between a call's
  making and its serving (`OfferInv`): that is what makes "gone" and "conflict" final, and a second accept of it fail. A step of one call leaves
  the others' part alone (`Kept`, `OneCall`). What the edits of the file do is not needed for this.
  For `AnsweredEditIsInForce` a second invariant, `ForceInv`, holds as long as nothing raced at the file: the matcher's
  lists are the file's, or an unseen change or a reload under way will make them so (`ListsInv`, `ReadInv`); a job's
  edits are those of its call (`JobInv`); and of the call that edited a pattern last (`LastInv`), what its edits have
  made of the pattern so far is in the file, and nobody else at the file has that pattern in hand. The last conjunct
  is what "nothing raced" buys: the claim is about one call's edits, in the order in which it makes them.
- **OperatorUIProofs.** Of the operations pane, for every snapshot of every ring: what `DisplayedOps` selects and
  orders are subsequences, and a position's rank is an injection in an interval of the same size
  (`NthRuns`), so that each selected row is shown once; a row on a hold is known by the hold (`HoldKeys`), and
  of several the first represents it; hence the resolved rows come first and each hold is on one open row
  (`DisplayedShows`). That needs `PaneInv`, which `EachHoldHasOneRow` lacks: whatever ring is on its way or
  shown has one row for a request, carries a hold on pending rows only, and what it shows has arrived
  (`IsSnapshot`), also when it was read before the changes it lands after. `CursorStays` follows,
  because the open rows are the last ones and an answer leaves the resolved ones alone; so does
  `PollsKeep`, because the row of a hold is the only one of its key and is pending, so that neither preference nor
  idle time takes the cursor elsewhere. `PaneTypeCorrect` says that the cursor is on a displayed row: what
  arrives later has no row yet, and leaves the list as it is (`ShownUnmoved`). Of the bottom panel, for
  queues of every capacity: `WayBack`, the way back is open only while the panel is and nothing was picked since,
  and `ListsFollow`, lists that are shown and are not the file's are owed a re-read by a result on its way or by the
  worker, or are being re-read.

Only model-checked:

- liveness (`EveryWaiterReturns`, `EveryCallReturns`, `EveryRequestIsSettled`, `SignaledHoldIsFollowedUp`,
  `DisconnectEndsHold`, `StaleOfferIsWithdrawn`), which needs fairness and ENABLED and is out of the prover's reach;
- `SubsumptionIsSound`, which enumerates lines and requests; `PruningLosesNoRequest` is the general fact.

## 8. What could come next

The parsing of list lines, for which a line would have to be a
string; h2c and upgraded connections of the pipeline.

## 9. Not modelled

- Rendering, which is most of `tui/approvals.go`: layout. The command line, the setup and certificate
  commands, the updater: sequential, or dialogue with the operating system. The LLM
  panel and the info line of the UI.
- The CA and TLS themselves (the control plane's certificate has the lifetime of a leaf and is not
  renewed while the daemon runs), HTTP parsing, YAML layout, the configuration schema's defaults and
  validation, redaction patterns: data transformations that no property here tells apart.
- The advisor's prompts and the translators to LLM services: wording and transport.
- Data races on plain fields (`Server.cfg`, the suggestion manager's maps): the memory model is not represented.
- Wall-clock time, but for `Decision`: a timer may fire at any moment after it is armed.
