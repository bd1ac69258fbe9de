# Verification of the rewrite inspector

TLA+ modules, TLC runs and TLAPS proofs kept beside `placitum-rewrite`, a process that
receives inspection requests from a bus, reads the held response body from a buffer (Redis),
rewrites it by the groups of a profile, writes a copy back and replies. Profiles come with the
image and, while the process runs, from a controller.

## The system

| component | source | state | operations | modelled in |
| --- | --- | --- | --- | --- |
| evaluation queue | `internal/queue/queue.go` | queue, closed flag, sleepers on one condition variable, counters | Submit (shed or wait when full), pop, sweep, Close | `Pool`, `PoolArrival`, `RequestReply` |
| profile store | `internal/config/profiles.go` | current directory, current snapshot | LoadProfiles, ReloadFrom, Reload/Watch | `Generations` |
| rollout | `internal/desired` | three trees on disk, what is reported as applied | Watch, Parse, Apply, Bootstrap | `Generations` |
| message handler | `cmd/inspector/handler.go`, `frame.go` | none of its own; the buffer and the snapshot are read between its steps | receive, evaluate, inspect, inspectFrame | `Inspect` |
| decisions | `internal/decide`, selectors of `internal/config/profile.go` | none | EvaluatePrior, Active, Matches, apply | `Decide` |
| body loader | `internal/body` | none | Load, Get, Put | `Inspect` |
| audit sink | `internal/audit` | pending events and their size, the wake channel | Add, flush, Close | `AuditSink`, `AuditTrail`; what an event says: `Inspect` |
| configuration | `internal/config/config.go`, `file.go` | read once | Load | `Config` |
| profile validation | `internal/config/profile.go` | none | ParseProfile, Validate | `Profiles` |
| start | `cmd/inspector/main.go` | settings, snapshot, buffer, subscription | run up to the wait for a signal | `Startup` |
| shutdown | `cmd/inspector/main.go` | | the end of run | `Shutdown` |
| health check | `cmd/probe` | none | one request | `Inspect` |
| heartbeat, log shipping, build version | `cmd/inspector/main.go`, `internal/version` | none | | not modelled |

How they meet: the bus client runs `receive` on one goroutine and buffers what comes meanwhile;
`receive` answers what it can and hands the rest to `Pool.Submit`; a worker pops a task and calls
`evaluate`, which reads the store's snapshot, loads from the buffer, writes the copy and publishes
the reply; expired tasks are answered by whichever thread finds them. Independently, `desired.Watch`
swaps the profile tree on disk and has the store read it, and `Store.Watch` rereads the same
directory when its fingerprint changes. A thread that has published a reply hands its audit event
to the sink, whose goroutine takes what is pending in batches and publishes it. A signal drains the
subscription without waiting, closes the pool, then the sink, and ends the process.

What is hard in this code: one condition variable for two kinds of sleepers; locks given up in the
middle of a loop to call the handler; a timer racing everything else; Close racing all of it; two
goroutines that read one changing directory without a common lock; renames and removals a crash
may interrupt; objects that expire, change or come too late between two steps of an inspection; a
wake channel that holds one token, and a bounded buffer cut at one end while it is drained at the
same end; a shutdown that joins every goroutine but the bus client's. The list with lines is `hazards` in `PROJECT.json`.

What makes each part correct:

- queue: every request handed over is answered exactly once; nobody sleeps while there is work;
  the limit holds; Close ends and leaves nothing behind; a hanging handler does not hold the queue;
- store and rollout: what is served was validated, is the generation reported and the one on disk;
  the last sound manifest is served in the end, across crashes, or it is known what keeps it out;
- handler: a reply tells the truth about the body it lets out, carries a rewrite whole or not at
  all, and an enforcing profile never lets a response pass because its body could not be read; the
  audit event says what the reply says;
- audit sink: an event leaves once and in order, the oldest go at the limit, a full sink does not wait
  for the ticker, Close leaves nothing behind;
- start and shutdown: an inspector that serves has the settings and the profiles that were written;
  what was queued is answered and audited before the connection closes.

## Modules

**`Pool`** models `queue.go`, one action per critical section of `p.mu` and one per call of the
handler, because the handler runs outside the lock. Threads are `Sub` (the callback goroutine, on
which Submit runs), the workers, the sweeper, the timer callback and Close. `q` is a set, its order
being that of `ticket` (the value of `Accepted` at the append); `dead[th]` is the list of expired
tasks that thread took and has to answer; `cur[th]` the task it has in hand; `waiters` the threads
in `cond.Wait`. `Signal` removes a waiter, `Broadcast` all; only the callback goroutine calls `Signal`, so
the waiter is a worker. `expire`, `shedLimit` and `budget` count a task some time before the handler
answers it: counting and answering are two actions, and `tallied` has the threads in between. Time is relative: `age`
counts ticks since Submit stamped the task. `late` is a timer callback that `timer.Stop` did not
stop any more. A message that finds the client's buffer full is `lost`.

**`RequestReply`** is what the queue promises its callers: a request handed over is answered once.
`Pool!RR` instantiates it with the requests that were handed over and have no answer yet.

**`PoolArrival`** extends `Pool` with a clock per request that starts on arrival.

**`Generations`** models the store and the rollout on one directory, one action per file system
call that another goroutine or a crash can observe. A tree is the generation it was written from, a
stamp for its modification times and the files it holds; `.next` and `.prev` are written and
cleared in one step since nobody reads them. `rd` holds the two runs of `Store.read` (the applier's
and the reloader's), which list, read the files in the order of the listing, take the fingerprint
and publish. `Offer` puts or deletes the key, `Settings` takes the log level of an accepted manifest,
`Faults` are the steps of Apply whose call may fail; `lost` notes that the rename back failed as well.
`Crash` ends the process anywhere, and so does `Panic`, a read that comes to a profile with an empty body
item (`Panicking`): Validate panics and nobody recovers. `Start` is the start after either: image,
Bootstrap, then the bucket's last value, unless `desired.Watch` fails (`watching`). There is no start as
long as Bootstrap panics on the tree it finds: such a process ends as soon as it is started.

**`Decide`** has the pure part: neighbour requests folded in order (with the outcome of each for the
audit), active groups, selectors, and the operations on a body that is a sequence of tokens. A
pattern is a word of tokens (`Lit` has those that are not one token) and is found from the left without
overlap, as `FindAllSubmatchIndex` does; the empty word matches before the body, like `^`. A
replacement is a list of tokens, where `$0` copies what was matched (`Expand`). So what is
left and what was put in can make up a new match that the same pass does not see. Alternatives, repetition and
submatches that are a part of the match are not modelled, and no property is about them. The budget is
counted as in `apply`.

**`Inspect`** is the handler: `receive`, `evaluateShed`, `inspect` up to the first load,
`contentType`, `loadBody` or `inspectFrame`, `put`, and `recoverInto` wherever it may panic. A load is
a set of outcomes. Between two steps generations are rolled out, objects expire or change, the copies
too (`OutTTL`; a copy that is over is `Gone`). Digests are the contents themselves. `event` is what `audit.Build` makes of the reply and of the details the
handler collected. The health check's request is one of the messages, and `healthy` is what it
accepts.

**`AuditSink`** models `sink.go`, one action per critical section of `s.mu` and one per publish. The
critical section of Add and the kick after it are two actions, so a flush may come between them.
`pending` is a set ordered by `ticket`; `wake` is the token in the channel. `trimmed`, `failed` and `sent`
say how an event left. **`AuditTrail`** is what it promises: at most once, one subject to a message,
in order per subject.

**`Shutdown`** composes `Pool` and `AuditSink` with the end of `run`. A thread that answers owes an
audit event until it has called Add; `Free` keeps it from doing anything else meanwhile. `Panicking` is an
evaluation that panicked: `recoverInto` answers without a request and there is no event. Close of the
pool waits for workers and sweeper, not for the callback goroutine, which goes on until the
process ends.

**`Config`** and **`Profiles`** are the settings and the validation as operators: `inspector.conf`
folded line by line, the environment over it, `validate`; a profile as written, the checks in their
order (each ends in ok, error or a panic) and the profile they leave, in the form `Decide`
evaluates. **`Startup`** runs them in the order of `run`, with the calls to the buffer and the bus
that may fail in between.

`MCPool`, `MCGenerations`, `MCInspect`, `MCAuditSink` and `MCStartup` give the constants values. Definitions marked "Mutant"
are wrong on purpose; none of them is used by a specification.

## Runs

| run | checks | shows |
| --- | --- | --- |
| `PoolWait` | types and six safety invariants | 3 requests, 2 workers, a queue of 1, `queue_full = wait`: the waiting Submit, its timer, workers, sweeper and Close |
| `PoolLive` | `AnswersOnce`, `AnswersEventually`, `CloseReturns`, `SweepFreesQueue` | refinement of `RequestReply`; answers and Close under fairness; the queue is freed of what expires even if the workers hang in the handler |
| `GenReload` | `ServedIsValid` | rollout and reloader together, with a crash, a panic and failing renames |
| `GenRestart` | `TypeOK`, `ServedAsReported`, `DiskAsReported`, `LatestServed` | rollout alone: two crashes anywhere, failing calls, a panic, a failed `desired.Watch`, deletions of the key; profiles, log level, report and disk agree, and the last sound manifest comes into effect, or its failure stays reported, or nobody watches, or every start panics |
| `InspectServe` | eleven invariants on replies, copies, audit events and the health check | 50 messages (kinds, locators, bodies, neighbours, no reply subject, no audit subject), with and without `REDIS_URL`, with panics, against three generations |
| `AuditSink` | `TypeOK`, `FullIsFlushed`, `KeepsNewest`, `NoneLeftBehind`, `KeepsTrail`, `EventsLeave` | two senders, ticker, wake channel and Close around a sink at its limits; refinement of `AuditTrail`; what was added leaves, though nobody adds or closes any more |
| `Shutdown` | `AnswersAreAudited`, `CountersMatchReplies`, `SignalEnds` | pool (`queue_full = drop`) and sink closed in order while callbacks still come |
| `Startup` | `ServesAsConfigured`, `ServesAsWritten` | some 2600 combinations of environment, `inspector.conf` and `profile.yaml` |

What is checked of the start is relational: `ServesAsConfigured` reads the meaning of each setting off the
lines of the file (which block a line stands in, that it is said once) and not off the parser's
state, and `ServesAsWritten` evaluates the validated profile with `Decide` and compares what it
does to what the file asks for: frames, operations and groups as said above the property, no header that
may never be touched, no `Set-Cookie` set and no `Content-Type` removed (setting the type and removing
cookies are allowed, `profile.go:434`).

`ServedAsReported` and `DiskAsReported` are checked and proved without the reloader. The default is to
run it (`WAF_REWRITE_RELOAD_EVERY`, 1 s), and then they do not hold: a read that overlaps a rollout may
publish the files of the previous generation last, as `GenStale` shows, or some of each. With the
reloader `ServedIsValid` is what remains.

Four properties stated after the documentation or a log line do not hold; each has a run that ends
with a counterexample, described under `findings`:

- `PoolArrival`: with `queue_full = wait`, a request buffered behind a blocked Submit is evaluated
  past its deadline, because its clock starts in Submit.
- `GenStale`: a reload overlapping a rollout leaves the old profiles served under the new
  fingerprint, for good.
- `GenCrash`: a crash while a refused tree is removed makes the next start serve the rest of it.
- `InspectShared`: two rewriters of one response share the key of the copy.

Bounds. With two workers and the callback on one condition variable a worker may sleep beside the waiting
Submit when a pop makes room; with a queue of one, three requests fill it, make a Submit wait and
leave one in the buffer. Deadlines 1 and 3 with reserve and minimum budget 1 give a request that is
late at once and one that expires at any later point; `MaxAge` 2 is the age at which nothing can
change any more. Liveness runs have one worker, since symmetry is not used with them. Five
manifests (two sound, one with a bad profile, one on which Validate panics, one malformed) of which three
are published cover success, refusal with and without a previous tree, a lost tree, a crash loop and a repeat. A match budget of 6 and bodies up
to nine tokens let an operation stop at its own limit, at the budget and before both. `InspectServe`
has one request: with keys of their own requests share only the snapshot, which `Rollout` changes at
will; `InspectShared` has two on one key. The sink's batches of 2 and its limit of 3 (256 and 50000
in the code), with sizes that reach `MaxSize` 3 before the count does, leave a rest for a second batch; with
five events an Add cuts the front while a flush holds older ones (one taken, three pending, one more
added). Two of the events are large and three small; those of one kind are interchangeable and are added in one
order (`MCNext`), which, unlike TLC's symmetry, is sound for liveness too. `Shutdown` has two requests and one
worker: one may be queued, expired or shed while the other is evaluated, and the callback may still
hold one when the process ends. `Startup` varies the settings with a sound profile and the
profile with sound settings, as neither looks at the other. Deadlock checking is off where the system may stop (all
requests answered, all manifests applied).

Fairness. `Pool!Fairness`: a goroutine that can run is scheduled (sync.Mutex hands the lock to a
starving waiter), clock and timers advance, and the handler returns because its buffer calls are
bounded by the task's budget and RE2 is linear. Nothing is assumed of arrivals or of Close being
called. `PoolLive` runs under `SweepSpec`, where only clock and sweeper are fair, and states
`AnswersEventually` and `CloseReturns` as consequences of `Fairness`, so that `SweepFreesQueue` needs
no worker. `Generations!Fairness`: both goroutines run, the ticker ticks, and a process that ended is
started again, which is the container runtime's part and not in this repository; neither the controller
nor a crash is owed. `AuditSink`: the sink's goroutine runs and its ticker ticks; no sender comes
back and nobody calls Close. `Shutdown!SFairness`: all of these, and main goes on once a signal has
come; no signal is owed.

## Proofs

The theorems hold for every value of the constants: any number of requests, workers, events,
manifests and crashes, any depth of the queue, any messages and profiles. `PROJECT.json` lists them.

| module | theorems (property) |
| --- | --- |
| `PoolProofs` | `TypeCorrect` (`TypeOK`), `NoSleeperForgotten` (`NoLostWakeup`), `NoIdleSleep` (`SleepsForAReason`), `NeverOverfull` (`QueueBounded`), `ClosedMeansDrained` (`DrainedOnClose`), `AnsweredAtMostOnce` (`AtMostOneReply`), `NoneForgotten` (`NothingForgotten`), `CountersExact` (`CountersMatchReplies`), `PoolImplementsRequestReply` (`AnswersOnce`, the refinement); of `Shutdown`: `PoolComposed`, `SinkComposed`, `ShutdownAudits` (`AnswersAreAudited`) |
| `AuditSinkProofs` | `SinkInvariant`, `SinkTyped` (`TypeOK`), `FullSinkFlushed` (`FullIsFlushed`), `NewestKept` (`KeepsNewest`), `CloseLeavesNone` (`NoneLeftBehind`), `SinkKeepsTrail` (`KeepsTrail`, the refinement) |
| `GenerationsProofs` | `GenerationsTyped` (`TypeOK`), `ServedValid` (`ServedIsValid`), `ReportedInEffect` (`ServedAsReported`), `ReportedOnDisk` (`DiskAsReported`) |
| `InspectProofs` | `InspectInvariant`, `InspectTyped` (`TypeOK`), `NothingSkipped` (`NoneSkipped`), `WholeOrNothing` (`AllOrNothing`), `CapturedCopied` (`CopyOfCaptured`), `AskedGroups` (`GroupsAsAsked`), `BudgetHeld` (`BudgetKept`), `AuditTruth` (`AuditTellsTruth`), `SelectedOnly` (`OnlySelected`), `CopyReported` (`CopyAsReported`), `ObserverIsPassive` (`ObserveChangesNothing`), `ProbeAnswered` (`ProbePasses`) |
| `StartupProofs` | `StartInvariant`, `ServedAsConfigured` (`ServesAsConfigured`), `ServedAsWritten` (`ServesAsWritten`), `ProfilesSound` |

**Assumptions**, which the runs evaluate. `PoolAssumption`: sets are finite, limits are numbers.
`SinkAssumption`: also that `MaxSize` is at least 1, a constant of the code; with 0 an empty sink would count as
full. `GenAssumption`: `None` is not a tree. `InspectAssumption`: messages and profiles are as
`Parse` and `Validate` let them through, in particular group names are unique and an operation has a
positive `max_matches`. `DecideAssumption`: the empty content type has no suffix, a pattern stands for a
list of tokens, and `MatchBudget` is at least 1, a constant of the code. `ConfigAssumption`: `Atoi` and `ParseDuration` give
integers and read no blank text. `ProfilesAssumption`: the limits are numbers, the default of
`max_matches` lies between 1 and the most that is allowed, and nothing empty is a good name or
pattern. `StartupAssumption`: a file is a list of lines, a profile decoded by yaml holds lists, a
directory lists a name once, and `built-in`, the mark of a default in `ServesAsConfigured`, is no number.

**Hypotheses** are written inside the box, `Spec => [](H => P)`, where a property is not true without
them. `Calm` (no reloader) for `ReportedInEffect` and `ReportedOnDisk`: `GenStale` shows what a reloader does,
and nothing of the kind is claimed of the default configuration. `OwnKey` (no two requests have one key) for `CopyReported` and
`ObserverIsPassive`: `InspectShared` shows the other case. `NoBlankType` for `SelectedOnly`: `Validate`
accepts `""` as a content type, and such a group takes a response whose headers object could not be
read. `ProbeServed` for `ProbeAnswered`: nothing in the code keeps a generation from bringing a `_probe`
of its own making.

**The queue.** Five layers of inductive invariants, each using the ones before. `Basic` adds
to `TypeOK` which thread may be at which label and who has a task in hand. `Wake` says why a lost
wake-up is impossible: a worker enters `cond.Wait` only on an empty queue, every append wakes
somebody, and Submit never sleeps unless the queue is full; the invariant has to relate sleepers to
the queue, since the thread that calls `Signal` is the only one that sleeps for another reason. `Bounded` adds to `QueueBounded` what a thread
that has ended left behind. `Owned` says that the places a request can be in (buffer, queue, the
hands of one thread) are disjoint and that a request in one of them has no answer:
`AtMostOneReply` is not inductive without it, because nothing else stops two threads from holding
one task. `Counted` is `CountersMatchReplies`: every task is counted before it is answered, so the sums
include the threads in between, at their labels or in `tallied`. The refinement then needs one
case per action: answers map to `Answer`, `Arrive` to `Ask` or `Drop`, all others to a stutter.

**The sink.** `SinkInv` adds to `TypeOK` and `FullIsFlushed` that every event held or given up has a
ticket of its own (`Numbered`), the order (`Ordered`: what was cut is older than what is pending, and so
is what a flush took) and the phases of the goroutine (`Phased`). The places an event can be in are
disjoint because their tickets are ordered. The size is a sum over a set, computed incrementally by Add and
anew by flush; that the two agree is proved by minimal counterexample over finite sets.

**Shutdown.** Every step of the composition is a step of `Pool` and a step of `AuditSink` or leaves
them alone; so the theorems about the parts hold in the whole. `DownInv` adds which thread owes
which event (`OwesInv`), what has ended when main gets where it is (`MainInv`), that the sink gives up
nothing in silence (`SinkKeeps`), and the way of a queued request (`Traced`): it is still in the queue,
was taken out by the callback goroutine or panicked (`excused`), is in the hands of a goroutine that Close waits for or owed
an event by one, or its event was added before stop was closed.

**The rollout.** `Basic` types the applier's locals step by step; with them `TypeOK` says that the tree to
go back to is under `.prev` as long as Apply may go back. `ValidInv` says that what a run of
`read` has got so far is validated, whichever tree the files came from. `CalmInv` describes, for each
label of Apply, which generation lies in the live tree, in `.next` and in `.prev`, and what the store
holds, or that no tree is left (`lost`); without the labels the properties say nothing about the middle
of a swap, where a crash bites.

**The handler.** `InspectInv` says of each request by itself how its label, the work done for it and
what was sent fit together (`Fit`), and names no other request's state: a step of one cannot
disturb another. `Clean` is its heart: where a rewrite may still be sent, what was
applied came from the captured body, or from none where no group wanted one. `CopyInv` relates
the copies to the replies and is the one place where requests meet. `ProbeInv` follows the health
check's request. What the folds of `Decide` compute for every profile and body (which groups are on,
who is heard, that rows and remaining budget add up to `MatchBudget`) are lemmas of `DecideProofs`.
That what is found are matches, and no more than an operation may have (`FoundIn`, `FoundBounded`), comes
from the fold that finds them.

**The start.** `StartInv` carries each result from the step that computes it to the state that serves;
what is hard is in the computations. For `inspector.conf`, `ReadTo` is the invariant of the loop over the
lines: the parser's flag says whether the next line stands in a block, every directive so far may stand
where it stands, and for each key the parser has seen none or exactly one line, whose value it holds.
It relates the parser's state to `Inside` and `Says`, which look only at the text. Since no
directive takes an empty value, "" in the result means that no line spoke of the key (`TextHolds`).
For the profiles, `ProfilePassed` says what the checks made in turn leave when all pass, `ProfileValid` that
the profile is then the one of the file (`AsWritten`), and `ApplyModerate` and `OneOff`, laws of the folds of
`Decide`, bound what evaluating it can do. `ProfilesSound` closes a gap between modules: what
`InspectAssumption` takes for granted of the profiles is what the start leaves.

**Induction.** The installed provers cannot instantiate an induction theorem's operator parameter.
`SetInduction` does without: its lemmas take the set of the numbers (or sets) that have a property, and
look at the smallest one that has not. `FoldLaws` proves that the definition of `FoldLeft` has a
solution and goes through the sequence from left to right; the folded operator is a constant of that
module, so each INSTANCE is the law of one fold.

**Only model-checked**: all liveness (fairness and ENABLED are beyond the prover). The four runs that
expect a violation are about the code as it is and have no theorem.

## Not modelled

- I/O errors of the profile store other than something missing; regular expressions, YAML, NATS and
  Redis themselves; the module on the other side of the bus.
- The heartbeat, a periodic message of counters and `Applied.Snapshot()` that changes no state. It
  names no profile after the first Apply has failed (`main.go:252`).
- The layout of messages (`internal/protocol`); Parse is the kind of a message and the cases of its
  locator.
- Log shipping and the build version: two switches and two strings.

Behaviour that the models have and no property calls wrong, for a reader of the code to judge:

- A headers object that cannot be read makes the content type empty, so that groups selecting by
  content type are passed over without an error. `OnlySelected` is the other direction.
- Without `REDIS_URL` a body rewrite gets the verdict error (`REWRITE_STORE_UNAVAILABLE`), although
  `main.go:202` logs that it "will be denied"; so does a buffer that fails, also for an observing
  profile, of which `README.md:124` says the response is left untouched.
- A failed Apply is not retried, nor is a `desired.Watch` that failed at the start; `LatestServed` has both
  among its exceptions.
- A batch of audit events is bounded by its number and not by `maxSize`; a failed publish loses it.
- An empty item in a profile's `body` list makes `compile` follow a nil pointer (`profile.go:355`):
  the start, or the rollout, panics instead of refusing the profile. After a rollout the tree is already
  in place, so every later start panics too, whatever is published then; `Generations` has this, and
  `LatestServed` excepts it.
- One pass of removals may leave a new match behind (`apply.go:113`), and a replacement may copy what it
  matched: a reply says what was applied, not that nothing is left.
- An evaluation that panics is answered but has no audit event (`handler.go:421`, `sink.go:66`).
- The order of `set` and `unset` of one header in different groups is lost (`apply.go:90`).
- A request the callback goroutine took out of the queue as expired may stay without answer or audit
  event when the process ends: nobody waits for that goroutine.

## Plan

Done: all modules and runs above, and every invariant and action property that a passing run checks
is proved.
