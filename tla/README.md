# A verification project for kubert

kubert is a library for writing Kubernetes controllers in Rust. Most of it is
coordination: between the replicas of a controller (leases), between a watch
and the index built from it, between a channel and the timers behind it, and
between a process's tasks while it starts and shuts down. This directory holds
TLA+ models of that code, TLC runs that check them on small instances, and
TLAPS proofs for all instances.

`PROJECT.json` names, for every definition, the lines it models.

## 1. The system

| part | source (`kubert/src/`) | state | operations |
|---|---|---|---|
| lease manager | `lease.rs` | `State {meta: {version, transitions}, claim}` under a mutex; the `Lease` in the API server | `init`, `claimed`, `sync`, `ensure_claimed` (renew, acquire, re-sync on conflict), `vacate` |
| lease task | `lease.rs` (`spawn`), `runtime.rs` (`spawn_lease`) | the claim in a watch channel, the backoff | wait for expiry, claim with retries, publish, vacate at the end |
| index | `index.rs` | `keys`, `reset_added`, `reset_removed`, the user's index | one handler per watch event, for cluster-scoped and for namespaced resources |
| watch diagnostics | `admin/diagnostics/watch.rs` | `known`, `resetting`, statistics | `inspect` of each event; `summary` with its checksum |
| lease diagnostics | `admin/diagnostics/lease.rs` | claim and resource version | `inspect` of what the manager learns |
| diagnostics | `admin/diagnostics.rs` | lists of weak references to the above | `register_*`; `handle` of `/kubert.json` |
| admin server | `admin.rs`, `admin/metrics.rs` | connections, routes, readiness | accept loop; `handle`: probes, diagnostics, user routes |
| requeue | `requeue.rs` | bounded channel, `DelayQueue`, map from objects to keys | `requeue`, `requeue_at`, `cancel`, `clear`; `poll_requeued` |
| shutdown | `shutdown.rs` | two signal streams, a drain channel | `Shutdown::signaled`; `CancelOnShutdown` |
| initialized | `initialized.rs` | a semaphore and a count | `add_handle`, `initialized`, `ReleasesOnReady` |
| errors | `errors.rs` | `failed`, `sleeping` | `LogAndSleep::poll_next` |
| runtime | `runtime.rs` | all of the above, and the admin server's readiness | `watch_*`, `cache_*`, `requeue`, handles, `run` |
| server | `server.rs` | accept loop, a task per connection | `accept_loop`, `serve_conn`, `abort` |
| client, log, TLS back ends, metrics | `client.rs`, ... | see section 8 | |

How they interact. A watch is handed out by `Runtime` as
`CancelOnShutdown<ReleasesOnReady<LogAndSleep<watcher>>>`, with
`WatchDiagnostics::inspect` attached to the watcher, and is typically consumed
by `index::cluster` or `index::namespaced`. Its `Handle` delays readiness; its
`drain::Watch` delays the end of `Runtime::run`. The server's tasks hold
`drain::Watch`es too. A lease task runs beside all this; it ends when the
application drops its receivers. The states of watches and leases are owned by
the tasks that inspect them; the admin server, which has its own connections and
no part in the drain, holds weak references and reads them on request.

What makes it hard: writes that time out and are applied later; conflicting
writers; caches of the lease that are out of date; clocks; crashes; lists that
fail half-way; operations sent while a delay runs out; a shutdown that starts
while components are not initialized yet, sleep after errors, hand-shake, or
answer a request; diagnostics that are read while what they describe comes and
goes; handlers that block. `PROJECT.json` lists these hazards at their lines.

## 2. Modules

| module | models |
|---|---|
| `Lease` | managers, the API server, faults, time |
| `LeaseInvariant` | the inductive invariant of `Lease` |
| `AdvisoryLock` | what the lease promises; `Lease` refines it |
| `LeaseTask` | `spawn` composed with `Lease`: its steps are `Lease` steps |
| `LeaseTaskInvariant` | the inductive invariant of `LeaseTask` |
| `LeaseDiagnostics` | what the lease diagnostics are told, composed with `LeaseTask` |
| `LeaseProofs`, `LeaseTaskProofs` | theorems about `Lease` and `LeaseTask` |
| `Watch` | the watcher (a library) and the watch diagnostics |
| `WatchSummary` | the summary of a watch and its checksum, on top of `Watch` |
| `ClusterIndex`, `NamespacedIndex` | the two index handlers, each composed with `Watch`; the second refines the first |
| `IndexProofs`, `NamespacedIndexProofs` | theorems about them |
| `Requeue` | senders, channel, receiver |
| `Schedule` | what the requeue channel promises; `Requeue` refines it |
| `Diagnostics` | registered watches and leases, and the handler of `/kubert.json` |
| `Admin` | the admin server, composed with `Diagnostics` |
| `Shutdown` | signals and the drain channel |
| `Runtime` | streams, handles, readiness, composed with `Shutdown` |
| `Server` | the HTTPS server, composed with `Shutdown` |
| `RequeueProofs`, `DiagnosticsProofs`, `RuntimeProofs`, `ServerProofs` | theorems about `Requeue`, `Admin`, `Runtime`, `Server` |
| `MC*` | constants and symmetries for TLC |

Definitions whose comment says *Mutant* are not part of a specification: each
is a plausible mistake in the definition that follows it, and putting it in the
definition's place makes TLC report the property that `PROJECT.json` pairs it
with.

### Lease

`state[c]` is the `State` behind the mutex of claimant `c`'s manager. A call
holds the mutex across its awaits, so a manager is idle or in one call, and a
step runs from one await to the next: `pc[c]` is `patch` or `get` while the
request is on its way to the server, `patched` or `got` while the reply is on
its way back. `req[c]` is a patch by what it will write. The server applies a
patch if its `resourceVersion` is current. `held[c]` is the claim that the
caller acts on: the last one that a call returned to it, and none after it
called `vacate`.

* `Fail` is every error that is not a conflict, and the caller dropping the
  future. A request that the server has not handled may then be lost or move
  to `late`, from where it is applied or refused at any later time.
* `Crash` loses the manager; `Start` is `init` of the next process with the
  same identity. `Touch` is another writer of the lease's metadata.
* Time is a number of ticks. A manager reads `now + Skew[c]`. Writing the lease
  truncates the renew time to microseconds and the duration to seconds;
  reading it back adds the two. `transitions` wraps at `U16`, which stands for
  2^16. (A debug build panics instead of wrapping.)
* One manager is used with one identity.

### LeaseTask

`task[c]` is where `spawn_lease` and the task it spawns are. Each action is a
call of the manager, i.e. an action of `Lease`, with what the task does when it
returns. The task's local claim equals the manager's, since nothing else can
reach the manager, and `held[c]` is what the watch channel holds.

`LeaseDiagnostics` adds `diag[c]`, the `LeaseState` in `/kubert.json`. Every step in
which a call of the task gets an answer is conjoined with what `inspect` is told
then; `init`, the early return for another's current claim, and failures tell it
nothing.

### Watch, ClusterIndex, NamespacedIndex

A list may find any set of resources, and sends them one at a time; a watch
error starts another list; with `Aborts` a list may fail before it is complete,
which the watcher follows by another `Init`. (Errors after which the watcher
goes on from where it was change nothing here.) The consumer does not see
errors. The index is a map from names to versions with the default `reset`;
`added` keeps the last version pushed for each name, which is all that `reset`
makes visible. Resources are told apart by name: the diagnostics' uids are left
out.

`WatchSummary` gives the set of checksums that a summary may report, since the
resources come from a hash map and are only sorted by creation timestamp. The
hash is taken to be injective.

### Diagnostics, Admin

`refs` are the two lists of weak references, `owned` those that can be upgraded.
`inspect` is two steps under the write lock of its state, and the handler is a
step per reference, so that its reads interleave with everything. A state is
represented by the number of events that its contents and its statistics account
for; what an event does to the contents is the subject of `Watch` and
`LeaseDiagnostics`. `before` and `dropped` are history, for the properties.

In `Admin` a connection is in the backlog, has sent its request, or is where
`handle` took it: in `Diagnostics::handle`, on a worker thread which waits for
locks there, or with a user route, queued for or on a blocking thread. Probes
take a worker for an instant. Routes may never return.

### Requeue

A round of `poll_requeued`'s loop is a step, since senders run concurrently;
what follows the loop is one step with the `poll_recv` that found nothing. If
`throttled`, which is chosen at the start, `poll_recv` may return `Pending`
before the channel is empty, as tokio's cooperative scheduling makes it; an
operation then takes effect when it is received and not when it is sent. The
delay queue is a slab that reuses keys: a new entry may get any free one. It
returns expired entries in any order. `waiting` counts the sends in progress: one waits for room in the channel
and fails when the receiver is dropped, which discards all that was scheduled.

### Shutdown, Runtime, Server

`watches` is the set of those who hold a clone of the `drain::Watch`. The second
`select!` of `Shutdown::signaled` polls its branches in random order, so a
second signal may abort before `drain()` has notified anyone.

In `Runtime`, `source[c]` is what the inner stream of `c` has ready. A poll of
the stack ends when it yields an item or when the inner stream is pending or
sleeping; only then is the shutdown polled. `PollCancelled` releases the
`Watch`, but the stream keeps its `Handle` until its consumer drops it. A
`Task` is an application task with an `initialized_handle` and a
`shutdown_handle`, or a future given to `cancel_on_shutdown`. All are created
before `run` takes the `Runtime`.

In `Server`, `serve[c]` is the `serve_conn` task, `conn[c]` the hyper connection
it spawned; the two live on independently, which is why a closed connection
still has a task that waits for the drain. A turn of the accept loop polls the
drain (`PollDrain`) and then the listener (`Accept`, `AcceptNone`): a signal that
comes between the two lets one more connection in.

## 3. Runs

| run | checks | bounds |
|---|---|---|
| `lease_faults` | `TypeOK`, `Inv`, `BoundedOverlap`, `NoSteal`, `RenewalExtends`, `CountsTransitions` | 2 claimants, clocks 1 tick apart, 1.5 s, failures, crashes, another writer, late renewals; 2 ticks, 4 versions |
| `lease_task_end` | `TaskTypeOK`, `EndedReleased`, `Settled`, `ImplementsLock` | 2 tasks, equal clocks, failures, crashes, late acquire and renew; 3 ticks, 4 versions |
| `lease_task_timely` | `DiagnosticsFollow`, `Exclusive`, `NoLapse`, `DropCompletes` | 2 tasks, calls shorter than a tick, failures, another writer, late vacates; 4 ticks, 5 versions |
| `index_namespaced` | `TypeOK`, `NoEmptyNamespace`, `LiveIndexed`, `DiagnosticsExact`, `ChecksumTells`, `SameAsCluster` | 2 namespaces with 2 names (created at once) and 1, 2 versions, any number of lists, some cut short |
| `admin_requests` | `AdminTypeOK`, `Complete`, `Collected`, `Untorn`, `Answered`, `ListsReleased` | 2 clients on the host; a watch and a lease, with an event each; 2 workers, 1 blocking thread |
| `requeue_schedule` | `TypeOK`, `Paired`, `ImplementsSchedule`, `DrainsAndEnds`, `SendersProceed` | 2 objects, channel of 2, 2 senders; polls cut short or not; the receiver dropped or not |
| `runtime_start_stop` | `RuntimeTypeOK`, `ReadyWhenInitialized`, `AllTerminated`, `BecomesReady`, `BecomesUnready`, `ShutdownCompletes` | 1 stream, 2 tasks or futures, 2 signals, 2 items or errors |
| `server_drain` | `ServerTypeOK`, `RequestsComplete`, `ServerDrains` | 3 connections, 2 signals |

Why the bounds are enough. In the lease runs a duration of 2 or 3 ticks and a
grace of 1 give every order of renewal, expiry and take-over; 4 versions allow
an acquisition, a renewal or a vacate, a take-over and a late patch after it;
`U16 = 3` in `lease_faults` tells a count that is one too high from one that is one
too low, and a third acquisition asks for the count that wraps; in the other lease
runs, with `U16 = 2`, the wrapped count is written. `lease_task_timely` needs more versions since a
task that is never late renews at every tick. The index needs two lists and a
resource in each of the relations to them (kept, removed, added): three names.
Two versions tell an old one from a new one. Of those names two share a
namespace and one is alone in its own, so that a namespace is emptied by one
deletion or by two; the two were created at once, the other one later, so that
the states have ties and have none. Two clients and two workers make two handlers
run at once, which meet at the same list or are at one each; what a handler does
in a list of several references is proved (`DiagnosticsProofs`). One event makes a
state that is torn differ from one that is not. Two objects make the delay queue
reuse keys. Two errors in a row are what makes `LogAndSleep` sleep. Streams
meet only in the handles and watches they hold, as a stream and a task do.

`CHECK_DEADLOCK FALSE` is set where the modelled system really ends: lease
tasks, the requeue stream, the runtime, the server. The other models have no
end and are checked for deadlock.

### Where the code and its documentation disagree

| run | property | what TLC shows |
|---|---|---|
| `lease_subsecond` | `Exclusive` | a duration with a fraction of a second is truncated for others but not for the holder: two owners, with no fault at all |
| `lease_task_conflict` | `DropVacates` | the task's final vacate is not retried after a conflict: the lease stays claimed |
| `index_stale` | `Exact` | a list that fails before `InitDone` makes the next one forget the names to remove: deleted resources stay in the index, or are put into it |
| `runtime_readiness` | `NotReadyAfterShutdown` | the shutdown is initiated while a watch that has yielded nothing holds its handle; its stream is dropped, and readiness goes from failure to success |

`findings` in `PROJECT.json` quotes the lines. `ResetsAreExact` and `NothingLost`
show that in the model only a list that is cut short can make the index
inexact, and that even then no live resource is missing from it.

One more disagreement is part of a property that holds. `lib.rs:68-69` says of the
resources of a watch that "their state can easily be compared via the 'checksum'
field". `ChecksumTells`, checked in `index_namespaced` and proved, says that instances
which know the same resources all report the same checksum if *and only if* no two
of the resources were created in the same second: `summary` sorts by the creation
timestamp alone, and ties stay in the order of a hash map (`watch.rs:184-185`). So
different checksums do not show that the resources differ; equal ones show that
they are the same, ties or not.

Exclusion is also lost if the API server applies a vacate after its caller gave
up on it and got the claim back by `sync`: with equal clocks, whole seconds and
`LateKinds = {"vacate"}`, TLC finds two owners in `Lease`. A lease task ends
with its vacate, so this takes an application that calls `vacate` itself:
`lease_task_timely` has late vacates, and `Exclusive` holds. (It has no crashes: a
process that restarts with the same identity is in the position of such an
application.) No line of the repository says what a timed-out vacate may do, so
this is a limit of the promise and not a disagreement: `Inv` and the theorems
that rest on it assume that no vacate is applied late. Under that assumption `OverlapIsBounded` says that skew and
truncation are all that can make two claims overlap.

## 4. Fairness

* `LeaseTask`: a spawned task is polled when it can run, and a call in progress
  moves on or fails, since `API_TIMEOUT` bounds it. Nothing is assumed of time,
  of the other writer, or of receivers.
* `Requeue`: the stream is polled after it was woken, until it is dropped; a send
  that has room goes on, and one whose receiver is gone fails; time passes.
  Nothing is assumed of when senders send or are dropped. (A stream that
  `CancelOnShutdown` has ended is not polled again: its senders wait until the
  consumer drops it. That an expired object is returned while senders go
  on sending is not guaranteed: the loop takes all operations first.)
* `Runtime`: tokio runs its tasks; consumers poll their streams and drop those
  that have ended; application tasks end once they are notified, which is the
  contract of `shutdown_handle`. Nothing is assumed of new items or of the
  delay after errors.
* `Server`: tasks run, and hyper closes idle connections that were told to shut
  down. Nothing is assumed of handshakes, for which the code sets no timeout, or
  of requests in progress, which the application answers when it likes.
  `ServerDrains` therefore says that the shutdown completes unless such a handshake
  or request goes on for ever, and that then no other task holds it up.
* `Admin`: tasks that are ready run, a lock that is released again and again goes
  to each that waits for it in the end (`parking_lot`'s locks are eventually
  fair), which makes the fairness of a client's steps strong, and an `inspect`
  that has begun ends. Nothing is assumed of clients, owners, or user routes.

## 5. Proofs

`LeaseProofs`, for any set of claimants, clocks, durations, bounds and faults:

* `TypeCorrect`: `Spec => []TypeOK`.
* `Invariance`: `Spec => []Inv` if no vacate is applied late. `Exclusive` is far
  from inductive: it says nothing of requests on their way. `Inv` says of every
  copy of the lease's state (a cached state, a patch, a reply, a late patch)
  what it still implies, in two parts: what holds as long as its version is the
  lease's (so that a patch that is not refused does no harm), and what holds
  regardless (its version is not ahead, its time is past). A claim is *backed*
  if the lease records it up to what truncation loses, or if it is about to
  expire.
* From it: `OverlapIsBounded`, `MutualExclusion` (equal clocks, whole seconds and
  microseconds), `NeverStolen`, `RenewalsExtend`, `TransitionsCounted`, and
  `RefinesAdvisoryLock`, the refinement of `AdvisoryLock` under the mapping of
  `owner` to the claimants whose claim is current.

The proof has one lemma per action, and lemmas for what an unchanged or a
patched lease preserves, so that each action only argues about the one copy it
changes.

`IndexProofs`: `TypeCorrect`; `NothingLost` and `DiagnosticsCorrect` from the
invariant `Follows` (buffers follow the list in progress); `ResetsAreExact` from
`Accounted` as well, which needs that lists are not cut short.

`NamespacedIndexProofs`: `NoNamespaceLeaks`, and `NamespacedImplementsCluster`,
from lemmas on what inserting into and removing from the nested map does to the
set of pairs it stands for. By this refinement the theorems of `IndexProofs` hold
of the namespaced index too: `NothingLost`, `DiagnosticsCorrect`, `TypeCorrect`.

`ChecksumsTell` is `ChecksumTells` of the watch's summary, for finitely many
resources with any creation timestamps. By `DiagnosticsCorrect` the known resources
are those of the API server, so that it is left to show that a finite set with an
injective key has exactly one sorted order, whatever order the hash map has
(`OneOrder`, `OrderExists`), that one with two elements of the same key has another
(`TiesSwap`), and that sequences of different resources differ
(`ChecksumsDisjoint`).

`LeaseTaskProofs`: every step of a task is a step of its manager or none
(`TasksAreManagers`), so that `TasksExclude` and `TasksImplementLock` follow from
the theorems about `Lease` under the same assumptions. `TasksTypeCorrect` needs
that a call is in progress only in the states of the task that make one, and that
a task which is to try again has a retry left (`TaskOK`).

`TasksRelease` is `EndedReleased`, for any clocks and durations, if no vacate is
applied late. The hazard is a renewal that the task, or a former process with its
identity, gave up on: applied later, it would bring back a claim of which the task
does not know. The argument (`Settled`, on top of `Inv`) is that a patch of `c` that
would still be applied was worth sending for the version of the lease that it was
made for (`Ripe`); so if `c` reads that version again `ensure_claimed` does not
return at once but sends a patch, and the reply to it tells that the old patch is
out of date (`Stale`). Hence a task that waits knows of any claim of its own in the
lease (`Covered`), and one that ends without a patch has none that is current.

`TasksKeepTheirClaims` is `NoLapse`, under the assumptions that calls return and due
tasks run within a tick (`Timely`), that no vacate is applied late, and that clocks
and roundings differ by less than the grace period and the lease's duration
(`Slack`). The invariant (`Kept`, on top of `Inv`) says that a published claim has
more than the slack left, so that it is backed by the lease and not merely about to
expire; hence a task whose patch was refused finds its own claim when it reads the
lease again. The theorem and the run `lease_task_timely` cover different ground: the
run has late vacates and no crashes, the theorem crashes and no late vacates. (The
invariant with crashes and late renewals was also run through TLC, with equal and
with skewed clocks.)

`DiagnosticsFollowTasks` is `DiagnosticsFollow` and assumes nothing: any clocks,
any failures, and late patches of every kind. It therefore cannot rest on `Inv`,
which excludes late vacates. `DiagInv` keeps only what a `resourceVersion` vouches
for: a state, request or reply with the lease's version names the lease's holder
(`Versioned`), and the report is that of the manager's state but for the claim
that `vacate` takes out of it before it patches (`Following`). `DiagnosticsWatch`
shows that a task with diagnostics behaves as one without, fairness included, so
that every theorem and every liveness result about tasks holds of it.

`RequeueProofs`: `TypeCorrect`, and `KeysPaired`, which is inductive together with
the types: an object gets a free key, and a key is freed with its object. On it
rests `ChannelImplementsSchedule`, the refinement of `Schedule`. When an object is
due is a function of the channel and of the receiver's entry for it (`DueOf`); the
lemmas show that an operation which is sent changes it as the operation says, and
that receiving one leaves it alone, since what the last operation in the channel
says comes first. That the stream does not end early needs that it saw the channel
closed only when empty and without senders (`Shut`).

`DiagnosticsProofs`: `SummariesUntorn`, from an invariant that says that a state
which no `inspect` is changing has contents and statistics of the same moment;
the handler reads only such states. `SummariesComplete` and `DroppedCollected` need
to know, in the middle of a call, what the handler still owes (`Owed`): what has
been alive since the request is in the summary, yet to be visited, or in the list
that is yet to be locked; nothing is in two of these or twice in one; and what was
dropped before is in none of them once the list has been retained. Lists are
locked by one handler at a time, and another one's `retain` only removes what is
gone. `Vec::retain` is the subsequence chosen by an increasing bijection
(`Retained`), of which lemmas show that it exists and what it keeps. `AdminTypes`
is `AdminTypeOK`, which also says for whom summaries are made.

`RuntimeProofs`: `TypeCorrect`; `ReadinessWaits`, since the count of permits to
wait for is that of the handles in use, and none is added once `run` has begun;
`ShutdownWaits`, since whoever is in use holds a `drain::Watch` (`Held`,
`Watching`). `ServerProofs`: `TasksHoldWatches`, `RequestsCompleted`, likewise.

Assumptions on constants are the `ASSUME`s of the modules: bounds are naturals,
markers such as `None` are not values, the names of tasks differ.

Every invariant, action property and refinement of a passing run is proved. The
theorems that rest on `Inv` assume that no vacate is applied late; `Exclusive` and
`NoLapse` are model-checked with late vacates as well, in `lease_task_timely`.

Only model-checked: liveness (`DropCompletes`, `Answered`, `ListsReleased`,
`DrainsAndEnds`, `SendersProceed`, `BecomesReady`, `BecomesUnready`, `ShutdownCompletes`,
`ServerDrains`), which needs fairness and `ENABLED` and is out of the prover's reach.

## 6. Mutants

Every property of every passing run has one: a version check left out, a clock
compared with `<=`, a buffer not cleared, a latch released too early, and so on.

## 7. Plan

Done: the lease manager, its task and its diagnostics, the index and watch
diagnostics, requeue, shutdown and readiness, the HTTPS server, the admin server
with its diagnostics, and the proofs of section 5.

Next, in this order:

1. Proofs: `Exclusive` and `NoLapse` of tasks whose vacates may be late, where no
   process is restarted under its former name.
2. A process: `Runtime`, `Server` and `ClusterIndex` under one `Shutdown`, with
   the consumer of a stream as the index handler.

## 8. Not modelled

* Building a runtime, the client and logging: straight-line set-up, which ends in
  an error or in the initial states of the models. `with_handler` is among it: it
  refuses `/ready` and `/live`; a handler for `/kubert.json` is accepted, and never
  called when diagnostics are built in, since `handle` looks at that path first.
* The bodies and statuses of the admin server's answers, other than what a
  summary contains. The connections' header timeout and keep-alive are hyper's.
* Runtime, process and tokio metrics: counters and gauges nothing depends on.
* The TLS back ends: a handshake that succeeds or fails.
* The counts and times in the diagnostics' statistics, beyond that they change
  together with the contents.
* The intervals of the lease task's backoff: only that it retries, and at some
  point gives up.
* The examples: they are consumers, and the models let a consumer do anything the
  interfaces allow. An index that does more than the default `reset` is theirs.
