# Cua Driver: the verification project

TLA+ models of Cua Driver, the background computer-use driver under
`src/libs/cua-driver`: modules, TLC configurations that check them on small
instances, and TLAPS proofs of what matters most. Paths below are relative to
`libs/cua-driver/rust/crates/` of the repository. `PROJECT.json` holds the
machine-readable side: components, runs, mutants, the map from definitions to
source lines, findings, hazards and theorems.

## 1. Inventory

Cua Driver serves *tool calls* (click, type, read the screen, drive a browser)
from agents. A call comes from the daemon's socket, the MCP proxy, the HTTP
server or the SDK; all of them meet at one dispatch function, which decides
whether the call may run and then hands it to a platform tool.

| Component | State | Operations | Talks to | Module |
|---|---|---|---|---|
| Session lifecycle, `cua-driver-core/src/session.rs` | process-global maps: tombstones, live records, activity, cleanup progress, hooks; suspended runtimes | admit a dispatch, drop its guard, end (one, an owner's, idle ones, all), clean up and retry, revive, renew | everybody | `SessionLifecycle` |
| Transport owners, same file | a `live` flag per connection | admit under the flag, close | daemon, dispatch | `SessionLifecycle` |
| Session tools, `session_tools.rs` | none | start, escalate, end, get, list | lifecycle, capture scope | `SessionLifecycle` |
| Capture scope, `capture_scope.rs` | policy per session, whether the desktop is unlocked | bind, escalate, clear, enforce | session tools, dispatch | `SessionLifecycle` |
| Canonical dispatch, `tool.rs` | per-call locals and guards | the checks, awaits and guards of one call, in order | all of the above, platform tools | both cores |
| Desktop authority, `desktop_authority.rs` | coordinator mutex, epoch, sticky `cleanup_unknown` | acquire, drop a lease, quarantine | dispatch, macOS platform | `DesktopAuthority` |
| Desktop bindings, `platform-macos/src/foreground_activity/desktop.rs` | a bounded registry of one-use observations | capture, register, consume, check before each effect | authority, lifecycle | `DesktopAuthority` |
| SDK adapter, `cua-driver/src/sdk_adapter.rs` | `session_lifecycle` lock, a mirror of ended labels | invoke, revoke all | dispatch, lifecycle | `SessionMirror` |
| SDK runtime, `cua-driver-sdk/src/runtime.rs`, `abi.rs` | shutdown flag, lifecycle lock, operations, trusted handles | invoke, cancel, create and close a session, sweep, shutdown | lifecycle, delegated authority | `DriverRuntime` |
| Delegated authority, `session_authorization.rs` | authorization contexts by connection | bind, resolve, revoke, expire | runtime, daemon | `DriverRuntime`, `TrustedResume` |
| Daemon, `cua-driver/src/serve.rs` | control sessions, transport owners, resume records | register, end on EOF, invoke, trusted begin, resume, detach | adapter, lifecycle | `ProxyTransport`, `TrustedResume` |
| stdio proxy, `cua-driver/src/proxy.rs` | control connection, look-ahead queue, the call in flight | forward, read ahead, cancel, settle, retire | daemon | `ProxyTransport` |
| Client of trusted sessions, `cua-driver-sdk/src/service_session.rs` | a connection, a credential, a mutex and a closed flag | call with deadline, resume, close, abandon | daemon | `TrustedResume` |
| Computer history, `cua-driver-core/src/history.rs` | queue, writer thread, encrypted chunks, key, persisted state | admit and complete an action; enable, disable, pause, resume, flush, delete, query | dispatch | `ComputerHistory` |
| Foreground segments, element cache, authorization and consent, recording, browser engine | | | dispatch | none |
| Platforms, overlay, bindings, CLI, installers, CI | mostly native I/O | | | none |

### What is hard here, and what makes each part correct

*Lifecycle.* Six mutexes guard maps that are related to each other. Ends are
decided in one critical section and carried out in later ones; dispatch guards
defer them; bulk ends list ids first and end them one by one; hooks run
outside every lock and may fail; an id may be ended and revived while an
operation on its last episode is under way. Correct means: a session is never
live and ended at once; an id never changes transport; an end that was deferred
happens; a connection that is gone keeps no session; a failed cleanup can be
retried; no policy leaks from one episode into the next.

*Desktop authority and bindings.* Requests are cancelled while their native
workers run on; a worker that cannot be stopped must keep everybody else out
for ever without leaving anybody waiting; an observation must not authorise an
action once any other action has touched the screen. Correct means: mutual
exclusion of leases by reference, currency of the admitted view, finality of
the quarantine, no lost wake-up.

*Adapter.* It marks a label as ended before it knows whether the core will
end it, rolls the mark back on an error, and is told of other ends by a hook at
a time of its own. Correct means: once everything has settled, what is ended
is marked; nobody waits for the lifecycle lock for ever.

*Runtime.* Operations are tasks that can be dropped wherever they await; what
they started on a blocking thread runs on. Correct means: a shutdown returns and
nothing is left after it; a closed handle loses its authority although other
operations still refer to it; each operation calls back exactly once.

*Proxy and daemon.* Three processes (client, proxy, daemon), any of which may go
at any time; calls in flight survive the proxy that asked for them; the daemon
may be replaced behind a proxy's back. Correct means: calls are forwarded in
order, "settled" is never said of a call that still runs, and no session
outlives the connection of the proxy it belongs to.

*Trusted resume.* Answers may be late or lost, credentials are rotated at each
use, and a detached session expires. Correct means: an identity is held once;
client and daemon agree on the credential or the client has given it up; no
answer is taken for that of another request; an ended session is not resumed.

*Computer history.* Numbers, keys and the user's choice have to survive the end of
the process between any two storage operations, each of which may fail. Correct
means: numbers on disk increase; what a control operation confirmed holds;
no new key takes the place of one that decrypts a chunk; control operations
return although the queue is full.

The full list, each hazard at its source line with the properties that cover
it, is `hazards` in `PROJECT.json`.

## 2. Modules

| Module | Models |
|---|---|
| `SessionContract` | the abstract specification of sessions: open, end, resume, close, each in one step |
| `SessionLifecycle` | the lifecycle, its tools, transport owners, capture policies, sweep, revoke-all |
| `SessionRefinement` | the refinement mapping from the lifecycle to the contract |
| `SessionLifecycleClaims` | a statement of the source about the lifecycle that the code does not keep |
| `DesktopAuthority` | the authority, leases, captures, bindings and desktop actions |
| `SessionMirror` | the adapter's mirror of ended labels, over `SessionContract` |
| `ProxyTransport` | proxies, control connections and calls, over `SessionContract` |
| `DriverRuntime` | one runtime behind the C ABI, with trusted handles and shutdown |
| `TrustedResume` | trusted sessions of the daemon and the client that resumes them |
| `ComputerHistory` | the history manager, its writer and its store |
| `MC...` | finite instances for TLC |
| `SessionLifecycleProofs`, `SessionSafetyProofs` | theorems about `SessionLifecycle` and its refinement |
| `DesktopAuthorityProofs`, `SessionMirrorProofs`, `ProxyTransportProofs`, `DriverRuntimeProofs`, `TrustedResumeProofs`, `ComputerHistoryProofs` | theorems about the module each is named after |

How they compose: `SessionLifecycle` implements `SessionContract`; `SessionMirror`
and `ProxyTransport` are built on the contract, whose actions they call where
the code calls into `session.rs`. What the contract promises and the lifecycle
was shown to keep is thus all that the upper modules rely on.

### SessionContract and SessionRefinement

`status` is "unused", "live" or "ended", `holder` the transport an id belongs
to, `open` whether a transport's connection is there. `SessionRefinement` maps
an id with a record to "live" and one with a tombstone to "ended". The contract says in
particular that an id has one holder for life, that only this holder resumes it, and that
a closed transport opens and resumes nothing; with its fairness, that the sessions
of a closed transport end.

### SessionLifecycle

One step is one critical section of one thread. `tombstone`, `owner`,
`inFlight`, `pendingEnd`, `activity`, `cleanup`, `completed`, `scope`, `live`
and `suspended` are the contents of the mutex-protected maps; `pc`, `call`,
`sess`, `tran`, `want`, `batch`, `work` and `won` are a thread's place and
locals. Where the code releases a mutex and takes another, the model has two
actions, so every interleaving of the code between them is a behaviour. Where
it nests mutexes (tombstones, then records, then activity), it has one.

* a tool call: `CallTool` (early checks), then `BeginDispatch` or
  `RefuseDispatch`, `BeginTouch` (activity, after the records are unlocked),
  `EscalateLookup`/`Escalate` if the tool is `escalate_session`, `DropGuard`;
* the ends: `EndTool`/`MatchTombstone`, `CloseTransport`/`EnumerateOwned`,
  `SweepRecords`/`SweepActivity`, `RevokeAll`/`RevokeEnumerate`, all of which
  go through `EndNext`;
* the end of an episode: `MarkEnded`, `ClearScope`, `InitCleanup`, and the
  attempts `StartCleanup`, `RunHook` (success or failure), `RecordCleanup`;
* `start_session`: `StartTool`, `StartCheck`, possibly a cleanup attempt, then
  `Revive` or `RefuseRevive`, `StartTouch`, `Bind`;
* `Heartbeat` and `Expire` (the age of an entry is only whether it exceeds the
  TTL).

`LiveHeld` models the one mutex that *is* held from one action to another: the
owner's `live` mutex, from admission until the activity entry is written.
`Serialized` says whether start, end and revoke calls hold the adapter's
`session_lifecycle` lock (they do in the daemon; SDK users have no adapter).

### DesktopAuthority

`holder` and `queue` are tokio's fair mutex; `epoch`, `unknown` the two
atomics; `notified` which `Notified` futures have fired. A lease is an `Arc`:
`refs` is who holds one ("dispatch", "worker"), and dropping the last passes
the permit to the head of the queue. `capture`, `registry` and `admitted` are
a capture under way, the registered observations and the consumed one. The
history field `clean` of a binding says whether another action has changed the
screen since its capture; it is never read by an action. Time, geometry and
user activity enter as `state`, changed by `ExpireBinding`, `ExpireCapture` and
`Disturb`; `Cancel` and `DropRef` are request cancellation, before and after
the lease is granted; `CleanupUnknown` may strike any holder.

The tokio mutex, `Notify` and task cancellation are external to the repository
and modelled from how it uses them.

### SessionMirror

`mark` is `PublicSessionState.ended` (who marked a label last), `known` the labels
the adapter has seen, `lock` the `session_lifecycle` mutex, `due` the ends
whose hook has yet to run. A request calls (`Call`), starts (`Start`, the core's
resumption; `StartReturns`, the unmarking), ends (`LockEnd` marks, `End` is the
core's end, `EndHook` its hook, `EndReturns` rolls back if the core failed) or revokes
everything. `TrustedCall` is a call through a trusted connection, which the daemon
dispatches through a `CuaDriverSession` of its own: it opens or resumes a session of
the same runtime, takes no lifecycle lock and adds nothing to `known`. `EndElsewhere`
is an end that nobody asked the adapter for. A mark is a fresh number in the code and
only compared with the mark of the comparing call: here it is the name of the call.
`overtaken` (ended before its own start returned) and `revoked` (marked by revoke-all)
are history variables, read by properties only.

Revoke-all marks the labels in `known` and no others, so `EndsAreMarked` promises a
mark for good to those only. A session that was opened past the adapter and is busy when
revoke-all strikes is live and unmarked when it returns; its label is marked by the hook
of its deferred end. Until then only the core's own suspension check refuses it.

### ProxyTransport

`reader`, `registered` and `open` are the daemon's side of a control connection
(task, `ACTIVE_PROXY_SESSIONS`, `TransportOwner`), which end in that order
(`ControlEnded`, `Unregister`, `CloseOwner`). `proxy`, `pipe`, `queue`, `active`
are the proxy's place, unread input, look-ahead queue and call in flight;
`dispatch[p][n]` is the daemon's task for a call, which goes on whatever
happens to the proxy; `exit` says how a proxy ended. `Kill`, `Crash`, `Restart`
are ends of processes; `ExchangeTimeout`, `SettlementTimeout`,
`ControlTimeout` and `ControlLost` are timers, which may fire whenever armed.

### DriverRuntime

`readers` and `writer` are the fair lifecycle lock and `halted` the flag of the
runtime; `op` and `worker` separate an operation's task from the blocking work
it started, since cancelling drops the first and not the second. `handle` is what
the owner of a trusted session sees, `context` and `registered` what the
authorization registry has. `KeptWithout` is the reference count of a handle's
session: authority is revoked when the last reference goes.

### TrustedResume

A connection is a record: its request and its answer in the socket, whether the
client hung up, the place of the daemon's task (`pc`, `task`), the credential it
is bound under (`bound`) and its authorization `context`. `records` are the
resume records of the daemon, `minted` the last credential of a client,
`credential` the one the client believes in. The clock enters as `Overdue` and
the `Expire...` actions; other sessions that may take the label are one
`rival`. A client waits, gives up at its deadline, breaks its connection
(`Breaks`), resumes on a new one with retries, closes or abandons.

### ComputerHistory

On disk: `persisted` (`state.json`), `chunks`, `key` and whether this build may
read it; in memory: `enabled`, `paused`, `next`, the bounded queue and the
writer. Control operations are serialised, put their request into the queue and
wait; a dispatch never waits (`SendStarted`, `SendCompleted` drop on a full
queue). `Crash` and `Restart` may come between any two steps; every storage
operation has a failing branch. `Age` and `RotationDue` are the passing of a
retention and of an interval. `chunks` maps the place of a chunk in the order of
creation to what it holds: the writer appends to the newest, and pruning may take any
other without moving the rest.

## 3. Runs

| Run | Instance | Checks | Distinct states |
|---|---|---|---|
| `SessionSafety` | 1 session, 2 transports (1 leased), 2 callers, sweep, operator, 1 hook, no policy, no adapter lock | `TypeOK`, `LiveExcludesEnded`, `PendingEndHasGuard`, `ClosedOwnerIsSwept`, `ImplementsContract` | 2,103,900 |
| `SessionLiveness` | 1 session, 1 leased transport, 2 callers, 1 hook, 1 policy, adapter lock, fairness | `EndedScopeIsCleared`, `RunningCleanupHasRunner`, `DeferredEndHappens`, `ImplementsFairContract` | 560,973 |
| `Desktop` | 2 dispatches, 2 owners, epochs to 2, registry of 1, fairness | `TypeOK`, `LeaseIsExclusive`, `AdmittedViewIsCurrent`, `QuarantineGrantsNothing`, `AcquireReturns` | 447,136 |
| `Mirror` | 1 label, 2 transports (1 leased), 2 requests, fairness | `TypeOK`, `EndsAreMarked`, `LifecycleCallsReturn` | 43,882 |
| `Proxy` | 1 proxy, 6 input scripts of up to 3 calls, queue of 1, daemon down twice, 1 session, fairness | `TypeOK`, `ForwardedInOrder`, `SettlementIsProof`, `NoSessionWithoutConnection`, `EofEndsProxy`, `SessionsEndWithProxy` | 70,349 |
| `Runtime` | 1 operation, 2 handles of 1 label, 2 shutdowns, fairness | `TypeOK`, `ShutdownLeavesNothing`, `ClosedAuthorityEnds`, `ShutdownReturns`, `CallsBack` | 219,464 |
| `Resume` | 1 client, 2 calls, 1 retry, 1 crash of the daemon, fairness | `TypeOK`, `IdentityHasOneHolder`, `AnswerIsOwn`, `CredentialsAgree`, `EndedIsFinal`, `RequestReturns`, `AuthorityEndsWithConnection` | 109,833 |
| `History` | 1 action, 3 control operations, queue of 1, 1 end of the process, 1 tick, fairness | `TypeOK`, `StoredInOrder`, `ConfirmedHolds`, `KeyNotReplaced`, `ControlReturns` | 1,244,519 |
| `Claim...` | small instances | one refuted statement each (section 4) | |

`SessionSafety` is reduced by the symmetry of the callers, which no definition
tells apart; it has no liveness property.

*Why these bounds.* The lifecycle's maps are indexed by session id and no
critical section relates two ids, except that a bulk end lists several, which
are then ended independently. One id with four threads covers every pair
of racing operations and the triples (end, revival, dispatch) on which the subtle
cases rest. Two transports are needed for ownership, of which one is leased and one
is not. In `Desktop`, two dispatches suffice for exclusion and staleness (one
captures, the other acts in between) and a registry of one makes its limit
bite; two epochs let two actions follow a capture before exhaustion.
In `Mirror` two requests are one that marks and one that unmarks; the hook and
revoke-all are actors of their own. In `Proxy`, a queue of one is full with the
second call read ahead while the third is in the pipe; two failures of the
daemon let a proxy meet a daemon it was never registered with, twice. `Runtime` has two
handles of one label, so that one takes the label after the other, and two
shutdowns, so that one finds the other at work. `Resume` has two calls, one of
which can be late for the other, and a crash, after which every record is gone; its
connections are as many as these bounds allow. `History` has three operations, which is
what it takes to enable, change one's mind and look at the result, around an
end of the process. What the bounds leave out is, for the properties of section
5, covered by the proofs.

Deadlock checking is off (`CHECK_DEADLOCK FALSE`) in all runs: each of these
systems may come to rest, with every transport closed and the runtime suspended,
with a quarantined lease that is never released, after a shutdown, or when the bound
on calls, crashes or operations is reached.

*Fairness.* All of it is weak but for one: nothing that comes from outside (a
call, a cancellation, an end of a process, a restart, a disconnection) is ever
required to come.

* `SessionLifecycle`: the steps of a thread inside a handler. No mutex is held across
  an await or a hook, tools return (the dispatch future is polled to its end or
  dropped, and the guard with it), and threads are scheduled. `EscalateLookup`
  is not fair: no tool need be an escalation.
* `DesktopAuthority`: an acquire that is ready runs, and a lease is released or
  quarantined: captures (`CAPTURE_LIMIT_MS`), actions (`ACTION_LIMIT_MS`) and
  reaping (`REAP_MS`) have deadlines. Nothing is assumed of a lease once cleanup is
  unknown: the reaper may hold it for ever.
* `SessionMirror`: a request that has the lock proceeds, a hook runs, and a
  request that waits for the lock gets it in its turn. The last is strong
  fairness, because `tokio::sync::Mutex` is a FIFO queue: the lock is free again
  and again, and the waiter is not passed over for ever.
* `ProxyTransport`: a process that is not killed goes on, armed timers fire, a
  session of a closed owner ends (which is what `ImplementsFairContract` shows of the
  lifecycle). That a tool returns or a daemon comes back is not assumed.
* `DriverRuntime`: the executor polls every task, blocking work ends. The lock is
  modelled as the fair lock it is, so that no fairness is asked of it.
* `TrustedResume`: the client's threads and its deadlines, the daemon's
  connection tasks. A tool may never return. On Windows, where the client's read has no
  deadline, `RequestReturns` would need the tool to return.
* `ComputerHistory`: the thread of a control operation, and the writer's.

*Mutants.* Operators with an underscore in their name (`LeftAfter_Wrapping`) are
the mistakes that show each property can fail: a dropped tombstone check, a lost
owner, a counter off by one, a recheck left out, a waiter that subscribes late, a
credential that is not rotated, a state that is not persisted. No specification
uses them.

## 4. Where the source says one thing and the code does another

Each is a run that TLC refutes; the quotations are in `findings`.

1. `ClaimFirstFireRunsHooks`: "the FIRST fire for a given `session_id` runs every
   hook". A session revived before the hooks of its last end have run can be ended again
   while they run; both attempts share one progress entry, the older completes it, and
   the hooks of the newer end never run.
2. `ClaimRefusalMeansEnded`: the mirror refuses calls of ended labels. `end_session` by
   a transport that does not own the label changes nothing in the core and succeeds, and
   its mark stays: the owner's live session is refused from then on. In this instance both
   transports are leased, which leaves trusted connections out: a session resumed through
   one stays marked too, since only the adapter's `start_session` unmarks.
3. `ClaimShutdownWaitsForWork`: shutdown "does not return while a previously admitted
   operation is still executing". Cancelling an operation aborts its task and with it the
   read guard; the blocking work it started goes on and shutdown does not wait for it.
4. `ClaimNewerIsHigher`: a client of the history may ask for what is "above the last
   sequence it has processed". When a query has pruned every chunk while no writer ran,
   numbers start at one again.

Seen while modelling, without a run of their own:

* An idle eviction can end a session whose guard is alive, if the call was
  admitted after the sweep read `in_flight`; and one that was renewed after that.
  When the last guard carries out a deferred end it clears `pending_end`
  before the tombstone is in place, so that a call admitted in between runs
  through the teardown. A revival may precede the hooks of the ended episode, and a call
  that awaited its consent across revoke-all is admitted after it. The gaps cost a call
  its session, never an owner its id: `LiveExcludesEnded`, `PendingEndHasGuard` and the
  refinement hold in spite of them.
* A `begin_action` that has passed `is_capturing` stores its start event after the
  marker of a pause that came in between. A crash between the persistent state and the
  marker of a resumption leaves capture on without a marker. A `begin_action` that
  races `delete_all` may create a namespace key again after the deletion. A rotation that
  fails during a query can leave a chunk that cannot be read, and later reads are refused:
  the documented way to fail.
* A client of trusted sessions gives its credential up when the old call outlasts the
  retry window; the record that is published afterwards waits for its expiry.

## 5. Proofs

All theorems hold for every value of the constants that satisfies the named
assumptions of the module: ids are distinct from the null values, hooks are a finite set
of numbers (they run in order of their id), bounds are natural numbers, the queues
of the proxy and of the history have room for one, and the calls in the input of a proxy
are numbered in the order in which they are written (`NumberingAssumption`, which says
what the numbers mean and constrains no program).

| Theorem | Statement |
|---|---|
| `TypeCorrect` | `Spec => []TypeOK` (lifecycle) |
| `LiveOrEnded` | `Spec => []LiveExcludesEnded` |
| `TombstonesHaveOwners`, `OwnershipIsForLife` | `TombstoneKeepsOwner`, `OwnerIsForLife` |
| `NoPolicyOutlivesItsEpisode` | `Spec => []EndedScopeIsCleared` |
| `NoAbandonedCleanup` | `Spec => []RunningCleanupHasRunner` |
| `DeferredEndHasCarrier` | `Spec => []PendingEndHasGuard` |
| `ClosedConnectionIsSwept` | `Spec => []ClosedOwnerIsSwept` |
| `LifecycleImplementsContract` | `Spec => ImplementsContract` |
| `DesktopTypeCorrect`, `LeasesExclude` | `TypeOK`, `LeaseIsExclusive` |
| `UntrueBindingsAreRetired`, `ActionsActOnTheirView` | `UntrueBindingIsRetired`, `AdmittedViewIsCurrent` |
| `QuarantineIsFinal` | `Spec => QuarantineGrantsNothing` |
| `MirrorTypeCorrect`, `MirrorMarksEnds` | `TypeOK`, `EndsAreMarked` |
| `ProxyTypeCorrect`, `SessionsAreAttached`, `SettlementIsProved`, `CallsKeepTheirOrder` | `TypeOK`, `NoSessionWithoutConnection`, `SettlementIsProof`, `ForwardedInOrder` |
| `RuntimeTypeCorrect`, `ShutdownIsComplete` | `TypeOK`, `ShutdownLeavesNothing` |
| `IdentityIsHeldOnce`, `EndsAreFinal` | `IdentityHasOneHolder`, `EndedIsFinal` |
| `TypesHold`, `AnswersAreOwn`, `CredentialsStayAgreed` | `TypeOK`, `AnswerIsOwn`, `CredentialsAgree` (trusted resume) |
| `ConfirmedStateHolds` | `ConfirmedHolds` |
| `TypesHold`, `NumbersStayInOrder` | `TypeOK`, `StoredInOrder` (computer history) |
| `KeyStays` | `Spec => KeyNotReplaced` |

`TombstoneKeepsOwner`, `OwnerIsForLife` and `UntrueBindingIsRetired` are steps on the
way to other theorems and have no run of their own.

### The lifecycle

*Type correctness* includes that a thread at a place that works on a session has
one, without which no `EXCEPT` on `sess[t]` is well defined; it is inductive. The
proof goes by helper: what `Return`, `EndRest` and `AfterCleanup` do to the locals is
a lemma each, used by every action that ends in one of them.

*Live or ended* is inductive with `TypeOK`: only three steps write `owner` or
`tombstone` (`OwnershipSteps`), and each reads the other map in the same
critical section.

*Tombstones have owners* is not inductive: `MarkEnded` copies the owner from the
record, and nothing local says that a thread that marks an id has a live record or
a tombstone before it. The inductive invariant `IInv` strengthens it by `Known`: an id
with a record, an activity entry, a policy, a place in some thread's list, or a
thread at work on its end has an owner, live or ended. `ControlOK`, `RecordOK` and
`KnownOK` are its parts. *Ownership is for life* is an action property that follows
from the same invariant.

*No policy outlives its episode* and *no abandoned cleanup* are inductive with the
earlier invariants, because few steps write `scope` and `cleanup` (`ScopeSteps`,
`CleanupSteps`) and a thread at `clear` or `hooks` leaves its place by one action only
(`PlaceIsKept`).

*A deferred end has a carrier* (`SessionSafetyProofs`) compares a counter with the number
of threads that hold a guard. A step moves one thread (`OneThreadMoves`), so that
the set of guards grows or shrinks by one element at most, and the cardinality
theorems of the library turn that into arithmetic; `GuardSteps` says which steps change the
counter. *A closed connection is swept* needs that whoever closed the transport
has, or will list, each of its sessions; the invariant follows the thread from the
closing of the flag through its list.

*The refinement* (also in `SessionSafetyProofs`): initial states map to initial states, and
each step to `Open`, `End`, `Resume`, `Close` or a stutter of the contract. It needs
the ownership invariant (a session that is opened anew has never had a holder, one
that is resumed has had this one) and that a transport without a lease is never closed
(`UnleasedIsOpen`).

### The desktop

*Quarantine is final* is a step property that needs no more than `TypeOK`. Exclusion
comes from `HolderOK`: a dispatch that was granted or holds a lease has the permit. The
other two need all the layers of `Inv`:

- `LeaseOK`: while a lease is held, `stamp` is the epoch and `before` is one less if
  the tool mutates. Only `Grant` moves the epoch (`LeaseSteps`), and nobody else holds.
- `CaptureOK`: a capture under way is of the current epoch and clean: the one who
  captures holds, so nobody mutates.
- `RegistryOK` and `FreshOK`: no binding is of an epoch after the mutating holder's
  `before`, and none that is already untrue is of that epoch while the holder has not
  acted. So the first effect of an action makes untrue only bindings older than the
  epoch (`UntrueBindingIsRetired`), and `admit`, which wants `epoch = before`, can
  only take one that is true (`AdmittedOK`).

### The modules above

*Mirror.* `MarkOK` adds to the property what each request under way may still do to a
label: one that is about to unmark it has a session that lives or was overtaken
(`StartOK`), one that may roll back either does not own the mark or has an older
one to restore (`EndOK`). A label settles only through a hook, which marks
it (`Settles`). `RevokedOK` is the counterpart for what revoke-all has marked: the lock
keeps starts and ends out until the marks are made, a start that gets it later is refused
by the suspended core and unmarks nothing, and an end remembers the mark it replaces. It
speaks of `revoked`, not of `known`, because labels named later are known but unmarked.

*Proxy.* `Attached`: a call that is past the check of its owner was sent by a
proxy the daemon is still linked to, so that the session it opens has a connection. Only
a crash unlinks a proxy, and takes the calls and sessions with it. `Accounted`:
what the daemon runs for a proxy is what the proxy awaits, or what it has reported as
failed, or the proxy has failed itself. `Ordered`, for the order of calls: whatever has
a lower number than a call that was read ahead or is still in the pipe is *past* (told
or awaited), or stands before it, in the queue or in the pipe. The call the loop takes
has nothing before it and nothing is awaited, so all the lower ones were told. The end of
a proxy empties its queue but not its pipe, which is why the part about the two ends with it.

*Runtime.* `SealOK`: from the moment a shutdown has the write lock nobody is inside
and nobody comes in, because the flag was set before the lock was asked for and an
operation that waited for the lock looks at the flag again. What the shutdown has
removed by then stays removed.

*Trusted resume.* Most steps are `Quiet`: whatever they do to a connection, they give it
no identity and make no request for a first binding. The others bind, end or detach, and each
needs that nothing else holds the identity: the first binding because there is no
credential yet (`AsksOK`), a resumption because a record excludes bound
connections and is taken before anything is bound (`RecordOK`), a detachment because the
authority of a closed connection is gone (`HeldOK`). No bound on connections is used.

The other three need `ServiceInv`, in which the client and its connection
in use are tied to each other. `TypeOK` says that the client never runs out of
connections, whose number `MaxConns` follows from the bounds on calls and retries, which is
an argument by counting: the connections opened, plus `Each` for every request that may
still have to resume (those that wait, the calls not made yet, the end), plus what the
request in hand has left, stay within `MaxConns` (`SpendOK`). It needs in turn that no
request is asked twice (`AskedOK`) and that a connection, once broken, is not waited on
(`BrokenOK`). A credential is minted by a connection for its one request to bind, so that
there are no more than connections (`MintOK`). `InStep` is what the connection in use
carries: the request in hand or the answer to it, never both, and nothing between requests.
That gives `AnswerIsOwn`. It also says that an answer to a binding carries the
credential that the daemon has bound meanwhile, and that the client's is that one whenever it
is not waiting for a binding: `CredentialsAgree`. Late answers stay on connections that are not
in use any more.

*Computer history.* `ConfirmedHolds` says nothing of an operation under way, so the
invariant adds what each has done at each step: nothing is confirmed while one changes the
state (`ChangeOK`), what it has persisted by then is what it will confirm, and without
capture there is no writer unless the operation is about to stop it (`WriterOK`). A crash
forgets all but the persisted state, and a start either takes it up or stays off. The
queue and the chunks play no part, so neither does any bound.

`HistoryInv` adds the queue and the chunks. `QueueFits` follows a number from its
admission to the disk: the events in the queue are in order, above all that is on disk and
below `next`. It is stated while the writer runs, since a writer that failed
discards what it is sent, and a start takes `next` from the chunks, all of which it could read
or it does not start. `IsBounded` and `InOrder` are what an append, a rotation, a torn write
and a pruning each keep of the chunks. The order of a store that lost some chunks is that of
the chunks left, because places are not given again while a newer chunk is there
(`HighestIs`, the greatest element of a finite set, is proved from the well-foundedness of
numbers). `StopOK`, `ShutdownIsLast` and `ThreadOK` are about the end of the writer: nothing follows
the shutdown in the queue, so that nothing is taken after it. *No key is replaced* follows from
`KeyOK`: a start reads every chunk before it asks for a key, and a dispatch that may ask for
one began under a writer, so that the key there is can be read and is the one that is
loaded. `OneKey` (the chunks agree on a key) is what leaves a new one to choose.

*The invariants and TLC.* Each invariant was checked before its proof: `Ordered` on
the instance of `Proxy` (70,349 states), the parts of `ServiceInv` on that of `Resume` (109,833),
`HistoryInv` on that of `History` with a second action (18.7 million).

### What is only model-checked

Liveness under fairness is beyond the prover (`DeferredEndHappens`,
`ImplementsFairContract`, `AcquireReturns`, `LifecycleCallsReturn`, `EofEndsProxy`,
`SessionsEndWithProxy`, `ClosedAuthorityEnds`, `ShutdownReturns`, `CallsBack`,
`RequestReturns`, `AuthorityEndsWithConnection`, `ControlReturns`). Every other property
of a passing run is a theorem. The four statements of section 4 are refuted by TLC on
their instances.

## 6. Not modelled

Within the modelled components: the forgetting of a destroyed runtime's
tombstones; `enforce_tool`, which refuses a call before it changes anything; purging the
history offline and its root markers; start-up of the daemon, its lock files, and
Windows pipes; the HTTP proxy; requests a proxy answers by itself; heartbeats other than
their failure. Each component's `note` in `PROJECT.json` is complete.

Components that are left out: foreground segments (decided from native window
observations a model would have to invent), the element cache (one mutex and one critical
section per operation), authorization, consent and manifests (mostly pure
decisions), recording (files and video), the browser engine (a system of its own), and
everything that is native I/O, rendering, generated code, installation or CI. The
platform back ends are by far the largest part of the repository, which is why the
map covers a small share of its lines.

Simplifications that no property depends on. `ComputerHistory` treats the writer's handle
as held from the snapshot or the pause to the marker, and keeps the old chunk readable
when the file of a checkpoint cannot be created, where the code has already turned to the
new one. `DriverRuntime` merges the last steps of `RuntimeSession::invoke`, the release of
the read guard and the revocation after an `end_session`. In `TrustedResume` every
failure of a binding is answered as a conflict of labels is.

Hazards of the core that are known and have no property: the decision of
`end_session_inner` from `in_flight` read before (section 4), and the scope decision that
is taken before a call awaits its approval.

What would come next: an instance of `TrustedResume` with two clients of one label instead
of the abstract rival, and the browser engine's reconnection.
