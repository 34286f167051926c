# Verification of machined

TLA+ models of `machined`, the init process (PID 1) of tailscale-os, checked with
TLC on small instances and, where noted, proved with TLAPS for every value of the
constants. `PROJECT.json` lists the runs, the mutants that show each property can
fail, the correspondence of every definition with lines of source, the hazards
and the theorems.

Paths below are relative to `src/internal/app/machined`.

## 1. Inventory

machined mounts the pseudo filesystems, starts a COSI controller runtime and a
service manager, and reboots when it gets a signal. Controllers reconcile
resources (links, addresses, routes, services) with the kernel; services are
child processes and goroutines (udevd, apid, tailscaled) under a restart policy.

| component | state | operations | interacts with |
|---|---|---|---|
| **Event stream** `pkg/runtime/v1alpha1/v1alpha1_events.go`, `pkg/runtime/events.go` | a ring of `cap` events, `writePos`, a mutex and a condition variable; per consumer its position | `Publish`, `Watch` with tail options | the service manager publishes; `ServiceController` and the API watch |
| **Service manager** `pkg/system/system.go`, `service_runner.go`, `service_events.go` | maps of loaded and running services, `terminating`, `denyNewServices`; per service its state, `stopCh` and subscribers | `Load`, `Start`, `Stop`, `Shutdown`, `DenyNewServices`, `Run`, `UpdateState`, conditions | controllers start services; `main` shuts down; runners report through the event sink |
| **Service health** `pkg/system/health`, `run` and `healthUpdate` of `service_runner.go` | health of the service, a channel of two changes | `Update`, `Init`, `Subscribe`, `Run` | the checker's goroutine, the runner's event sink, the waiters for Up |
| **Service event history** `pkg/system/events/events.go` | a ring of recent events | `Push`, `Get`, `AsProto` | `UpdateState` |
| **Runners** `pkg/system/runner/{process,goroutine,restart}` | the child, the restart interval, the grace period | `Run`, `Stop` | `ServiceRunner.run` |
| **Drainer** `pkg/runtime/drainer.go` | subscriptions, the flag, a channel of one slot | `Drain`, `Subscribe`, `EventCh`, `Cancel` | long-lived controllers and the shutdown |
| **Service resources** `pkg/controllers/v1alpha1` | one `Service` resource per running service | `Run`: watch the stream from its history on, write or destroy the resource; over for good when the channel is closed | `DeviceStatusController` waits for the udevd resource |
| **Boot** `pkg/controllers/runtime`, `controller.go` | `DevicesStatus`; per controller a token in a channel of one slot | start udevd, wait for it with a timeout, set devices ready, start apid | the runtime restarts controllers that fail; link controllers wait for devices |
| **Network** `pkg/controllers/network` | specs, finalizers, kernel addresses and routes, one DHCP client per link | reconcile | kernel (netlink), resources written by other controllers and API clients |
| **main** `main.go`, `mount.go` | what is mounted, a channel of eight signals | mount, read signals, shutdown, unmount, reboot | the service manager, created by whoever calls `Services` first |
| **Services** `pkg/system/services` | — | dependencies, health checks, runners of udevd, apid, tailscaled | the service manager |
| **Logging, resource types, tsosctl** | — | output and data types | — |

What is hard, component by component, and what makes it correct:

* *Event stream.* Publishers and consumers share a ring without waiting for one
  another. A consumer gets exactly the events after its start, in order, without
  gap or repetition, until it is overrun; a new consumer is not overrun at once;
  sleeping consumers are woken.
* *Service manager.* `Start`, `Stop`, `Shutdown` and the goroutines of services
  interleave; state is set under one mutex and announced after releasing it;
  a stop is a token in a channel of one slot that may outlive its run. At most
  one run per service; nobody waits for an announcement that was already made;
  dependencies are up before a service prepares; `Shutdown` returns and then
  nothing runs.
* *Health.* Three goroutines and `run` share the state and the health, changes
  are dropped when two are queued. Whoever waits for Up is told; `run` ends.
* *Runners.* The exit of a child races with the timeout and with the
  cancellation. Children never overlap; nothing restarts for ever after a stop.
* *Drainer.* Subscriptions come and go during a drain, with a channel of one
  slot as the only wakeup. Nobody misses the drain and the drain ends.
* *Boot.* Five controllers wait for one another through channels of one slot, any
  of them may fail and start over, udevd's check is two commands of which the
  second may fail, and main may shut down at any point. Nothing that needs devices
  begins before they are settled; no wakeup is lost, so a boot proceeds; services
  only run on mounted filesystems; a signal stops the machine.
* *Network.* Kernel lists are read once per pass and used when they are stale;
  finalizers must protect what is still in the kernel; clients end and restart.

The hazards, each with its line and its properties, are in `PROJECT.json`.

## 2. Modules and how they correspond to the code

`EventLog` — the promise of the event stream: an append-only log and cursors.
A cursor is opened near the end, moves forward one item at a time, may be
abandoned, and may be closed because it fell behind.

`Events` — `Events.Publish`, `Events.Watch` and the consumer goroutine. The log
is a history variable; the ring (`stream`), `writePos` and positions are the
code's. Every stretch of code under the mutex is one action. `NewEvent` draws the
ID and the lock is taken later, so a publisher takes two steps, `NewEvent` and
`Publish`, with the event pending between them. IDs are consecutive numbers: an xid is only compared.
`WithTailDuration` searches by the timestamp inside an xid with the same binary
search as `WithTailID`, so it is represented by it. Payloads are left out; the
actor filter is kept, because it decides what is delivered. `Probes` is Go's
`sort.Search` as a function of the interval left and the ID looked for; the ring
need not be sorted, so where it ends is what the probes say, not a definition.
The composition with `EventLog` is the refinement `ImplementsLog`.

`Services` — the manager. Run *n* of a service is a goroutine with a place;
`note` is the publication its `UpdateState` still owes, made in a second step.
`Start` holds `s.mu` until the run closes `runNotify`, and everything that needs
`s.mu` waits meanwhile. Services in this module have no health check: Up is
Running or Skipped. A condition is registered (polling until the service is
loaded), gets a token, and ends. `HasRuntime` says whether events are published:
with a runtime the final `UpdateState` dereferences a nil context (finding 1), so
the runs that go beyond the first end of a service use a manager without one, as
created by `Services(nil)` in `main.go`.

`Manager` — what the manager promises to those who use it: a service is loaded,
started once and ends, nothing is loaded or started once `Shutdown` was called,
and `Shutdown` returns when everything loaded has ended. `Services` implements it
(`ImplementsManager`: `Life` gives how far a service has come from its runs).

`Boot` — from power-on to reboot, composed with `Manager`: its `Load`, `Start`,
`End`, `Shutdown` and `ShutdownReturns` are conjoined with what their caller does.
`main` mounts, serves, reads signals, stops and unmounts. `untried` are the
filesystems the loop of `syncAndUnmountAll` has not come to: an unmount may fail, which
is logged, recorded in `failed`, and the loop goes on; `MNT_DETACH` takes what is
mounted under a filesystem with it (`Detached`). The reboot comes whatever is left
mounted, and the kernel may refuse it. `instance` is the
`once` of `Services`, which main and the registration of controllers race for;
`eventCh` are the controllers with a token in their channel. A controller that
fails is idle again and has a token, because the runtime wakes what it restarts.
Of the events of udevd only what `ServiceController` tells apart is kept: up,
running and not healthy, and the rest. Which of them udevd may publish is
what `Health` says about a run; their order is left open, because they are
published outside the mutex. `HealthFunc` of udevd is followed
command by command, with a failure after each.

`Health` — one `run` of a service with a health check, with its four goroutines
and one waiter for Up. `published` is the last event, which is what
`ServiceController` makes of the service's resource. Local variables that are
dead keep a fixed value, to keep the number of states small.

`Runner` — the restart wrapper around the process runner or the goroutine
runner; which one, and the policy, are chosen in `Init`. Setting up a process
(environment, log pipe, start) is one step that may fail.

`Drainer` — `Drain`, `Subscribe`, `EventCh`, `Cancel`. `Cancel` removes the
subscription under the mutex and sends after it: two steps.

`SpecController` — `AddressSpecController` and `RouteSpecController`, which have
the same shape: which one it is, is chosen in `Init`. The content of a spec is
the entry it wants in the kernel's table (link, address or destination, gateway,
and one value for all else that is compared). A pass lists, finalizes, lists
links and table, and goes through the specs by these lists; between any two of
its calls specs are written, torn down and destroyed, links go and come back with
a new index, other programs add entries, and any call may fail, after which the
runtime restarts the controller. What the controller does to the kernel is
`Delete` and `Add`; what the kernel refuses is `Blocks`.

`DHCP4` — `LinkStatusController` and `DHCP4Controller` together: statuses, the
token that wakes the DHCP controller, its map, and one place per client
goroutine. The kernel lists any links in each pass, so links come and go at will.
Client *n* of a link is the *n*-th started for it, so that two of them could be seen
to overlap; of a client that has ended its lease is forgotten. `applyLease` writes one resource per step: the writes of
a lease are numbered in the code's order (address, two numbers per router,
resolver) and `left` has those still to make; with ctx done every write fails, because the runtime's limiter
waits with that ctx. Nothing recovers a panic of a client: `crashed` ends the
behaviour. The code after a failed renewal is unreachable, as `lease` is nil
there, and has no counterpart.

`History` — `Push` and `Get` of the ring of recent service events, the arithmetic
of the code as operators; `Rounds` is what `Get`'s loop has collected after each
round. The assumption `GetIsTail` compares them with the sequence of everything
pushed, for up to `MaxPushes` pushes and every count from below zero to beyond the
history; TLC evaluates it on the runs of `MCServices`, which extends the module,
and `EventsProofs`, which has the arithmetic of rings, proves it without bounds.

`MCEvents`, `MCServices`, `MCSpecController`, `MCDHCP4` — constants for TLC.
`EventsProofs`, `DrainerProofs`, `RunnerProofs`, `HealthProofs`, `ServicesProofs`,
`BootProofs`, `SpecControllerProofs`, `DHCP4Proofs` — theorems.

How they fit together: `Events` carries what `Services` and `Health` publish;
`Runner` is the runner inside one run of `Services`, and `Health` a run with a
health check seen from inside; `Services` implements `Manager`, on which `Boot` is
built; the `links = "listing"` of `Boot` is where `DHCP4` begins, and `DHCP4` writes
the specs that `SpecController` brings into the kernel. Each promises what its
neighbour assumes: `CancelledRunnerReturns` of `Runner` is a fairness assumption of
`Services` and of `Boot`; that a service restarted for ever only ends when it is
cancelled (`Forever` of `Services`, udevd in `Boot`) is `ForeverUntilCancelled` of
`RunnerProofs`; that udevd is announced as up only after its check succeeded is
`UpNeedsCheck` of `HealthProofs`; the overrun of `Boot` is that of `Events`, where a whole
ring must have been published since the consumer was last served; the crash of
`Boot` when a service ends with a runtime is the one `services_crash` shows.

## 3. Runs

| run | question | bounds |
|---|---|---|
| `events` | Does a consumer get exactly its part of the log; is it woken; is `WithTailID` exact; does the ring implement the log? | 2 publishers, 1 consumer, a ring of 3 with gap 1, 4 events: the ring wraps, the consumer can be overrun and abandoned, and IDs can be written in the wrong order |
| `services` | Dependencies, notifications, does `Shutdown` return, and does the manager implement `Manager`? | 2 services, one depending on the other, one start each |
| `services_restart` | Do runs overlap when a service is restarted under `Stop` and `Shutdown`? | 1 service, 2 starts, one `Stop` and one `Shutdown` |
| `services_crash` | *violated*: `Shutdown` returns, with a runtime | 1 service |
| `drainer` | Is everybody told, is no wakeup lost, does a drain end? | 2 drains, 3 subscriptions: the second send of a wakeup meets a full channel |
| `runner` | Overlap, late launches, return after cancellation | 4 launches, all policies, both runners |
| `health` | Is Up announced, does `run` return, does anything outlive it? | the channel of two slots, as in the code; the number of health changes is not bounded |
| `health_published` | *violated*: the resource of a service that is up says so | as `health` |
| `boot` | Are devices settled before anything needs them; does the resource follow the events; are filesystems there while services run; does a boot proceed and does a signal stop the machine? | the two services and seven filesystems of the code, one start per service, 2 unread events and 1 signal in the channel, so that both overflow; each unmount and the reboot may fail: about 335 000 states |
| `spec_controller` | Is what is set up held; is every spec applied at rest; do routes go before their finalizer; are others' entries kept; does the controller come to rest? | both controllers, 2 specs, 2 links, 5 changes from outside and 1 failed call: enough to replace an entry while its link, its spec or the table changes under the pass |
| `spec_teardown` | *violated*: an address is deleted before its finalizer is removed | as above, 3 changes |
| `dhcp4` | Do clients overlap; is the map current; does anybody write over a client's address; does a stop return? | 2 physical links, 3 passes over them with any of them failing, any links listed in each, a lease of an address and a route: each link's client can be stopped in every place, and with the third pass a link whose status was written and deleted has it written again and gets a second client; about 716 000 states |

Deadlock is not an error in these runs: counters are bounded, and all of these
components end (a shutdown, a cancelled runner, a finished drain). What must not
stop is stated as liveness instead.

### Fairness

Goroutines that can take a step take it (WF): Go's scheduler is preemptive and
its mutexes are not starved. Nothing is assumed about the environment: nobody has
to publish, load, start, stop or cancel. Timers fire (the grace period,
the ticker of a check, the ten minutes a controller waits for Up). In `Boot`
nothing is assumed of udevd, its checks and what they publish, or of signals; a
service whose context is done ends. A killed process exits (SIGKILL); a child that was only
asked to end need not. In `DHCP4` the calls of the DHCP library return, as they
have timeouts and retries. In `SpecController` the controller as a whole goes on
and the runtime restarts it. Strong fairness is used in three places, each a loop
over a `select` with a case for `ctx.Done()` next to other ready cases: Go chooses
among ready cases at random, so a done context is not passed over for ever. In
`Services` the cancelled runner returns under strong fairness, which is what
`CancelledRunnerReturns` of `Runner` shows.

### What the violated runs show

1. `services_crash`: `Start`'s goroutine makes the last `UpdateState` of a run
   with a nil context (`pkg/system/system.go:142`); `Publish` calls `ctx.Value`
   and PID 1 panics before anybody who waits for the service is told.
2. `health_published`: `UpdateState` reads the health under the mutex and
   publishes after it. A health event can come in between, the stale one is then
   the last, and the health is not published again until it changes.
3. `spec_teardown`: with its link there, an `AddressSpec` that is torn down loses
   its finalizer and nothing is deleted; the deleting branch is that of a missing
   link, where nothing can be found.

Some properties name an exception, which is a behaviour of the code as well:

* `ShutdownReturnsIfStarted`: a service that was loaded and not started when
  `Shutdown` begins is waited for for ever, as `terminating` makes its `Start` a
  no-op.
* `TailIDExactWhenOrdered`: the ID is drawn before the mutex, so the ring need not
  be sorted, and the binary search may then start after an event with a greater ID.
* `SignalStops`: the same, seen from main. A signal between `Load` and `Start` of a
  service hangs the machine. Otherwise it stops: in order if no service was
  started, by the panic of finding 1 if one was.
* `BootProceeds` and `ResourceFollowsEvents`: an overrun closes the channel of
  `ServiceController`, whose `Run` returns nil and is not restarted. A boot that was
  waiting for udevd then waits for ever. `BootProceeds` also needs the last event
  of udevd to be that it is up, which finding 2 shows it need not be.
* `StopReturns`: a client that has renewed its lease loops for ever with `ack` set
  and does not see ctx; a failed renewal dereferences a nil lease and ends PID 1.
* `Settles`: two routes to one destination by different gateways make every pass
  fail. So does a route whose gateway the kernel cannot reach, for as long as it
  cannot; in the model the refusal is the failed call, of which there are
  finitely many (`MaxFaults`).
* `AppliedWhenIdle`: a link that was not there at the last pass, or that has been
  replaced since, is left until a spec changes. In the model others add entries and
  delete none of the controller's: no event of the kernel wakes it, so an entry
  that somebody removes is missing until a spec changes, whatever the pass does.

Two more behaviours that a reader may not expect hold in the models. Nothing
wakes a sleeping consumer when its watch function returns: its goroutine stays
until the next event (`AbandonedConsumerEnds` says it ends then), although the
comment at `v1alpha1_events.go:109` promises more. And a health event may be
published after Stopping, though never after `run` has returned
(`NothingAfterReturn`).

## 4. Proofs

TLAPS proves, for every value of the constants allowed by the named assumptions:

* `EventsProofs!TypeCorrect`: types and positions, from `EventsAssumption` alone.
* `EventsProofs!RingCorrect`: the inductive invariant `RingInvariant`. Slot
  `k % Capacity` holds entry `k` of the log for the last `Capacity` positions;
  every consumer stands between its start and the write position; what it has
  taken is the log entry before its position. Types are not enough: a step of a
  consumer reads a slot, and only the first part says which entry that is. It is
  kept by `Publish` because two positions less than `Capacity` apart use
  different slots (`SlotsDiffer`, from facts about `%`), which is the arithmetic
  heart of the proof.
* `EventsProofs!GapIsGuaranteed`: a consumer is overrun only after at least `Gap`
  events were published since it was opened.
* `EventsProofs!RingImplementsLog`: every behaviour of `Events` is one of
  `EventLog` under the mapping. The initial states map; `Publish` is an append,
  taking is an advance of the cursor by `TakeReadsLog`, everything else stutters.
* `EventsProofs!DeliveryCorrect`, and from it `DeliversSegment`. The property says
  which log entry each received event is: an increasing function onto the entries
  that are due. A publication leaves what is due alone, as it lies before the
  write position; a take moves the cursor past an entry the filter drops, or puts
  it on offer; the receive adds the entry at the cursor to both sides. The
  invariant adds that an item on offer lies after the consumer's start.
* `EventsProofs!NoLostWakeup`: a consumer asleep has read everything, so `Publish`,
  which wakes all sleepers, comes for each event a consumer has not seen.
* `EventsProofs!AbandonedConsumersGoOn`: a consumer whose `WatchFunc` has returned and
  that has an event ahead which passes its filter gets nearer to it with each step
  and ends there or before; `SleepersHaveRead` excludes that it is asleep.
* `EventsProofs!SearchIsDefined` and `TailIDIsExact`: the binary search ends at one
  position whatever is in the ring, and at the first event with a greater ID when
  IDs are in order. The argument is the usual one: below the interval nothing
  qualifies, above it everything does, and each probe halves it. It is an
  induction over the length of the interval.
* `EventsProofs!GetReturnsTail` and `DiscardedAreCounted`: `GetIsTail` for every ring,
  every number of events and every count. After `n` events slot `k % size` holds
  the last event pushed there (`PushedIsRing`, an induction over the events), and
  after `k` rounds `Get` has collected the events of the first `k` slots that are
  in use (`RoundsCollect`, an induction over the rounds).
* `DrainerProofs!DrainerCorrect`, and from it `DrainerLosesNoWakeup` and
  `DrainerTellsEveryone`: for any number of drains and subscriptions. The
  invariant relates the list of subscriptions, the flag, pending sends and the
  channel's slot: the lost wakeup is excluded because a removed subscription
  either has its send ahead of it or left a token. `DrainWaitsForOwners` follows: a
  drain that sleeps with no wakeup on its way waits for an owner that was told.
  `DrainDoesNotSpin` bounds the rounds of the loop by the subscriptions that are
  left and the token in the channel.

* `RunnerProofs!RunnerCorrect`, and from it `NoTwoChildren`, `AbandonedLast` and
  `OneLateLaunch`, for any number of launches. `OneChild` counts children, so the
  invariant says when there is one: none while a launch or the interval is ahead,
  and none after the runner is back unless it is a goroutine that timed out. A
  second late launch is excluded because after the first there is no way back to
  the interval. `ForeverUntilCancelled` says when a runner may return by itself, and
  `CancelledRunWindsDown` that after the cancellation each step of the runner or
  its child lowers a measure of at most 15.
* `HealthProofs!HealthCorrect`, and from it `UpIsAnnounced` and `ReturnIsFinal`, for
  every buffer of changes. `NothingAfterReturn` needs that `run` returns only after
  its runner, checker and consumer are gone, which the places of `run` say one
  after the other. `UpNeedsCheck`: as long as no check has succeeded nothing that is
  queued, about to be reported, published or told says that the service is healthy.
  `AwaitedCorrect`, and from it `NobodyWaitsForTheDead`: whoever a cancelled `run()`
  waits for was started and has a step of its own, the consumer not even the
  runner's mutex in its way, for the runner is gone by then. `RunWindsDown` counts
  the steps `run()` itself has left.
* `ServicesProofs!RunsCorrect`, and from it `RunsDoNotOverlap`, for any services and
  number of starts. The invariant ties the running map to the runs: a service is
  in it exactly while one run is active, and the runs that have begun are the
  first `starts` of them. That a service is in the map is what `Start` looks at.
* `ServicesProofs!NotificationsCorrect`, and from it `NotificationsReach` and
  `DependenciesUp`, for any dependencies and waiters. They are proved together:
  everything that says a service is up (its state, the announcement that
  `UpdateState` still owes, a token in a condition) says the truth (`UpInv`), and
  nobody waits for what is true without a token or an announcement to come.
* `ServicesProofs!ServicesImplementManager`, for one start of each service: the
  initial states map, each step of `Load`, `Start`, `Run`'s return, `Shutdown` and
  its end is the step of `Manager`, all others stutter. `PromiseInv` (theorem
  `PromiseCorrect`, for any number of starts) has what the end of `Shutdown` needs:
  it waits for everything loaded, and a service counts as down only after a run of
  it has left `run()`. From it follows `ShutdownEndsServices`, also for any number
  of starts: when `Shutdown` returns every loaded service has ended once. With one
  start that is the promise of `Manager`. With a second start the promise itself
  does not follow: the last `UpdateState` of the first run comes after it has left
  the running map, overwrites the state of the second run, and a `Shutdown` that
  then subscribes finds the service down and returns while the second run is at
  work.
* `ServicesProofs!HolderNeverWaits`, for any number of starts: `Start` waits for its
  run while it holds `s.mu`, and the run it waits for is in its first two steps,
  which neither wait for a dependency nor need the mutex. Everything else that
  needs `s.mu` therefore gets it.
* `ServicesProofs!WatchersCorrect`, and from it `StopIsNeverLost`. A stop is a token in
  a channel of one slot or is handed to a watcher in its select. The invariant
  says that a watcher in its select has an empty channel and a ctx that is not
  done, so a signal that is sent ends in a cancelled ctx, a watcher that was
  woken, or the channel of a watcher that has yet to look. It is stated for
  services started at most once. Of a service started again it is false: the
  watcher of the first run may not have reached its select when the second run
  begins, both of its cases are ready, and it may take the second run's token.
* `BootProofs!OrderCorrect`, and from it `DevicesFirst`. `BootOrder` speaks of the end
  of a chain, so `OrderInv` says it of each link: the flag and the place of the
  check, `checked`, an unread event, the resource, ready, the place of apid's
  controller.
* `BootProofs!FilesCorrect`, and from it `ServicesHaveFilesystems`: where main is
  decides what is mounted and which services may be active, and `Shutdown`'s
  promise, taken from `Manager`, gives the step to unmounting. There the invariant
  says that what has not had its turn is mounted and that what is mounted after its
  turn has failed. It is kept when a filesystem is detached with what is under it,
  because that has had its turn already (`NothingUnder`), whether it came off or
  not: the order of the list and not the success of each call is what counts.
* `BootProofs!WatchCorrect`, and from it `ResourceIsCurrent`, for every capacity: the
  last unread event of udevd is its last event, and with none unread the resource
  is already right.
* `BootProofs!TokensCorrect`, and from it `BootNeverStalls`: a controller whose
  condition has come true has a token or is past its wait, through every restart;
  so a boot in which udevd is up, all events are read and no controller has work
  is complete. It needs that names of services and controllers differ.
* `BootProofs!SignalNeverLost`, `MainWaitsForServicesOnly` and `StopIsFinal`, for
  every capacity of the channel: the way from a signal to the reboot. A request to
  stop in the channel keeps its place or moves on, until main reads it. From then
  on `StopLeft` counts main's steps, each filesystem one of them; main is held up
  only in its wait for `Shutdown`, and only by services that run or were loaded and
  never started, of which no more appear. Among the filesystems whose turn is to
  come one is always the next (`OneToUnmount`), and a failed unmount is a turn too.
* `SpecControllerProofs!PassCorrect`, and from it `HeldSpecs` and
  `OthersEntriesKept`, for any specs, links and entries. `HeldWhileAdding` is not
  inductive: the spec at hand is "running" only in the list, so the invariant says
  that every spec the list has as running has the finalizer from the end of the
  first loop on. It stays, because `Destroy` refuses a spec with a finalizer and
  the controller only takes it off specs the list has as torn down. For
  `OthersEntriesKept` it also says that what is about to be deleted matches the
  spec at hand, for a route its gateway included, and is not what it wants.
* `SpecControllerProofs!WorkCorrect`, and from it `AppliedAtRest` and
  `RoutesGoFirst`. A pass works by lists, so `ListsInv` says how far they are from
  the truth: an entry of the kernel that is not listed came after the list, and the
  specs at hand are those of the list. `QuietInv` is about a pass without a token:
  the list of specs is still the specs, an entry that was right stays right, and
  every spec gone through has what it wants, so that the end of such a pass is
  `AppliedWhenIdle`. A token means another pass, and then nothing is claimed.
  `RoutesGoFirst` needs that two RouteSpecs differ in destination or gateway
  (`SpecAssumption`; both are in their ID): what is added for one is never a route
  of another that was just deleted.
* `SpecControllerProofs!PassEnds` and `OwnWakesRunOut`: why the controller comes to
  rest. A pass has stages, in each a set of specs that only shrinks, and at a spec
  a set of entries to delete that only shrinks; for finitely many specs and entries
  that is a measure every step lowers. Passes do not follow each other for ever
  either, as far as finalizers go: `ChangesLeft` counts for each spec the changes of
  its finalizer the controller may still make (two at most, for a spec torn down
  between the list and `AddFinalizer`), no step of the controller raises it, and
  where the controller wakes itself it falls. That failures of stale lists stop,
  once others stop changing things, is left to `Settles`.
* `DHCP4Proofs!MapCorrect`, and from it `ClientsAreInMap` and `MapIsCurrent`, for
  any links, physical or not, any leases and any number of passes. The invariant
  follows a reconcile: links to start have no client, what is desired has one or
  is about to get one, and with no token pending the list it works by is still
  the statuses. That clients do not overlap then follows from the join: the entry
  is deleted only after the goroutine it stands for has returned.
* `DHCP4Proofs!WritesCorrect`, and from it `AddressIsLease`: once write 0 of a lease
  is made, the AddressSpec of the link stays that client's. No other write has its
  ID, and another client of the same link is excluded by `ClientsAreInMap`.
* `DHCP4Proofs!CountCorrect`, and from it `DHCP4TypeCorrect`: that `MaxPasses` clients
  of a link suffice. A link is started again only after one pass of
  `LinkStatusController` deleted its status and a later one wrote it, so clients
  never outnumber passes; the invariant counts them at each place in between.
* `DHCP4Proofs!StartedCorrect`, and from it `StoppedClientEnds`: a cancelled client
  was started, and each step it takes lowers `Distance`, from at most ten to zero,
  which is done, or the loop of a renewed lease.

The assumptions are those of the modules (`EventsAssumption`, `RunnerAssumption`,
`HealthAssumption`, `ServicesAssumption`, `DistinctAssumption`, `BootAssumption`,
`SpecAssumption`, `DHCPAssumption`; `Drainer` has none): sizes that are positive,
sets that are finite, and names that differ. TLC evaluates each on a run.

Induction over data, where a proof needs it, is an induction with a set: the
numbers for which a claim fails have a least element (`LeastNat`, from the
well-foundedness of `<` on Nat), and `NatInduct` says so once for a set of numbers.
A recursive function is unfolded after a function with its equation has been
exhibited (`ProbesDef`, and its like for `Pushed` and `Rounds`).

Only model-checked: every liveness property, as fairness and ENABLED are out of the
prover's reach. For each of them the part that is a matter of safety is proved:
no wakeup is lost, nobody waits without a reason, and a measure falls. What is left
to TLC is that goroutines that can run do:

| liveness property | what is proved of it |
|---|---|
| `EveryEventConsumed` | `NoLostWakeup`, `DeliversSegment` |
| `AbandonedConsumerEnds` | `AbandonedConsumersGoOn` |
| `ShutdownReturnsIfStarted` | `HolderNeverWaits`, `StopIsNeverLost`, `NotificationsReach`, `ShutdownEndsServices` |
| `RunReturnsWhenCancelled` | `NobodyWaitsForTheDead`, `RunWindsDown` |
| `CancelledRunnerReturns` | `CancelledRunWindsDown` |
| `DrainEnds` | `DrainerLosesNoWakeup`, `DrainWaitsForOwners`, `DrainDoesNotSpin` |
| `BootProceeds` | `TokensCorrect`, `BootNeverStalls` |
| `SignalStops` | `SignalNeverLost`, `MainWaitsForServicesOnly`, `StopIsFinal` |
| `Settles` | `PassEnds`, `OwnWakesRunOut` (failed passes are TLC's) |
| `StopReturns` | `StoppedClientEnds` |

## 5. Not modelled

* What udevd, apid and tailscaled do: they are other programs, or a gRPC server;
  their dependencies, policies and udevd's check are modelled. So are the options
  of runners that only choose a path, a name or an environment.
* Logging, resource types and their registration, generated code and tsosctl:
  output and data.
* The pipe and the copying goroutine of each process (`runner/process/process.go:153`
  leaks a descriptor per restart): the kernel's state, and visible without a model.
* The address of an earlier lease stays in the kernel when a lease brings a new
  one (`dhcp4.go:237`): `DHCP4` and `SpecController` are not composed, and in each of
  them alone it is what the code says.
* The last `UpdateState` of a run comes after it has left the running map
  (`system.go:132`) and can overwrite the state of the next run, and the watcher of
  a run may outlive it and take the next run's stop. Both are behaviours of
  `Services` with two starts; no promise of the code speaks about them, and
  section 4 says which theorems they limit to one start.
* Reboot and power off are one `Halt`: they differ in the last system call.
* A link that is not physical, a lease with name servers and one with a router outside
  its network are only covered by the proofs of `DHCP4`: in the run every link is
  physical and the lease has an address and a route.
* A write of a Service resource that fails: `ServiceController` logs it and drops the
  event (`controllers/v1alpha1/service.go:81-87`). Nobody else owns or writes these
  resources and the state is in memory, so nothing in this program makes it fail.
* A RouteSpec without `OutLinkName`, which is not skipped for a missing link
  (`route_spec.go:148`) and matches routes of any (`route_spec.go:337-339`): the only
  writer of RouteSpecs, `applyLease`, names the link in each.

## 6. Plan

Modelled, in the order of the plan: event stream, service manager, runners,
drainer, health, history, address and route controllers, links and DHCP, boot and
shutdown. Proved: every safety property of the runs, and the safety part of every
liveness property. Left:

1. `DHCP4` writing the specs of `SpecController`: what a new lease leaves behind.
2. A measure for the passes of `SpecController` that fail because their lists are
   stale, the part of `Settles` that `PassEnds` and `OwnWakesRunOut` leave open.
