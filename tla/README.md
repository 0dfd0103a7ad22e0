# Govisor: a TLA+ model

Govisor supervises services: it starts them when what they depend on runs,
stops them when it does not, restarts what fails, and lets REST clients look on
and interfere.  This directory holds TLA+ modules translated from the Go
sources, the TLC configurations that check them on small instances, and theorems
about them whose proofs TLAPS has checked.  Modules and configurations are files
of this directory; Go files are named from the root of the repository.

    tlc -workers 2 -config Cycle.cfg MCSupervisorCycle
    tlapm SupervisorProofs.tla

## 1. The system

### Parts, their state and their operations

| part | source | state | operations |
|---|---|---|---|
| names and links | `service.go` 334-368, 532-621 | `Manager.services`; `parents`, `children`, `incompat` of every service | `Matches`; `setManager`, `delManager` (under `AddService`, `DeleteService`, `Shutdown`) |
| supervision | `service.go`, `manager.go` | `enabled`, `running`, `stopping`, `failed`, `restart`, `rateLog`, `reason`, `starts` of every service; `monitoring` | `Enable`, `Disable`, `Restart`, `Clear`, `SetProperty`, `monitor`, `notify`, `Shutdown`, and below them `startRecurse`, `stopRecurse`, `checkService`, `selfHeal` |
| rate limit | `service.go` 422-440, 634-640, 738-783 | `starts`, `startTimes`, `rateLog`, `rateLimit`, `ratePeriod` | `tooQuickly`, the record of a start, the two properties |
| serials and watching | `manager.go` 61-137 | `serial`, `listSerial`, `Service.serial`, `cvs` | `bumpSerial`, `wakeUp`, `watchSerial` |
| managers of services | `service.go` 184-331 | `Service.mgr`, tested and read without the lock | `AddService`, `DeleteService`, `Shutdown` set and clear it; every method of a service reads it |
| process provider | `process.go` | `process`, `stopped`, `failed`, `waiter`, the kill timer | `Start`, `Stop`, `Check`, `doWait`, `kill`, `runCmdWithTimeout` |
| logs | `log.go`, `multilog.go` | the ring of records, `id`, `cvs`; the list of loggers | `Write`, `Clear`, `GetRecords`, `Watch`; `AddLogger`, `DelLogger` |
| REST server | `server/server.go` | none of its own | `getService`, `listServices`, `getManager`, `getLog`, the posts |
| REST client | `rest/client.go` | cached manager, list, services and logs, each with its Etag | `Watch`, `Services`, `GetService`, `GetLog`, `WatchLog`, posts |
| user interface | `govisor/ui` | `App.items`, `err`, `logName`, `logInfo`, `panel`; the selection, cursor, lines and height of the main panel | `refresh`, `refreshLog`; the keys of five panels, `update` at each draw, `SetUserPassword` |
| commands | `govisord/main.go`, `govisor/main.go` | flags | start-up, authentication, shutdown; one request per invocation |

### How they interact

* One mutex, `Manager.mx`, guards everything a manager knows.  Operations on
  services, the monitor (every 587 ms) and the notifications of providers take
  it and hold it through the whole cascade of starts and stops, although every
  `Provider.Start` and `Stop` in it may block.
* `startRecurse` calls itself for the children of what it started, `stopRecurse`
  for the children of what it is about to stop, in the random order of a Go map.
* Every visible change takes a number from `Manager.serial` and wakes the
  condition variables in `cvs`; the REST server turns the numbers into Etags and
  long polls.
* `Process` has a lock of its own, under which `Stop` asks a process to end and
  which it gives up while it waits.  A goroutine `doWait` per process and a
  timer per `Stop` meet it there.
* The server reads a service by several calls, each of which locks for itself.
* The user interface has two kinds of goroutines that talk to the server; they
  share the client's cache and hand closures to the goroutine that draws.

### What is hard, and what makes each part correct

* *Supervision.*  A cascade is interrupted by nothing but consists of many steps
  in an arbitrary order, over a graph that may have alternatives, conflicts and
  cycles, with providers that fail in the middle.  Correct means: what runs is
  supported by what it needs; dependents go down before their providers;
  nothing is stopped that has another provider; conflicting services are never
  enabled together; nothing that could run is left behind; every cascade ends;
  what failed is healed.
* *Links.*  They are updated at both ends in different loops, depending on who
  came first.  Correct means that they are mutual, between members only, and a
  function of the set of members.
* *Rate limit.*  A ring of times with an index that wraps, against a clock that
  moves during an attempt.  Correct means a full period before every start at
  the limit.
* *Watching.*  Lost wake-ups, wake-ups before the new number can be seen, timers
  against changes.  Correct means that nobody sleeps through news, that the old
  number is returned only after the time given, and that every call ends.
* *Processes.*  Exits, stops, kills and restarts in any order.  Correct means
  that a stop leaves nothing behind, is not taken for a failure, and ends, and
  that a crash is seen.
* *Logs.*  A ring that wraps, an id that must stand for one content.
* *Handles.*  `*Service` values outlive `DeleteService` and `Shutdown`; a method
  may find no manager, or lose it while it waits for its lock.  Correct means that
  watchers of a service that comes and goes sleep through nothing, and that a
  lock that was taken is given back.
* *Panels.*  A list that is sorted anew, a selection kept by its name, a cursor by
  its line, three lengths that index one another, panels that are shown later
  than asked for, and a password that is refused while a request with another one
  is under way.  Correct means that a key is for the service the user chose, however
  the list has changed since, and that the password is asked for when it is needed,
  and then no more.
* *Server, client and interface.*  Reads made of parts, caches shared by
  goroutines, answers that arrive late, a server that restarts.  Correct means
  that what is shown existed at one moment, that an Etag goes with what it stands
  for, that the screen never goes back, and that it is brought up to date.

`PROJECT.json` lists the hazards line by line, with the properties meant for
them.

## 2. The modules

| module | models | remarks |
|---|---|---|
| `ServiceNames` | `serviceMatches`, `Matches`, which edges the names call for | a name is a record of a base and a variant; no state |
| `ServiceGraph` | `setManager`, `delManager`, the check of `AddService` | its own specification `GraphSpec`; instance `MCServiceGraph` |
| `Supervisor` | services and manager, EXTENDS `ServiceGraph` | calls in progress are frames of `stack`; the lock is free when it is empty |
| `SupervisorInvariant` | the inductive invariant `IInv` | extended by the three `MCSupervisor...` instances |
| `SupervisorProofs` | theorems about `Supervisor` and `ServiceGraph` | section 5, like the other modules of proofs |
| `CascadeProofs` | theorems about the cascades of `Supervisor`, and what it has in common with `Limiter` and `Provider` | |
| `Limiter` | what the rate limit promises, without a clock | abstract; `Supervisor` uses it, `RateLimit` implements it |
| `RateLimit` | `tooQuickly` with clock and ring | implements `Limiter` by the refinement mapping `Abstract` |
| `RateLimitProofs` | theorems about it, the refinement among them | |
| `Watch` | `watchSerial`, `bumpSerial`, `wakeUp`, `Check` | composed by `Handles` |
| `Handles` | `Service.mgr` that comes and goes, `WatchService` with and without it, operations that read it twice | instance `MCHandles` |
| `HandlesProofs` | theorems about both | |
| `Provider` | what the manager takes a provider for: `Start`, `Stop`, `Check` | abstract; `Process` implements it |
| `Process` | the process provider | implements `Provider` by the mapping `Contract` |
| `ProcessProofs` | theorems about it | |
| `Log` | the ring of records and its readers' requests (`getLog`, `checkPoll`) | no client; composed by `LogView` |
| `LogView` | `ShowLog`, `refreshLog`, `pollLog` on top of `Log` | |
| `LogProofs` | theorems about both | |
| `RestServer` | `getService`, `listServices`, `getManager` in front of a changing manager | composed by `Refresh` |
| `Refresh` | `App.refresh`, `getItems`, the client's cache, on top of `RestServer` | |
| `RefreshProofs` | theorems about both | |
| `Panels` | the goroutine that draws: keys, panels, selection, password | the loop of `App.refresh` is reduced to what it posts; instance `MCPanels` |
| `PanelsProofs` | theorems about it | |

### Supervisor

Flags are sets of services (`enabled`, `running`, ...).  A frame of `stack` says
which call it is, for which service, with which detail and which services its
loop has still to visit; the next one is chosen freely, as the map order is.
One step of the model is what the code does between two calls: the guards of
`startRecurse` (`StartReturns`, `StartRefused`), its attempt (`StartAttempted`),
the outcome (`StartFails`, `StartSucceeds`), one turn of the loop
(`StartNextChild`), and likewise for `stopRecurse`; a pass of the monitor and
`Shutdown` are loops of the same kind.  Operations (`Lock`) begin only when the
stack is empty; `Step` is whatever the topmost call does next.  The environment
breaks and repairs providers (`sick`) and lets rate periods end at any moment,
also in the middle of a cascade.  `reason` keeps the texts the code compares or
the properties tell apart.  `bumped` and `listBumped` are ghosts: who was given a
new serial since the lock was taken.

The clock of the rate limit is abstracted to `starts` (counted up to the limit)
and `recent`, which is exactly the specification `Limiter`; `RateLimit` justifies
it.

### Watch and Handles

A watcher's place is one of `Place`; `holder` is the lock.  A bump is a record
that goes through `StartBump` (the number is taken), `bumpSerial` (the manager's
serial is set and everybody in `cvs` is woken) and `Store` (the caller assigns
the result), because `s.serial = s.mgr.bumpSerial()` wakes before it stores.

`Handles` adds which services have a manager.  `AddService` and `DeleteService`
(`Relist`) bump for the list and for the service in one step, since nobody looks
between the two with the lock held; `Shutdown` bumps nothing for the list.  A
watcher of a service without a manager naps (`WatchUnmanaged`), and nothing can
wake it.  `HandlesSpec` is what govisord does.  `CheckingSpec` adds
`Service.Check`, which bumps without the lock and which govisord never calls.
`OperatedSpec` adds a `Caller` of `Enable`, `Disable`, `Restart` or `Clear`: it
tests `s.mgr` (`CallOperation`), reads it again for the lock (`ReadManager`),
waits (`GetLock`), and reads it once more inside, where a service that was
removed meanwhile makes it panic (`PanicInside`).

### Process

One action per stretch of code between two operations of `p.lock`: `Start`;
`Stop`, `SignalSent` or `CommandStarts` with `CommandEnds` and `CommandTimesOut`,
`StopAsked` (the timer is set and the lock given up), `StopReturns`; `Reap`,
`Note` and `Leave` of `doWait`; `Fire` and `Kill` of the timer.  `Deadline` is
the time the stop command gets, which is ten seconds where the service has no
stop time.  The manager's use is part of the model: it starts only what it has
stopped.  `process` is what the code reads when it runs, which need not be the
process it was set up for.  Whether there is a stop time, a stop command, and
whether an exit is a failure are chosen in `Init`.

`Provider` is the same seen from `service.go`: whether it was started or is being
stopped (`called`), whether something of it runs, and whether `Check` returns an
error (`faulty`).  `Contract` maps the five places of the caller to the three of
`called` and the processes that are alive to `runs`; reaping, signals, timers and
locks are stutters.  That `Stop` returns only when nothing runs is the guard of
`Stopped`; that a stop is never taken for a failure is that of `Faulted`.  The
manager's side of the contract, that it calls in turn, is `ProviderCalls`.

### Log and LogView

A `Reader` is one goroutine of `refreshLog` with the connection its requests
use.  `Log` has the server's side: `Request`, `Look` and `Expire` of `Log.Watch`,
`getLog`.  `LogView` has the client's: the goroutine asks with the Etag the code
computes from its own copy and the cached one, stores the answer, posts and goes
round.  A posted closure shows the variables of its goroutine when it runs.  A
goroutine that was told to end may still have a request under way and post its
result.  A record is written in one tick of the clock, which is the presumption
of `Log.Clear`.

### RestServer and Refresh

The manager is reduced to what its operations do to serials, membership and two
BOOLEANs per service, one for the flags, which change together here, and one for
the status.  `getService` reads them by its six calls, of which each is a step:
the serial, the three flags, the status, and the serial again.  `been` holds the
values `s.mgr # nil` has had since the last call, because the getters test it
before they lock.  `seen` is a ghost: all that the service looked like since the
serial was read.  `Shutdown`, `Exit` and `Boot` are govisord's end and next
start, at a later time and thus with larger serials.  `Refresh` has the loop of
the interface: list, items one by one, post, long poll; any request may fail.
`PostFunc` does not wait for what was posted before: `posted` is a queue, drawn in
its order, while the loop goes on.

### Panels

The application draws the panel it shows and then takes one event: a posted
closure, from the head of `queue`, or a key.  `phase` says which is next, so that
every key meets what the last draw left.  `DrawMain` is `MainPanel.update`: the
selection is looked for by its name (`KeepSelection`), lines and height are set at
different places, which an error returns before, and the cells index `items` by
the lines (`GetCells`); an index out of range is the phase "crashed".
`updateCursor` is what the arrows, the pages, Home and End reach (`MoveCursor`,
`SetCursor`).  `Redraw` is an event that changes nothing, like the update of every
second.  Showing a panel only posts; the old one gets the keys until the closure
runs.  `chosen` is a ghost: the service on the row that the user led the cursor to,
as it was drawn when the key came, and for the other panels the one chosen in the
panel they were asked for in.  It is computed from what is on the screen and not from
`cury`, so that `KeysAreForTheChosen` compares two independent accounts.  The loop of `App.refresh` is reduced to
`Fetch`, `Watched` and `Wake`: `fetched` is what the posted closure will read,
and `Watched` may still change its error, because closure and loop share the
variable.  `known` says whether the server accepts the password; it changes when
the user enters another one, or the server is started with another file.

## 3. The runs

| run | root module | instance | states | what it shows |
|---|---|---|---|---|
| `Cycle` | `MCSupervisorCycle` | a dependency cycle that comes to life through an outside provider | 1.16 M | `IInv`, `RunningSupported`, `NoNeedlessStop`; `LockIsReleased`: every cascade ends |
| `Conflict` | `MCSupervisorConflict` | two conflicting mail transports and a dependent of either | 1.24 M | `NoConflictEnabled`, `NoneLeftBehind`, `StopOrder`, `ChangesBump`; `GraphMirrors`, `GraphIsCanonical` |
| `SelfHealing` | `MCSupervisorPair` | a database and its application, rate limit 1 | 0.73 M | `NoneLeftBehind`, `SelfHeals` |
| `RateLimit` | `RateLimit` | limits 0, 1, 3, periods 1, 2, five ticks | 42 k | `FullPeriodWait`, `CoolDownIsDead`, `ImplementsLimiter` |
| `Watch` | `MCHandles` | two watchers, a service that comes and goes and the list, three bumps | 32 k | `NoNewsSleptThrough`, `OldOnlyAfterTimeout`, `NumbersAreFresh`, `NewsEndsTheCall`, `EveryCallReturns` |
| `Process` | `Process` | three processes, all settings | 33 k | `NoOrphans`, `ImplementsProvider`, `LockIsGivenUp`, `StopEnds`, `CrashIsSeen` |
| `Log` | `LogView` | the log opened twice, ring of 2, three records | 1.6 M | `KeepsTheLatest`, `EtagTellsAll`, `NoRecordSleptThrough`, `NoOtherLog`, `PanelKeepsUp` |
| `Refresh` | `Refresh` | one service, serials up to 6, one lost request, two lists posted | 2.25 M | `ConsistentView`, `EtagTellsAll`, `NamesMatchTag`, `NeverBackwards`, `KeepsUpToDate` |
| `Panels` | `MCPanels` | two services, one of which changes its look and place and may go, one panel asked for | 1.68 M | `KeysAreForTheChosen`, `CursorOnSelection`, `PanicsOnlyAfterError`, `PasswordIsAskedFor`, `RefusalIsForgotten` |
| `FirstMatchOnly` | `MCServiceGraph` | eight services exercising every name rule | – | **violated**: `EveryMatchLinked` |
| `WatchUnlocked` | `MCHandles` | one watcher, with `Check` | – | **violated**: `NoNewsSleptThrough` |
| `StaleHandle` | `MCHandles` | one caller of an operation | – | **violated**: `LockIsHeldFromWithin` |

Every property of a passing run has a mutant in `PROJECT.json`: a plausible error
in one definition under which TLC finds the property violated.

### Bounds, and why they are enough

* *Three services.*  The cascades are local: what matters is a service, its
  provider, and a second one (an alternative, a rival, or the one that closes a
  cycle).  The three graphs are the shapes that differ: alternatives that
  exclude each other, a cycle, a chain.  The proofs cover all others.
* `RateLimit` is 0 in `Cycle` and `Conflict`, so that the limit hides nothing, and
  1 in `SelfHealing`, where refusals happen after the first start.
* *RateLimit.*  Five ticks let a ring of three wrap and a period of two end
  between; the limit and the period change at any time.  `MaxStarts` exceeds
  what five ticks admit.
* *Watch.*  Three bumps let a watcher be woken by one and sleep again before the
  next, or be woken by the bump of another source; two of them can be those of
  a service that is added or removed.
* *Process.*  Three processes: one being reaped, one running, and a kill timer
  left over from a third; names are reused when nothing is left of a process.
* *Log.*  A ring of two with three records wraps; two openings are a goroutine
  and its predecessor; `MaxQueue` bounds what is posted and not yet drawn,
  `MaxFails` the requests that fail for no reason of ours.
* *Refresh.*  Serials up to 6 allow for an addition, a change, a removal, a
  restart with the service added again, in all combinations that fit.  One
  service, because requests are made one by one and concern one service each.  Two
  lists may wait to be drawn (`MaxPosted`), so that the loop has posted a second one
  and begun a third round before the first is shown.
* *Panels.*  Two services are enough for a selection to change its line, leave the
  list and come back; one of them may look failed or be missing, so that they change
  places.  `MaxQueue` bounds the panels that keys have asked for and that wait to be
  shown.  With one, a key that moves the cursor, acts on a service or does nothing may
  come while such a panel waits, and any key while the panel for the password does; a
  key that asks for a second panel waits until the first is shown.  So the run has no
  two panels of keys in the queue; the theorems, which are for any `MaxQueue`, have.
  A key that asks for nothing comes while no more than `MaxQueue` panels wait, that
  for the password included, because each draw may ask for it again.

### Fairness

* `Supervisor`: weak fairness of `Step`, because a provider's calls return
  (`provider.go:55-70`).  `SelfHealing` adds strong fairness of the monitor's
  passes, as it contends for a Go mutex, which does not starve a waiter, and weak
  fairness of the end of rate periods.  Nobody is obliged to call anything.
* `Watch`: who holds the lock goes on (weak), who wants it gets it (strong, the
  mutex again).  `EveryCallReturns` assumes that timers fire, the other
  properties do not.  `NapsEnd`: a nap without a manager is as long as asked for.
* `Process`: a `Stop` that has begun goes on, goroutines and timers run, that of
  the stop command among them; nothing makes a process or the stop command end
  but a kill.
* `Panels`: the application draws, takes what is posted (strong: a key may come
  first, but not for ever, as events and closures share one queue), and the loop
  goes on.  No key is ever obliged to come.  Deadlock is not checked there, because
  the program may end.
* `LogView`, `Refresh`: goroutines that can run do, timers fire, requests to a
  server that is gone fail.  Nobody has to write, press a key or change anything,
  and only the bound `MaxFails` says that requests succeed in the end.

`Cycle` and `SelfHealing` have a VIEW that leaves out the two ghosts, which no
action and no property of theirs reads.  That of `Panels` leaves out what is set
anew before anything reads it: the names of panels that are neither shown nor in the
queue, the cursor while nothing is selected, and, once the program has ended, all but
what the properties name.  Of the list it keeps the order only, because a key that
depends on a look (`Post`) changes no variable.

## 4. Where code and documentation differ

Three runs are expected to fail:

* `FirstMatchOnly`.  `service.go:114-117` says a service may offer several names.
  `setManager` links it to the first dependency that matches and breaks
  (`service.go:553`, `562`); a service that depends on both names never runs.
* `WatchUnlocked`.  `bumpSerial` is to be called with the lock held
  (`manager.go:72`); `Service.Check` reaches it without (`service.go:331`), and a
  watcher may be woken before the new number is stored, find the old one, and
  sleep on.
* `StaleHandle`.  `service.go:29-31` says that the manager's lock protects a
  service once it is added.  `Enable`, `Disable`, `Restart` and `Clear` test
  `s.mgr` and then wait for its lock (`service.go:217-221`); if the service is
  removed meanwhile, `s.mgr` is nil inside, the operation panics, the deferred
  `s.mgr.unlock()` panics too, and the lock stays held.  govisord removes services
  only in `Shutdown`, before it ends.

Others are known and shape the properties that do hold:

* A service that the rate limit refuses without having failed is started by
  nobody when the period is over, although `service.go:739-740` says "we wait for
  a full interval count before we will restart".  Hence the exemption of
  `rateLog` in `NoneLeftBehind`.
* `tooQuickly` compares with the last start only; once the count has reached the
  limit, over any time, a single recent start is refused, although
  `service.go:738-739` speaks of "more than a specified number of times in an
  interval".  `FullPeriodWait` states the direction that holds.
* `Shutdown` gives no new serial to the list and to services that did not run,
  against `manager.go:125` and `130`.  Hence the exemption in `ChangesBump`.
* The callback of a `Stop`'s timer, delayed at the lock, kills whatever process
  runs by then (`process.go:254`).  The model has it; `NoOrphans` and
  `CrashIsSeen` hold in spite of it.
* The context of a log panel ends after an hour (`app.go:81`); the panel is then
  no longer kept up to date.  Hence the assumption of `PanelKeepsUp`.
* After an error other than a refused password `MainPanel.update` returns before it
  sets the height (`mpanel.go:262`), after a 401 before it makes the lines
  (`mpanel.go:199`); both index a list that is empty by then.  Hence the
  exemption in `PanicsOnlyAfterError`.  A 401 that is drawn after a list that was not
  empty therefore ends the program in the draw that posts the password panel, before
  it is shown.  Hence `height = 0` in `PasswordIsAskedFor`: it speaks of a refusal at
  the start, after an empty list or after another password, and counts no panic as an
  answer.
* A negative rate limit, which `setProp` accepts (`service.go:422-430`), leaves no
  ring to index (`service.go:745-755`).  `RateLimitAssumption` excludes it.
* `LogPanel.err` is read (`lpanel.go:136`) and never set, so that an error shows as
  "Loading ...".
* A 401 of a request that was sent with the old password may be shown after
  `SetUserPassword` (`app.go:104`) and asks for the password again.  Hence
  `RefusalIsForgotten` says "in the end" and not "at once".
* The posts of the panels run in the goroutine that draws and their errors are
  dropped; `enableService` compares with the wrong error (`server.go:221-224`), so
  that a conflict is answered 400 where 409 is meant.

## 5. What is proved

Every theorem is for all values of the constants: any set of services, watchers,
processes or goroutines, any graph and naming, any limit, ring and serial.  The
assumptions are those named in the modules: types, distinct names, and a finite
set of services in `RestServer`, because `Shutdown` numbers all that run, and in
`Panels`, because a list is as long as there are services.
Nothing is assumed about scheduling or providers.

| module | theorem | property | |
|---|---|---|---|
| `SupervisorProofs` | `TypeCorrect` | `TypeOK` | the state is well typed |
| | `GraphCorrect` | `GraphMirrors` | links are mutual and between members, also inside a cascade |
| | `GraphCanonical` | `GraphIsCanonical` | the links are a function of the members, in whatever order they came |
| | `ConflictsExcluded` | `NoConflictEnabled` | rivals are never enabled together |
| | `InvariantHolds` | `IInv` | the inductive invariant |
| | `RunningIsSupported` | `RunningSupported` | when the lock is free, what runs is a member, enabled, not failed, and has its dependencies |
| `CascadeProofs` | `NeedlessStopsExcluded` | `NoNeedlessStop` | what is stopped for an unmet dependency lacks one |
| | `StopsInOrder` | `StopOrder` | without cycles, a provider outlives its dependents |
| | `NothingLeftBehind` | `NoneLeftBehind` | when the lock is free, what could run does, or has failed, or was refused by the limit |
| | `ChangesAreSeen` | `ChangesBump` | no change but those of `Shutdown` without a new serial |
| | `ProvidersAreCalledInTurn` | | `Start` is called of what is down, `Stop` of what is up |
| | `EveryServiceIsLimited` | | the counts of starts implement `Limiter`, for each service |
| `RateLimitProofs` | `PeriodIsWaited` | `FullPeriodWait` | at the limit, a full period passes before the next start |
| | `CoolDownDecidesNothing` | `CoolDownIsDead` | the second test of `tooQuickly` refuses nothing |
| | `LimiterImplemented` | `ImplementsLimiter` | the ring with its clock implements `Limiter` |
| `HandlesProofs` | `NewsIsHeard` | `NoNewsSleptThrough` | no wake-up is lost |
| | `NumbersAreNew` | `NumbersAreFresh` | a stored serial is larger than all before it |
| | `OldTakesItsTime` | `OldOnlyAfterTimeout` | the old serial is returned only when the time is up |
| `ProcessProofs` | `NobodyIsOrphaned` | `NoOrphans` | a stop leaves nothing behind |
| | `ContractIsKept` | `ImplementsProvider` | a process is a provider as the manager takes it |
| `LogProofs` | `LatestAreKept` | `KeepsTheLatest` | the ring returns the latest records in order |
| | `EtagIsTrusted` | `EtagTellsAll` | a copy with the current id is the log |
| | `RecordsAreHeard` | `NoRecordSleptThrough` | no reader sleeps through a record |
| | `NamesAreRight` | `NoOtherLog` | a log is shown under its own name |
| `RefreshProofs` | `ViewsAreConsistent` | `ConsistentView` | what `getService` answers existed at one moment |
| | `EtagsAreTrusted` | `EtagTellsAll` | a serial stands for one look of its service |
| | `NamesAreRight` | `NamesMatchTag` | the cached names are those of their Etag |
| | `DrawnInOrder` | `NeverBackwards` | what is drawn is never older than what was drawn |
| `PanelsProofs` | `CursorIsOnSelection` | `CursorOnSelection` | the arrows go on from the highlighted line |
| | `PanicsNeedAnError` | `PanicsOnlyAfterError` | no index error unless the server answered with an error |
| | `KeysAreMeant` | `KeysAreForTheChosen` | a key is for the service the user chose, or for none |

### Supervisor

`RunningSupported` speaks only of moments when the lock is free and is far from
inductive.  The invariant is `IInv` of `SupervisorInvariant`:

* `TypeOK` and `Shape` say what the stack may look like: which calls are at the
  bottom, that a call not yet begun is on top.  Every other part needs them to
  know what returning or calling does.
* `GraphInv` (`GraphMirrors` and irreflexivity) makes "child of" and "has as a
  parent" the same, so that a loop over children visits everybody whose
  dependencies changed.
* `Pending` and `NoConflictEnabled` belong together: `Restart` disables, stops
  and enables again without a look at the conflicts, which is sound only because
  nothing else can be enabled in between.
* `StoppingIsCalled` ties the `stopping` flag to exactly one `stopRecurse` in
  progress; without it a flag left over would make a service unstoppable.
* `FailedIsStopping` covers the moment between `failed` being set by
  `checkService` and the stop that follows.
* `Supported` is the heart: a running service that is not being stopped is
  `Sound`, or it is `Doomed`, that is, some call in progress is still going to
  visit it.  With an empty stack nobody is doomed, which gives
  `RunningSupported`.

The proof of `Supported` has a lemma per step: starting only adds support;
marking a service as stopping dooms its children, which are those its loop will
visit; a child is spared only if `canRun` holds, so that it is sound; a call that
returns has an empty list.  TLC checks `IInv` in the run `Cycle`.
`GraphIsCanonical` needs little besides the types: an addition looks at all others
from both sides, and a removal takes a service out of every set.

### Stops

`CascadeProofs` adds to `IInv` what a cascade of stops does:

* `OnlyStopsAbove` and `LoopsChildren`: above a loop of `stopRecurse` there is only
  `stopRecurse`, so nothing comes up while it goes on, and it visits children.
* `DisabledIsStopping` and `CauseHolds` give `NoNeedlessStop`.  A child that fails
  `canRun` and still runs is enabled, hence without a conflict, hence short of a
  dependency; and as nothing comes up, it is so until it is down.
* `VisitedIsSound` and `CallsAscend` give `StopOrder`.  `VisitedIsSound` is `Supported`
  seen from a loop: a child it has visited that still runs has what it needs, or a
  later call is going to visit it.  When the loop ends there is no later call.
  `CallsAscend` needs a rank of the services by which every dependency goes
  downwards (`Ranks`), the hypothesis of `StopsInOrder`: it keeps a child of the
  service that goes down from being further down the stack.  In a cycle it may be
  there, and then a provider does go down before a dependent.

### Starts and changes

`NoneLeftBehind` speaks of idle moments, like `RunningSupported`, and is the other
half of it.  In the middle of a cascade much is left behind, so `CascadeProofs` says
who is going to come back for it:

* `Owed` are the services that could run, do not, and that neither a failure nor
  the limit holds back.  `Awaited` are those which a `startRecurse` in progress has
  been called for or has still to visit.  `StartsAwaited`, that whoever is owed is
  awaited, gives `NoneLeftBehind` when the stack is empty.
* A service becomes owed when a dependency comes up, and is then a child of what
  came up, which is about to visit all its children; or when it is enabled, cleared
  or added, and is then called for.  It would also become owed if a service went
  down that could run: `StopHasReason` rules that out, since what is stopped is
  disabled, has failed, or lacks a dependency (`CauseHolds`), and while
  stops go on nothing comes up.
* A step takes a service out of `Awaited` only when it has visited it.  There it
  runs, fails, is refused, or `canRun` has said no.

`ChangesBump` needs `RestartIsPending`, because the serial of a restart is given
before its stops and the enabling comes after them.

### How the models fit together

`Supervisor` has neither a clock nor processes.  `LimiterImplemented` and
`EveryServiceIsLimited` have `Limiter` in common: the ring with its clock does no more
than `Limiter` allows, and the counts of `Supervisor` are a `Limiter` for each
service (`Counting`, `AtLimit`).  `ContractIsKept` and `ProvidersAreCalledInTurn` have
`Provider` in common: a process keeps to it as long as the manager calls in turn,
which the `running` flag makes it do on any graph.  For the rest, `Supervisor`
assumes less than `Process` keeps, as its providers may break at any time.

### The other modules

* *RateLimit.*  `RInv` says which slots of the ring hold the last start and the one
  before it, after any change of the limit: the two differ unless the ring has
  one slot (`SlotsDiffer`, arithmetic of `%`).  `StillAdmitted` bridges the time
  between the test and the record of a start, during which the clock moves.
  Under the refinement mapping a tick either stutters or ends the period.
* *Handles.*  `LockInv`: who is between the test and the sleep has the lock, and so
  has who bumps.  `SleepInv`: who found nothing new is in `cvs`, nothing was stored
  since, and nobody sleeps between a broadcast and its store.  `SerialInv`: there
  is at most one number on its way, larger than all that are stored.  `TimerInv`:
  while the timer of a call runs, its time is not up, so that only its own timer
  lets a call return the old number.  The proofs are about `HandlesSpec`; with
  `Check` the first three do not hold.
* *Process.*  `PInv`: a process that was not reported is the one of `p.process` and
  was not stopped, so that at most one `doWait` is not through, and a stop under
  way has set `stopped`.  From it follows what each step is to `Provider`.
* *LogView.*  `VInv`: the record with number k is in slot k (`RoundApart`), every
  copy there is, in a cache, a goroutine, a response or on the screen, with the
  current id is the log, and who sleeps has seen the id.
* *Refresh.*  `FInv`: while `getService` reads, its service may leave the manager but
  does not come back; what it read is a mixture only if the serial has changed,
  which its last call finds out; a service that has left reads as serial 0 and is
  disabled.  `FlagsRead` are the flags read by now, of which this holds between any
  two calls.  `ViewOf` and `ListOf` say of every answer, cached list and posted item
  that it is the one of its serial, which a restart keeps because serials only
  grow.  `OInv` adds the order.  `Stamped`: no serial that is under way is ahead of its
  service.  `InOrder`: what is read, answered, collected or posted is not behind what
  has been handed to the screen, and of the lists that wait none is behind the one
  before it, which holds because one loop makes one request after the other and
  closures run in turn.  `Once`: no list has a service
  twice.
* *Panels.*  `PInv`: the items are a sorted list without repetitions, or none
  (`Listed`), so that a name has one row, the row the cursor is on when a key comes;
  and if the list could be got, the height and the lines are its length (`Measured`),
  so that an arrow stays inside.  The early returns of `update` are why `Measured`
  exempts errors.  `Chosen` gives `KeysAreForTheChosen`: the selection is what was
  chosen with the cursor, and the name of a panel what was chosen where it was asked
  for, or nothing.  A key moves the cursor to the row that was meant because the
  cursor is on the highlighted one (`CursorIsMeant`), and a new list moves cursor
  and selection together.

`OInv`, `PInv` of `PanelsProofs` and what `CascadeProofs` says of stacks were
checked by TLC on the instances of the runs before they were proved.

### What is only model-checked

Every invariant and every action property of the passing runs is stated by a
theorem.  The eleven that say that something happens in the end are left to TLC,
because the prover has no ENABLED and so no fairness: `LockIsReleased`,
`SelfHeals`, `NewsEndsTheCall`, `EveryCallReturns`, `LockIsGivenUp`, `StopEnds`,
`CrashIsSeen`, `PanelKeepsUp`, `KeepsUpToDate`, `PasswordIsAskedFor` and
`RefusalIsForgotten`.  `ProviderCalls` and `EveryServiceIsLimited` are theorems and no
properties of a run.

## 6. What is not modelled

* `MultiLogger`, output pipes and `doLog`: what a line says and where it goes.
  `getLogger` gives every addition of a service a logger that nobody deletes
  (`manager.go:263-265`), so that one added again logs to its manager twice; and
  `cmd.Wait` closes the pipes, so that the last lines of a process may be lost.
* The window between reading `s.mgr` without the lock and taking it, except in
  `Handles` and in `RestServer`, where it decides what a removed service answers.
* Posts as requests, HTTP errors other than 401 and 404, `If-Modified-Since` (the
  client never sends it), the comparison of the password with its hash.
* Layout and drawing, scrolling, the text typed into the password panel; the
  one-shot commands of `govisor`, which make one request and print it; manifests,
  which are decoded once.
* `WatchService` of the client, which has no caller.

## 7. Plan

Built so far, in this order: links, supervision with its invariant and proofs,
rate limit with its refinement, watching, processes, server and refresh, logs,
handles, panels, providers, and proofs about all of them.

Next, in order of what they would tell:

1. *MultiLogger*: fan-out, additions and removals of services, lines written
   twice; composed with `Log`.
2. *Posts* through client and server as requests of their own in `RestServer`,
   with the answer a caller gets when the service goes away.
3. *Proofs.*  The calls of `Process` as the part of `Supervisor` that concerns one
   service, so that the two sides of `Provider` become one theorem; the steps
   under the liveness properties that need no fairness, such as a measure that
   every `Step` of a cascade lowers.
