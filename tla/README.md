# A verification project for foxplay-game

TLA+ modules that model the program, TLC configurations that check them on small
instances, and theorems whose proofs TLAPS checks. Paths are relative to the
repository root; line numbers are those of the commit modelled.

## 1. The system

foxplay-game hosts two things on one machine: *functions* (HTTP handlers that run in
short-lived Firecracker micro-VMs) and *instances* (long-lived micro-VMs with an SSH
port), next to older container tooling for game servers.

| part | state it keeps | operations | talks to |
|---|---|---|---|
| `pool-manager/` (`manager.go`, `main.go`, `firecracker.go`, `vsock.go`) | per function: `warm` channel, `waiting` queue, `booted` counter; Firecracker processes | `Invoke` with `returnVM`, `discardVM`, `failWaiters`; `bootVM` (restore or cold boot); `idleSweeper`; `Stats`; `cleanupStaleVMs` at start | guests over vsock, image and snapshot files, metrics |
| `pool-manager/bootstrap/` | the app process, the vsock listener | init of the guest: start the app, accept, one goroutine per invocation | pool-manager over vsock |
| `artifact-store/` (`builder.go`, `snapshot.go`) | `<fn>.ext4`, `<fn>.snap`, `<fn>.mem` | deploy (build, then snapshot), delete | the same files and the same vsock path as pool-manager |
| `instance-manager/` | `running` map; run-state files, disks, taps, port forwards | Create, Start, Stop, Delete, RunningIDs, adoption after a restart, sampler | frontend (HTTP), kernel networking |
| `frontend/app/api/` | rows in Postgres | instances: list with reconciliation, create, start, stop, delete; functions: register, delete | instance-manager, artifact-store, database |
| `frontend` pages | browser state | forms, upload (register, deploy, roll back) | the API |
| `metrics/` | rows in Postgres, a readiness flag | inserts and queries | everyone emits to it, best effort |
| `controller/` | none; podman, S3 | create/manage containers, port choice, backup, prune | podman, S3 |
| `rcon/RconMonitor.java` | one web socket, one poller | connect, reconnect, poll, notify | a Minecraft server |
| `database/`, `brain/`, scripts, images | schema, a stub, shell steps | | |

### Behaviours that are hard, and what makes each part correct

*Pool of a function.* Handlers, replacement boots and the sweeper share `warm`,
`waiting`, `booted` and the waiters' channels. `waiting` and `booted` are changed under
`pool.mu`; the channels are used outside it. Correct means: a VM serves one request at
a time and is never lost or killed under somebody; `booted` is exact, so `MaxVMs` holds
(a restored VM reuses one vsock path, so with `MaxVMs = 1` a second VM would fight over
it); each queued request is signalled exactly once; nobody waits for ever.

*Artifacts.* Two processes share files and a socket path without locks; a snapshot is
trusted by modification time. Correct means: a VM boots from a snapshot only if it was
taken from the image that is now deployed, with the memory file that belongs to it.

*Bootstrap.* A guest whose app died must be found out by the pool.

*Instances.* The lock of `Manager` covers the map only, while the work between taking
and releasing it changes the host. Correct means: at most one VM per disk; tap, forward
and run-state file exist for a VM in `running`; after a crash every live VM is adopted.
The frontend's rows must converge to that state, and ports and addresses be unique.

*Controller, rcon.* Check-then-use of ports; a backup that must not stop half way;
reconnects that must not multiply.

*Pages.* A page polls, a button is pressed, an answer is on its way, and a form that
saves a key and creates a server with it stays usable meanwhile. Correct means: no old
state is shown as new, the key used is the key shown, every button comes back.

`PROJECT.json` lists every hazard at its line, with the properties that cover it or
the reason why none can.

## 2. Plan

In order of importance. Each component's module keeps its actions small (one lock
section, one channel operation, one HTTP call) and uses no `RECURSIVE` operator.

1. **Done:** `VMLease` (what a pool promises), `FunctionPool`,
   `FunctionPoolProperties`, `MCFunctionPool`, `SequenceLemmas`, `FunctionPoolProofs`,
   `FunctionPoolQueueProofs`.
2. **Done:** `InstanceManager`, `InstanceManagerProperties`, `MCInstanceManager`,
   `InstanceManagerProofs`: the lifecycle calls as sequences of steps around the map
   lock, crash, reboot and adoption.
3. **Done:** `InstanceRegistry` (rows and handlers, over an abstract instance-manager),
   `SshKeys` (the saved keys and the form that uses one), `ServerPages` (both, with the
   page of a server), `ServerPagesProperties`, `MCServerPages`, `SshKeysProofs`,
   `ServerPagesProofs`.
4. **Done:** `FunctionArtifacts` (deploy, snapshot, delete and the boot that reads the
   files), `FunctionPages` (registry of functions, upload and delete on top of it),
   `FunctionPagesProperties`, `MCFunctionPages`, `FunctionPagesProofs`.
5. **Done:** `GameServers` (creates and ports), `Backups` (backup and prune),
   `Controller` (both in one process), `ControllerProperties`, `MCController`,
   `ControllerProofs`.
6. Left: `GuestBootstrap` (guest init and one invocation over vsock), `RconMonitor`, the
   metrics store's readiness loop. Each is small and shares no state with the rest.
7. **Done:** a proof for every invariant and action property that a run checks, and for
   the refinement of `VMLease`. Left: that `InstanceManager`, its calls one after the
   other, implements the abstract manager that `InstanceRegistry` assumes.

## 3. The pool of a function

### Modules

* `VMLease`: the abstract specification, three variables: which VMs run, which request
  runs on which VM, how far each request is.
* `FunctionPool`: one pool of `pool-manager/manager.go` and everything that touches it.
* `FunctionPoolProperties`: its properties and the refinement mapping to `VMLease`.
* `MCFunctionPool`: adds the symmetry set for TLC.
* `SequenceLemmas`, `FunctionPoolProofs`, `FunctionPoolQueueProofs`: the proofs
  (section 8).

Pools of different functions share nothing but the map that `getPool` fills under
`m.mu`, and the sweeper visits them one after the other, so one pool is modelled.

### State

| variable | code |
|---|---|
| `warm`, `waiting`, `booted` | fields of `Pool` (56-61) |
| `mail`, `closed` | the one-place channel of each waiter (150): its buffer, and whether it was closed |
| `cancelled` | the requests whose `ctx` is done (`main.go` 66-78) |
| `alive` | Firecracker processes that serve; `killVM` removes one |
| `pc`, `vm`, `peer` | position and locals (`vm`, `w`) of each handler |
| `repl` | the goroutine of `discardVM` (274-286) |
| `fails`, `drained` | a call of `failWaiters` (291-300) |
| `spc`, `stale`, `live`, `victim` | position and locals of `idleSweeper` |

A request queues at most once, so `r` also names its waiter and its channel. A VM is
booted by the request `r` for itself or as the replacement for waiter `r`, never both,
so `r` names that VM as well. `Nil` is a nil `*VM`.

### Steps

A section between `pool.mu.Lock` and `Unlock` is one action (`ReserveSlot`, `Enqueue`,
`ReturnPopsWaiter`, `ReturnPopsNobody`, `Drop`, `DiscardForWaiter`, `Discard`,
`ReplacementReleases`, `DrainQueue`, `SweepCountOut`). A channel operation outside the
lock is one action (`TakeWarm`, `MissWarm`, `ReceiveVM`, `ReceiveNil`, `LeaveQueue`,
`HandOff`, `Park`, `ParkFull`, `ReplacementBoots`, `ReplacementFails`, `CloseNext`, the
sweeper's receives and sends). What a goroutine does between two such points touches
only its own variables, or kills a VM it alone holds, and belongs to the step before.
In the slow path the second look at `warm` and what follows under the same lock are one
step: other goroutines may use `warm` without the lock, but whatever they do after the
look commutes with the rest of the section.

`bootVM` is a step with two outcomes; a failed boot has killed what it started. An
invocation is a step with two outcomes: an answer, or an error of the transport or of
the bootstrap. `killVM` sends SIGTERM and does not wait: `alive` means "not yet told to
stop". Idle time is the sweeper's choice of a set of parked VMs at each tick; a VM used
since is not in it.

Operators named `X_Y` directly above an operator `X` are `X` with a plausible bug. No
action uses them; `PROJECT.json` pairs each with a property that detects it.

### What is checked

| run | instance | shows |
|---|---|---|
| `pool_safety` | 4 requests, `MaxVMs = 2`, one place in `warm` | `TypeOK`, `VMCustody`, `SlotAccounting`, `CapacityRespected`, `SignalledOnce`, `NoWaiterForgotten`, `ServedInOrder`, `ImplementsVMLease` |
| `pool_live` | 3 requests, `MaxVMs = 1`, `FairSpec` | `HandlersEnd`, `PoppedWaiterResumes`, `BootFailureReleasesWaiters`, `BusyVMServesQueue` |
| `pool_local` | 3 requests, `MaxVMs = 2`, `LocalFairSpec` | `ClientCanLeave`, `SweeperGivesBack` |
| `pool_lost_wakeup` | 2 requests, `MaxVMs = 1`, `FairSpec` | `QueuedRequestResumes` is violated |
| `pool_stranded_vm` | 2 requests, `MaxVMs = 1` | `EveryVMWarmOrBusy` is violated |

Bounds. The only bound is the set of requests; nothing else needs one. Four requests
give two VMs in use, a waiter behind them (which may leave) and a latecomer that races
all of them; two VMs and one place in `warm` are the least for which `warm` can be full
when a handler or the sweeper comes back to it. `MaxVMs = 1` and `WarmPoolSize = 1`,
which the liveness runs take, are what `main.go` 44-45 deploys. `MaxVMs` of zero or
less, which means no limit, is covered by the proofs (section 8), not by a run. The
liveness runs use three requests and no symmetry. Deadlock is checked in every run; the
ticker can always tick, so hanging handlers are the business of the liveness properties.

### Fairness

`Fairness`: weak fairness of each handler, of each `failWaiters` call, of the
replacement's lock section and of the sweeper. The Go scheduler runs every goroutine
that can run, and no lock section of the pool blocks inside. `GuestFairness` adds that
boots and invocations end: `waitForVsock` and the 30 s deadline of `invokeViaVsock`
bound them, provided the vsock handshake is answered, which `connectVsock` awaits
without a deadline (`vsock.go` 44). `pool_local` does without it. Nothing forces a
client to leave, the ticker to tick or a VM to be stale.

### Where the code does not do what its comments say

* **A queued request can be left waiting beside an idle VM** (`pool_lost_wakeup`). The
  comment at `manager.go` 126-127 says that the second look at `warm`, under the lock,
  prevents a VM from being returned unnoticed. `returnVM` asks for a waiter under the
  lock but sends to `warm` after releasing it (232, 240). A request that queues in
  between is served only when another request comes and uses the parked VM.
* **A VM can be stranded** (`pool_stranded_vm`). `booted` is called "total VMs alive
  (warm + busy)" (60). If the client of a popped waiter leaves, the VM sent to it
  (236, 285) stays in a channel nobody reads, running and counted. With `MaxVMs = 1`
  every later request of the function queues in vain.

The properties that hold say exactly how far the promise goes: `BusyVMServesQueue`
(while a VM works, the head of the queue is served next) and `SlotAccounting` (a
stranded VM is still counted, so the limit itself is never exceeded).

## 4. The instance-manager

### Modules

* `InstanceManager`: `manager.go` and what it does to the host in `network.go`,
  `disk.go` and `firecracker.go`.
* `InstanceManagerProperties`: its properties. `MCInstanceManager`: the symmetry set.
* `InstanceManagerProofs`: the proofs (section 8).

### State

| variable | code |
|---|---|
| `proc[t]` | the Firecracker process that call `t` spawns, at most one (`firecracker.go`) |
| `host[i].socket` | who bound the API socket of instance `i` |
| `host[i].tap`, `host[i].rules` | its tap device and how many DNAT rules forward to it (`network.go`) |
| `host[i].disk`, `host[i].file` | its disk and its run-state file, with the process the file names |
| `up` | the manager runs |
| `running` | `Manager.running` |
| `call[t]` | an HTTP handler: operation, instance, position, the process it has to kill, the clean-up commands it has left, its answer |
| `crashes` | bounded by `MaxCrashes` |

### Steps

`m.mu` covers only the map, so each section under it is one action (`StartBegins`,
`Register`, `StopTakes`, `DeleteTakes`), and so is each command to the host: between two
of them every other call may run. What Stop, Delete and a failed Start undo is a list
of commands (`kill`, `net`, `tap`, `socket`, `file`, `disk`) that `Clean` runs one by
one. Each failure the code handles is an action of its own (`AddTapFails`,
`AddForwardFails`, `SpawnFails`, `BootFails`, `ProvisionFails`), with what it leaves
behind. A Firecracker that finds its socket path bound by another exits at once; the API
calls that follow reach the other one (`Listener`).

`Crash` kills the manager, not the VMs (`KillMode=process`); `HostReboot` leaves only
disks and run-state files; `Restart` is `adopt`, which runs before the server listens.
`GuestExits` is the guest's own power-off, Stop's Ctrl-Alt-Del included.

`Overlap` says whether a call on an instance may begin while another one runs on it.
The page of an instance disables its buttons meanwhile (`busy` in
`InstanceDetailClient.tsx`), which is `FALSE`; two open pages, or a request given up
and repeated, are `TRUE`. The manager itself does not serialise calls.

### What is checked

| run | instance | shows |
|---|---|---|
| `instance_serial` | 4 calls, no overlap, 2 crashes or reboots | `TypeOK`, `StartedVMsKnown`, `OneGuestPerDisk`, `RunningIsReachable`, `DeleteIsFinal` |
| `instance_overlap` | 3 calls at once, 1 crash | `KilledByOne`, `AnswersAreTrue` |
| `instance_untracked` | 3 calls at once | `RunningIDsComplete` is violated |

Bounds. One instance: everything an instance owns on the host has a name or address of
its own, and the calls on two instances share only the lock of the map, so a second
instance would multiply the states and add no interaction. Four calls in a row are
create, stop, start, delete in any legal order, with a failure or a crash in each; two
crashes let the second hit what the first left for `adopt`. Three calls at once are the
least that let a third one act on what the first two did to each other. Deadlock is
checked: when all calls are answered, `Finished` stutters.

### What the properties leave open

* **A VM nobody knows of** (`instance_untracked`). `Start` looks into the map at line
  165 and enters its VM at 222, unlocked in between: two Starts boot two VMs on one
  writable disk and the map keeps one. After a Stop, `RunningIDs` (284) does not name the
  instance although one VM runs, and no call can stop it.
* `OneGuestPerDisk` and `DeleteIsFinal` exempt a VM whose Start was cut off between
  `startVM` and `writeRunState` (`CutOff`): no run-state file names it, so the next
  manager does not adopt it and Start boots a second one.
* A VM that exits by itself stays in the map until Stop, Delete or a restart; the
  properties are about VMs that live. A write error of `writeRunState` is ignored by
  the code and not modelled; its effect is that of `CutOff` at the next restart.
* `DeleteIsFinal` says nothing about DNAT rules: a Start whose `addPortForward` fails
  half way leaves its first rule (92), and a delete removes one.
* The comment at lines 5-7, that a restart stops the instances, is older than `adopt`.
* Process ids are not reused in the model, which `adopt`'s probe of the pid relies on.

## 5. The servers: registry, keys and pages

### Modules

* `InstanceRegistry`: the table `instances` and the handlers of `app/api/instances`.
* `SshKeys`: `app/api/ssh-keys`, the hook `useSshKeys`, and the form
  `CreateInstanceClient` up to its call of `create`.
* `ServerPages`: both together, with the page of a server (`InstanceDetailClient`) and
  the hook `useInstances`.
* `ServerPagesProperties`, `MCServerPages`; `SshKeysProofs`, `ServerPagesProofs`
  (section 8).

### State

| variable | code |
|---|---|
| `row[i]` | the row of instance `i`: state, slot, whether `deletedAt` is set |
| `vm[i]` | what the instance-manager has: nothing, a disk, a disk and a VM in its map |
| `request[c]` | the handler of client `c`'s create, start, stop or delete, its slot, its answer |
| `list` | the handler of GET `/api/instances` and the rows it works on |
| `page[t]` | a tab: which server, what its query shows, the request or answer on its way; `old` and `late` are history |
| `saved` | the rows of `ssh_keys` by date |
| `form` | the form: picker, typed key, the list it has and the one on its way, the key of this submission; `meant` and `kept` are history |

A slot is the SSH port and the last octet of the address: `route.ts` counts both up from
the highest in use. A row's id is made for one create, so a create never finds its row.

### Steps

A handler awaits one query or one call at a time, so each is a step and everything else
may run in between: a create is `Allocate`, `Insert`, the call, then `Write` or
`MarkError`; start, stop and delete are `LoadRow`, the call, `Write`; the list is
`ListReads`, `ListAsks`, `ListMarks`. A failing query is `QueryFails`. The
instance-manager is abstract: a call that succeeds has all of its effect (`Effect`), one
that fails has none, all, or stopped half way (`Remains`), and that is one step; what
happens inside is the business of `InstanceManager`. `FrontendRestarts` loses every
handler, and a call in flight has had its effect, a part of it, or none. `VMsVanish`
takes a VM out of the manager's map (a reboot, a restart that does not adopt).

On the page, `Poll` is the five-second timer, the focus or a remount; `DetailAnswers` is
the route's read, `DetailArrives` the answer; `Refetch` gives up a request that is on
its way. In the form, the list is fetched when the form opens, when the window gets the
focus and after a key was saved (`Focus`; while a mutation waits for its own
invalidation the fetch that ends is the one it waits for, so there is none in
`"refresh"`). `Default` is the effect that picks the newest key.

### What is checked

| run | instance | shows |
|---|---|---|
| `servers_pages` | 1 server, 1 tab, 1 other client, 2 keys, 2 saves, `FairSpec` | `TypeOK`, `NothingUnlisted`, `ReadYourWrites`, `InjectsWhatWasShown`, `RetryKeepsKey`, `PageCatchesUp`, `ButtonsComeBack`, `Reconciled` |

Bounds. Instances meet only in the choice of a slot, and with creates one at a time that
is `SlotsUnique`, which is proved for any number of them; so one instance is enough for
the run. One tab and one client that may ask for anything at any time give every pair of
overlapping requests on it. Two keys and two saves (`MaxSaves`) are the least for
which the newest key is not the only one and for which a list can change its length under
a submission. `Apart` keeps the form and the servers from running at the same time: they
share nothing but the `create` between them, and their product adds no behaviour, only
states. The proofs hold without it.

`Patient` is an assumption about users: nobody creates a server, or acts on the one that
is being created, while a create runs. Without it two creates that read the same
high-water mark get the same slot (no constraint of the table forbids it), and a delete
during a create removes the row of a VM that is then made; the code does nothing against
either. Starts, stops and deletes overlap freely.

### Fairness

Handlers run on and neither queries nor calls block for ever (weak fairness of
`HandlerRuns`); the timer of a page in the foreground fires (weak fairness of `Poll`);
a query made over and over is answered at some time (strong fairness of
`DetailAnswers`); the form's fetches end and its submission goes on. `Reconciled` has a
premise, `ListIsServed`: somebody keeps opening the list, and its two calls do not fail
for ever. `PageCatchesUp` exempts a page on which buttons are pressed without end, and
rows that never come to rest.

### What the properties leave open

* A Start and a Stop that overlap may leave a running VM whose row says `stopped`:
  reconciliation corrects only rows that say `running`.
* When the answer of a create is lost, its row and its VM stay, in the list.
* The comment at `CreateInstanceClient.tsx` 24 says that a key is picked "if the user
  hasn't chosen"; the effect takes the choice "new" for that. A list that changes
  its length after the press, by somebody else's doing, can therefore make a repeated
  press send another key; `RetryKeepsKey` is about the other cases.

## 6. The functions: artifacts, registry and pages

### Modules

* `FunctionArtifacts`: the files of a function, `artifact-store` (`/deploy`) and
  `bootVM` of the pool-manager, which share nothing but the file system.
* `FunctionPages`: the table `functions`, POST and DELETE of `app/api/functions` with
  `/delete` of the artifact-store, the upload form with its roll-back, the delete button.
* `FunctionPagesProperties`, `MCFunctionPages`; `FunctionPagesProofs` (section 8).

### State and steps

| variable | code |
|---|---|
| `disk[f][s]` | the five files of function `f`: image, snapshot, memory, two temporary ones |
| `deploy[d]` | a handler of `/deploy`: position, whether a snapshot is wanted, the image its VM ran; `older` is the comparison of modification times |
| `vm[f]` | the VM of `f` (`MaxVMs` is 1 where snapshots are used) and the files it came from |
| `row[f]`, `tab[t]`, `removal[t]` | the row; what a tab waits for; the handler of a DELETE |

Each call on the file system is a step: the install by rename or, across devices, by
copy; the two renames of a snapshot; each `os.Remove` of a delete; the check of a
snapshot, its load, its removal after a failed load. `StoreCrash` kills the
artifact-store between any two. Instead of times the model keeps for each snapshot the
deploys whose image was built before it (`older`); a copy makes an image newer than
every snapshot. A restart of the frontend does what a failure of the next step does.

### What is checked

| run | instance | shows |
|---|---|---|
| `functions` | 1 function, 2 deploys, 1 tab, `FairSpec` | `TypeOK`, `NothingOrphaned`, `UsableIsSound`, `ButtonsComeBack`, `RetryWorks` |
| `functions_mixed` | the same, `Spec` | `RedeployInvalidates` is violated |

Bounds. Functions share no file and uploads compete for one name; two deploys are one
that leaves a snapshot and one that replaces it, in each of the ways (with a snapshot,
opted out, failed, cut off). `Calm` keeps deploys of one function apart from each other
and from its deletion; without it a deploy that outlives a delete leaves an orphan, and
the snapshot of one deploy can be newer than the image of another: the code has no lock
to prevent either. Boots overlap with everything. No counter needs a bound: each id is
registered once, each deploy runs once.

Fairness: requests are answered in the end or given up, handlers run on. `RetryWorks`
has the premise `Insists`: the button is pressed whenever it is offered, and the store
and the database do not fail for ever.

### Where the code does not do what its comments say

* **A VM restored from two snapshots** (`functions_mixed`). `manager.go` 428-430 says a
  redeploy silently invalidates the old snapshot. The new `.snap` is renamed before the
  new `.mem` (`snapshot.go` 81, 84) and only `.snap`'s time is compared: in between, and
  for good when the artifact-store is killed there, the new state is restored with the
  old memory.

Also seen: when the answer of a registration is lost, the row stays without code and its
name is taken until somebody deletes it on its page; and the roll-back of a failed
upload, itself a call of the artifact-store, fails when the store is what is down.

## 7. The controller

### Modules

* `GameServers`: `/create` and `/manage` over podman, the choice of ports, the table
  `GAMES`.
* `Backups`: backup and prune, from the two loops and from requests, over an object
  store.
* `Controller`: both in one process, which dies as a whole: a create that finds no port
  (`toString` of `undefined`, outside of the `try`) ends the backup under way.
* `ControllerProperties`, `MCController`; `ControllerProofs` (section 8).

### State and steps

| variable | code |
|---|---|
| `games` | the table in memory (`getServer` returns a copy) |
| `container[n]` | podman's container: status, published ports, environment |
| `create[r]` | a create request: position, chosen ports |
| `dirs`, `store`, `job[j]` | directories of the servers; uploads by date; each run of backup or prune with what it has still to do |

Each await is a step: the scan of `/proc/net`, podman's create and start; for a job, the
access check and `tar`, the upload, each list and each delete. Podman and the object
store are external and may refuse or fail at every call. `Crash` restarts the process;
containers, directories and uploads stay.

### What is checked

| run | instance | shows |
|---|---|---|
| `controller` | 2 names, 2 creates, 3 host ports, 1 request for a backup, `FairSpec` | `TypeOK`, `ListensWherePublished`, `OneHostPortPerGamePort`, `NewestKept`, `OnlyWholeStored`, `OldOnesGo` |

Bounds. Host ports 20000 to 20002 (`MaxPort`): enough for one server and a half, so the
second create runs out of them or races for them. One name is the beginning of the other,
which is what the prefix of a listing must keep apart. `Keep = 1` (10 in the code) and
`MaxUploads = 3` give one directory more backups than are kept while another has one.
`Apart` lets jobs run only while there is no container and creates only before the first
upload: they share the directories alone, and a directory is never removed.

Fairness: timers fire, what a job calls returns (if with an error), and the store does
what it is asked over and over (strong fairness of the list and of the delete).

Two creates at once may choose the same ports; podman then starts only one of them and
the other container stays, stopped. One directory whose `tar` always fails keeps those
after it from being backed up by the loop. The code promises neither.


## 8. What is proved

### The pool

TLAPS checks, for any set of requests, every integer `MaxVMs` and every natural
`WarmPoolSize`:

* `TypeCorrect`: `Spec => []TypeOK`. `TypeOK` alone is not inductive: a handler in
  `handoff` must hold a `peer` that is a waiter, and one at `invoke` a VM. `TypeInv`
  is `TypeOK` with that (`HandsFull`).
* `CustodyKept`: `Spec => []VMCustody`. The inductive form (`Custody`) says that the
  places where a VM can be are disjoint (`PlacesDisjoint`), that a VM in a place is up
  or dying (`PlacesUp`), that every such VM is in some place (`NothingLost`), and that
  a request which has yet to boot, or whose replacement has, leaves the name of its VM
  unused (`NamesFresh`). `SequenceLemmas` has the facts about the elements of a
  sequence without repetitions that the queue operations need.
* `SlotsAccounted`: `Spec => []SlotAccounting`. `Counted` is the invariant; a step
  either keeps the set of slots, adds one or removes one (`SlotsKept`, `SlotTaken`,
  `SlotFreed`). It rests on `Custody`: a slot is freed once because a VM is in one
  place.
* `CapacityKept`: `Spec => []CapacityRespected`, from `SlotsAccounted` and the tests of
  `Below`: `booted` never exceeds `MaxVMs`, and the VMs up or booting are among the slots.

* `Refinement`: `Spec => ImplementsVMLease`, the pool implements `VMLease`. Every action
  maps to one of `VMLease` or to a stutter: a boot starts a VM, a hand-over or a take from
  `warm` leases it, an answer or a failure ends the lease, a kill stops it. That the VM
  leased is up and leased to nobody else is `Custody`; that a VM may be started
  (`RoomForBoot`) is `Counted`, since each VM that runs has a slot of its own.
* `SignalledOnceKept`, `NobodyForgotten`, `OrderKept`: `Spec => []SignalledOnce`,
  `Spec => []NoWaiterForgotten`, `Spec => ServedInOrder`, in `FunctionPoolQueueProofs`.
  `SignalInv` says who may still signal a waiter: a waiter that is popped has one
  signaller, which holds its name (`SignallersApart`), and its channel is empty and open
  until then (`ChannelsFresh`); a request calls `failWaiters` once, so that no call
  overwrites the list an earlier one is still closing (`FailsOnce`); a queued request
  whose client is still there has a signaller or its signal (`Remembered`).

Assumptions: `MaxVMsAssumption`, `WarmPoolSizeAssumption`, `NilAssumption`, which TLC
evaluates in every run of the pool.

### The instance-manager

For any sets of instances and calls and any number of crashes, and where nothing else is
said whether calls on an instance overlap or not:

* `TypeCorrect`: `Spec => []TypeOK`. `TypeInv` adds that a handler that has begun has an
  instance (`HasInstance`) and one that cleans up has a command left (`HasWork`).
* `KilledByOneCall`: `Spec => []KilledByOne`. The inductive form (`Ownership`) says
  where the name of a process can be: in the map only after its own Start has entered it
  (`MapOwned`), in a run-state file only after its Start is over (`FilesOwned`), held
  only by a handler that cleans up after itself or after a process that had been entered
  (`HeldOwned`); and that no handler runs while the manager is down (`DownIsQuiet`),
  so that `adopt` hands out nothing that is being killed. Nearly all steps are covered
  by one lemma, `MovesKeepOwnership`; `TakingKeepsOwnership` is the step of Stop, Delete
  and a failed Start.

* `TrueAnswers`: `Spec => []AnswersAreTrue`, with any overlap. `Honesty` says, for each
  place of a handler, what has become of its process: alive or not when it is spawned,
  killed before anything else of a clean-up, so that a Stop, a Delete or a failed Start
  that has answered leaves no process it had to end.
* `StartedKnown`, `OneGuest`, `Reachable`, `DeletedForGood`: `Spec => []StartedVMsKnown`,
  `[]OneGuestPerDisk`, `[]RunningIsReachable` and `[]DeleteIsFinal`, **assuming
  `~ Overlap`**. With overlap they are false (`instance_untracked`). `Orderly` is their
  inductive form: calls on an instance come one at a time and find it created
  (`Serial`); and for each instance (`InstanceOK`) the map names its live VM
  (`MapFollows`) as does the file (`MapRecorded`), every live process is in the map, in
  the hands of the call that runs, or cut off (`LiveKnown`), what a Start has set up
  stays until it is over (`StartIntact`) and what a recorded VM needs until it is cleaned
  up (`RecordedIntact`), a clean-up has undone the commands it has passed
  (`CleanUpProceeds`), and what is deleted stays so (`DeletedStays`). `OtherInstances`
  shows that a call leaves other instances alone, so that each step is a matter of one.

Assumptions: `OverlapAssumption`, `MaxCrashesAssumption`, `NilAssumption`, and
`~ Overlap` where it is named: a page disables its buttons while a call is open
(`InstanceDetailClient.tsx`), the manager itself does not serialise them.

### The servers

For any sets of instances, clients, tabs and keys, any number of slots and of saves, and
whatever `Apart` is:

* `TypeCorrect`: `Spec => []TypeOK`. `TypeInv` adds that the place of a handler fits its
  operation and that it has an instance (`RequestsMatch`), that the list handler knows
  only rows there are (`ListKnowsRows`), that the list page has no query of a row, and
  that a tab without a server asks for a create or has deleted one (`ActsOnItsServer`).
* `ReadsFollowWrites`: `Spec => []ReadYourWrites`. `ReadInv` (`NothingOld`) says
  that unless an answer "ok" is yet to be taken note of, neither what a page shows nor
  the answer that is about to replace it is older than its last action; `Refetch`, which
  gives an older answer up, is what keeps it.
* `NothingIsUnlisted` and `SlotsAreUnique`: `Spec => []NothingUnlisted` and
  `Spec => []SlotsUnique`, **assuming `Patient`**. Neither is inductive. `AloneInv` adds
  which handlers have written their row (`RowsWhenNeeded`), that a create is alone
  (`CreatesAlone`) and keeps its row (`CreateKeepsRow`), that a delete about to hide a
  row has removed the instance (`DeleteIsLast`), and that a slot chosen and not yet
  inserted is above all others (`SlotAhead`). `LessWorkKeeps` covers all steps that end
  requests or touch only states; `MoveKeepsAlone` those on which a handler goes on.
* `ShownKeyInjected` and `RetriesKeepTheKey`: `Spec => []InjectsWhatWasShown` and
  `Spec => []RetryKeepsKey`, from `KeysInv` of `SshKeysProofs`: the ids a list brings are
  saved (`KnownKeys`), a submission remembers its key (`KeyRemembered`), and every list
  that is on its way to an undisturbed form leaves the choice alone or moves it to the
  very key that was saved (`ChoiceKept`, `Harmless`); the newest of a finite list of ids
  is handled by `MaxExists`, from the well-foundedness of `<` on the naturals.

Assumptions: `MaxSlotAssumption`, `TabAssumption`, `NilIsNoInstance`, `KeyAssumption`,
`MaxSavesAssumption`, and `Patient` where it is named. TLC evaluates the named ones in
`servers_pages`.

### The functions

For any sets of functions, deploys and tabs:

* `TypeCorrect`: `Spec => []TypeOK`, with or without `Calm`. `DeploysOK` and `PagesOK`
  add that a handler, an upload and a removal are of a function, which a row exists for,
  and that a removal begins with the first file. `DeploySteps`, `BootSteps` and
  `PageSteps` say once what each action does to files and records; the rest of the
  module argues from them.
* `NothingLeft`: `Spec => []NothingOrphaned`, **assuming `Calm`**. `RegistryInv`: no two
  deploys of a function run (`OneDeploy`), one tab at most uploads it (`OneUpload`),
  while it is deployed or about to be it is registered and nobody removes it (`Apart`),
  and what a removal has passed is gone (`Erased`). The files of a function that is not
  being deployed only go (`NoNewFiles`), which is why a removal that failed half way, or
  a second one beside it, or a boot that drops a snapshot, does no harm.
* `UsableSound`: `Spec => UsableIsSound`, **assuming `Calm`**. `SnapshotsInv`: only images
  that have been installed are older than a snapshot (`OlderFirst`), so that the image on
  the disk, if it is older than a snapshot, is the one its VM ran (`RanThis`); and the
  two files of a snapshot agree unless a handler is between its renames or was cut off
  (`Paired`). The two exceptions are the finding of section 6.

Assumptions: `NilIsNothing`, `HalfIsNoDeploy` (a file copied in part is nobody's image),
and `Calm` where it is named, which is about users and scripts: the code has no lock.

### The controller

For any names, any numbers of requests and jobs, any range of ports, any `Keep`, and
whatever `Apart` is:

* `TypeCorrect`: `Spec => []TypeOK`.
* `ListeningWherePublished`, `PortsApart`: `Spec => []ListensWherePublished` and
  `Spec => []OneHostPortPerGamePort`. Both follow from `WellMapped` of every create that
  has chosen its ports and of every container (`GamesInv`). `TwoPorts` has the argument
  about `PortMapping`: two ports of a game take the first and the second free number,
  which `MinExists`, from the well-foundedness of `<`, shows to be there and to differ.
  It needs that the table `games` never changes, which is part of the invariant.
* `NewestStay`: `Spec => []NewestKept`, and `StoredWhole`: `Spec => []OnlyWholeStored`.
  An upload is `Outdated` when `Keep` newer ones of its directory are stored. The
  invariant (`BackupsInv`) says that every upload a job still holds for deletion, however
  old its list is, is outdated *now*. `DeleteKeeps` is why deletes of several jobs do not
  add up: if a delete takes some of those newer than `u`, take the newest that it takes;
  it is outdated itself, and those newer than it, `Keep` at least, remain. That the
  listing of a directory holds its own uploads and no others is `PrefixIsName`: a key
  ends with its only slash.

Assumptions: `MaxPortAssumption`, `NilIsNoName`, `NilIsNoGame`, `KeepAssumption`,
`MaxUploadsAssumption`, and `NamesAreStrings` (a name is one directory, without a slash).

### Model-checked only

Liveness, which TLAPS cannot prove: `HandlersEnd`, `PoppedWaiterResumes`,
`BootFailureReleasesWaiters`, `BusyVMServesQueue`, `ClientCanLeave`, `SweeperGivesBack`,
`PageCatchesUp`, `ButtonsComeBack`, `Reconciled`, `RetryWorks`, `OldOnesGo`. Every other
property of a run is a theorem.

## 9. Not modelled

* *Bootstrap*: it runs inside the VM; to the pool a guest answers, fails or hangs. Its
  accept loop that spins when the app has died is a guest that fails.
* *Metrics*, *brain*, *database*: one insert per event and a loop that waits for the
  database; a stub; schema and generated types. The ids, the soft delete and the unique
  active names of the tables are part of the registries' inserts.
* *rcon*: a program of its own that connects, polls and logs.
* *Scripts and game images*: shell steps run by hand, one after the other.
* *Pages*: the invoke button, the tables of usage and of invocations, the payload editor,
  the side bar and toasts keep no state that another part reads.

Within the pool: metrics, logging and the content of requests; `Stats`, which reads
without changing anything; HTTP validation before `Invoke`. Within the instance-manager:
the sampler, the bridge set-up at start, `ListImages`, and the contents of disks. Within
the artifacts: the vsock path that snapshots share (`snapshot.go` 41), `cleanupStaleVMs`
(a snapshot VM it kills is a failed snapshot), and changes of the base image. Within the
registry: usage samples, validation of names and keys.
