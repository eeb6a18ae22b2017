# A verification project for chord

chord (`src/`) is a peer-to-peer file system on a chord ring, written in C++ on
top of gRPC. This directory holds TLA+ models of its core, the configurations
that check them with TLC and the theorems TLAPS proves about them.

## 1. The system

| Component | State | Operations | Interacts with |
|---|---|---|---|
| `chord::uuid` (`chord.uuid.h`) | a 256-bit number | `between`, wrapping arithmetic | everything |
| `Router` (`chord.router.cc`) | a finger table of 256 entries, an optional predecessor, one recursive mutex | `update`, `remove`, `reset`, `closest_preceding_nodes`, readers; events on failure and change | called by Client, Service, ChordFacade; its events reach the file system |
| `Client` (`chord.client.cc`) | none of its own | `join`, `leave`, `stabilize`, `notify`, `ping`, `successor`, `check` | calls the Service of other peers, updates the Router |
| `Service` (`chord.service.cc`) | none of its own | handlers `join`, `leave`, `stabilize`, `notify`, `ping`, `successor`; `fix_fingers` | Router; forwards through Client; announces new predecessors |
| `ChordFacade` (`chord.facade.cc`) | `next`, the finger to fix | `start`, `stop`, `join`, `leave`, periodic tasks | Client, Service, Scheduler |
| `Scheduler` (`chord.scheduler.h`) | priority queue, flags `stop` and `task`, two condition variables, two threads | `schedule` (point in time, interval), `shutdown`, `loop` | runs the tasks of ChordFacade |
| `LRUCache`, `ChannelPool` | list and map of channels by uuid | `put`, `get`, `compute_if_absent`, `erase`, `clear` | Client, fs::Client |
| `fs::Service`, `fs::Client`, `fs::Facade` | files on disk | `put`, `get`, `del`, `mov`, `dir`, `meta`; rebalancing when neighbours change | events of Router, Service, ChordFacade |
| `MetadataManager` | a key-value store of metadata | `add`, `del`, `get`, queries by replication | fs::Service, fs::Client |
| `fs::monitor` | event filters | watches the data directory, `add_filter`, `remove_filter` | fs::Facade; its locks are taken by fs::Service |
| `fuse::Adapter` | the journal, descriptors of open files | `create`, `mknod`, `open`, `write`, `truncate`, `flush`, `release`, `rename`, `unlink` | fs::Facade |
| controller, Peer | none of their own | commands, start and stop | fs::Facade, ChordFacade |
| context, uri, path, file, logging, upnp, crypto | configuration | parsing, input and output | |

What is hard here: remote handlers, forwarded calls and three periodic tasks of
every peer interleave, each reading the router again between its remote calls;
peers leave, crash and answer late while joins and lookups are forwarded
through them; a thread pool with two condition variables notifies one thread at
a time; the finger table is repaired in place while it is scanned; a command on
a file is a chain of calls through several peers, each of which reads, merges
and writes metadata without a lock, while the ring changes and files move; a peer
watches the very directory it writes; a mounted file lives in a journal that
nobody invalidates.
`PROJECT.json` lists each such hazard at its line, with the properties that
watch it.

What makes each component correct:
- Router: every entry holds the best node known for its interval, no removed
  node stays behind, entry 0 is the closest of all, handlers that read the
  predecessor find one.
- Ring protocol: joins succeed and never split the ring; a lookup names the
  right peer and ends; a good successor is not given up; no handler dereferences
  an empty optional; departures leave a ring behind.
- Scheduler: nothing scheduled is stranded, nothing runs twice at once,
  shutdown ends.
- File system: what was acknowledged can be fetched and survives the changes of
  the ring; a file is on as many peers as its replication says; directories list
  what is in them; what was deleted is gone; every chain of calls ends.
- Cache of channels: list and map agree, the least recently used one goes.
- Mounted file system: what was written is in the ring once the file is closed.
- Monitor: the peer's own writes are shielded as long as its threads do not meet
  in the lists of filters, echoes die out, and what is logged as put is in the ring.

## 2. Modules

| Module | Models | Proved about |
|---|---|---|
| `ChordUuid` | `uuid::between`, finger starts, on a ring of `2^BITS` identifiers | yes |
| `RouterOps` | the router as a value and each method as an operator | yes |
| `Router` | one router under every sequence of calls | yes |
| `RouterOpsProofs`, `RouterProofs`, `OverlayProofs`, `OverlayJoinProofs`, `SchedulerProofs`, `ChannelPoolProofs`, `FuseProofs`, `MonitorProofs` | the lemmas and theorems of section 5 | |
| `Overlay` | ChordFacade, Client and Service of several peers, on `RouterOps` | yes, in part |
| `Scheduler` | the thread pool | yes |
| `Metadata` | `Metadata`, `Replication` and the rules of `MetadataManager`, as operators on values | model-checked |
| `FileService` | `fs::Service` and `fs::Client` of several peers, on `Metadata` | model-checked |
| `FileFacade` | the commands of the controller, `fs::Facade` and its callbacks, joins, leaves and crashes, on `FileService` | model-checked |
| `Store` | what users are promised: one value per file | abstract |
| `Cache` | what `LRUCache` promises | abstract |
| `LRUCache` | the list with its iterators in the map | yes |
| `ChannelPool` | `ChannelPool` on `LRUCache` | yes |
| `FuseAdapter` | `fuse::Adapter`, its journal and its use of `fs::Facade` | yes |
| `Monitor` | `fs::monitor` and `Facade::on_fs_event` | yes |
| `MCRouter`, `MCOverlay`, `MCFiles`, `MCFuse` | the nodes, uris and commands of the runs, symmetry | |

A definition marked *Mutant* is what a plausible slip would make of the
definition below it. Nothing refers to it; substituted for that definition it
must break the property named in `PROJECT.json`.

### ChordUuid and RouterOps
A router is `[successors, predecessor]`. `successors` maps an index to a node or
`NoNode`; the start of each interval is a function of the node's uuid and is
computed, including the code's reduction modulo the *largest* value of the type
(`FingerStart`). A node is a uuid **and** an endpoint, as in `chord.node.h`: the
same peer known under two endpoints is two nodes, which is what makes a peer
fail to recognise itself. `update` mirrors the loop that offers a node to every
entry; `remove` states the backward scan declaratively: the nearest higher
surviving entry replaces a removed one, and the highest surviving entry replaces
a removed predecessor. `closest_preceding_nodes` is the set of the entries that
its backward scan takes, put in order. A set of nodes is offered in the order of
their uuids, of which `std::set` holds one each.

### Router
Actions `Update`, `Remove`, `Reset` are the mutating methods. `known` and
`failed` are history: what was inserted and not removed since the last reset,
and whether anything was removed.

### Overlay
Each peer has a `status`, a `router`, and one process per thread of control:
`main` (start, join, leave), `stab`, `check` and `fix` (the periodic tasks).
`proc[u][k]` is a record with the program counter and the local variables that
survive a remote call. A call is sent in one step, handled in a second and, if
the reply carries data, applied in a third.

| Code | Actions |
|---|---|
| `ChordFacade::start`, `join`, `join_failed` | `Start`, `JoinReply`, `NotifyPredecessor`, `NotifyNext`, `NotifySuccessor`, `JoinFailed`, `JoinUndefined` |
| `Service::join`, `Client::join` (forwarding) | `JoinForward`, `JoinAnswer`, `JoinFails` |
| `Service::notify` | `HandleNotify`, inside the actions that call it |
| `ChordFacade::stabilize`, `Client::stabilize`, `notify`, `Service::stabilize` | `StabilizeBegin`, `StabilizeHandled`, `StabilizeFails`, `StabilizeReply`, `StabilizeNotify` |
| `Client::check` | `CheckBegin`, `CheckPing` |
| `fix_fingers`, `Service::successor`, `Client::successor` | `FixBegin`, `SuccessorArrives`, `SuccessorProbes`, `SuccessorAnswers`, `SuccessorForwards`, `SuccessorFails`, `FixReply` |
| `ChordFacade::stop`, `leave`, `Client::leave`, `Service::leave` | `StopBegin`, `LeaveSuccessor`, `LeaveNext`, `LeavePredecessor`, `Exit` (`HandleLeave` inside) |
| environment | `Crash`, missed deadlines in `Fails` |

A forwarded request carries the stack of handlers it came through and the nodes
each has not tried yet; when a node on the way is gone, the innermost handler
left tries its next one. Endpoints are `adv` (advertised), `peer` (rebuilt by
`make_node` from the connection) and `none` (an empty message). `AsSeen` keeps
apart the two endpoints a peer may be known under, but a call is routed by uuid and
reaches the peer under either: that holds on one host, where `make_node`
(`chord.common.cc:29-39`) puts the caller's host in place of the one advertised. When
a node is learnt from a third party on another host (`chord.service.cc:193`, `231`), the
address made up may be nobody's; the model does not show this.

`announced` records the predecessor last announced to the file system. `mishaps`
is history: the places where an empty optional was dereferenced (what such a
read yields is a choice over all outcomes, a crash included), and three events that
lead astray what follows without being a failure. `Service::fix_fingers`: a peer
that is up was removed by a stale answer. `ChordFacade::start`: a peer started
before the one it joins was in the ring. `ChordFacade::stabilize`: the creator of the
ring, alone when `stabilize` ran and configured to join a peer, was answered.

### Scheduler
Time is relative: entries and timed waits carry the delay that is left and
`Tick` counts it down. Everything a thread does under the mutex up to the next
wait or unlock is one action. Wake-ups may be spurious. `wait_until` is given a
reference to the time at the head of the queue, and the model keeps that: a
thread that is woken goes back to waiting for the *present* head.

### Metadata, FileService and FileFacade
A `std::set<Metadata>` is ordered and unique by name, so it is a function from
names to entries; a database is a function from uris to such sets. The rules of
`MetadataManager::add` and `del` (merging, the directory's own entry, index and
count of a replication) are operators on these values.

One command is a chain of nested calls. `work[t]` is what is left of the chain
of thread `t`: handling its head puts the calls the handler makes in front of
the rest, `reply[t]` is what the last call returned, and a handler that ignores
it ends in a step of its own that returns its status. The read and the `Put` of
a metadata update are two steps, as in the code; the lookup of a call and its
handling are two steps as well, so that the ring may change between them.

| Code | Actions |
|---|---|
| `Service::put`, `del`, `mov`, `get`, `meta` and their replication | the steps of `Progress` named after them |
| `Facade::put`, `get`, `del`, `mov`, `dir`, `mkdir` as the controller calls them | `Command` |
| `on_predecessor_update`, `on_predecessor_fail`, `on_leave`, `rebalance`, `initialize` | `Join`, `Leave`, `Exit`, `Crash` and the chains they start on the thread `ring` |

`acked` is history: what users were told. A file over which commands or a change
of the ring fought is `Tainted`, and nothing is claimed of it. `Store` is the
abstract specification: while no peer comes or goes, a command that has a file
to itself takes effect at one moment, a file never changes otherwise, and `mov`
never has the file under neither name. The refinement mapping takes the value of
a file from the peer that lookups find.

The file system uses lookups of an ideal ring. `CalmIdeal` of `Overlay` is what
justifies this between changes; the two models are not composed, because the
product is out of TLC's reach.

### LRUCache and ChannelPool
The list is a sequence of slots, the map gives a key its slot (the iterator),
the slots hold key and value. `Cache` knows only recency order and values;
`ImplementsCache` shows that splicing, erasing and evicting keep the two
structures in step. A channel is keyed by uuid alone and remembers the endpoint
it was made for.

### FuseAdapter
The mount runs single-threaded (`chord_fuse -s`, as the README of the program
says), so one call is one step. The journal is a directory of names, the files
in it are inodes, so that a removed or renamed file stays what an open
descriptor writes to. `store` is the ring as `fs::Facade` shows it.

### Monitor
Each thread, the one that polls and those that serve peers, has a program counter
and a job (a file and its content). `_mutex` guards `_events` only, so
`add_filter`, `remove_filter` and `process` change and read `_filters` and
`_filters_cow` (`chord.fs.monitor.cc:49-61,107`) without excluding each other.
Therefore an access to a list has a beginning (`begin`) and an end (`add_filter`,
`remove_filter`, `process`, `copy`), and accesses that overlap are undefined
behaviour: the later one may proceed from the list as it was at its beginning, so
that one of the two changes is lost, or the process dies. `torn` records that this
has happened.

| Code | Actions |
|---|---|
| `monitor::add_filter`, `remove_filter`, the locks of `Service::put`, `fs::util::remove`, `Facade::put_file_journal` | `begin`, `add_filter` (once per list), `remove_filter` |
| `Service::put` here | `create`, `truncate`, `write`, `record` |
| `Service::del`, `handle_del_file` | `del`, `unlink` |
| `monitor::process`, a scan of libfswatch (external) | `scan`, `process`, `copy` |
| `Facade::on_fs_event`, `put_file_journal`, `Client::put` | `put_file_journal`, `shift`, `read`, `send`, `settle` |
| users and other peers | `Edit`, `Call` |

The steps of a put are apart because the poll thread may move the file to the
journal between them: an open file stays the one that was opened, wherever it is
by now, and so does the data written to it. Other peers call `put` and `del` for any
file, one this peer is responsible for or a replica. Filters are a sequence with the
move semantics of `filter::operator=`, which keeps the old flag, and
`remove_filter` erases the first filter of the path. The batch of files is sorted by
uri; the model states the order of that sequence. `skipped` says that the put of
the poll thread sent no data, `raced` that others wrote the file meanwhile.

## 3. Runs

| Run | Instance | States | Shows |
|---|---|---|---|
| `router` | 16 identifiers, the node at the end of the ring, peers near, far and just behind, one of them under two endpoints, and the node itself under its own and another | 1,576 | the router invariants of section 5, `PrecedingNodesOrdered` |
| `scheduler` | 2 threads (as in the program), 3 functions, delays up to 2 | 331,085 | `OneTimer`, `NoStrandedTask`, `NoOverlap`; `ScheduledTaskRuns`, `ShutdownCompletes` under fairness |
| `scheduler_periodic` | 2 functions | | **violated**: a periodic function runs twice only |
| `overlay_calm` | the ring of `config/node0.yml` to `node3.yml` on 16 identifiers (0, 4, 8, 12; node3 joins node1, node0 is configured to join node1), all may leave, one change at a time | 4,056 | `CalmIdeal`: a perfect ring without any stabilisation |
| `overlay_joins` | 3 peers of that ring (0, 4, 12), two join at once, one of them through the other, one may crash, stabilisation | 36,442 | `NoUndefined`, `OneRing`, `JoinSucceeds`, `SuccessorKept` |
| `overlay_lookup` | 3 peers, two may crash, two lookups each | 39,913 | `LookupCorrect`, `LookupsEnd` |
| `overlay_churn` | 2 peers, one may leave, one may crash, one call misses its deadline, `stab` and `check` | 23,037 | `TypeOK`, `ProcessesEnd` |
| `files` | 3 peers, a directory and two files, two users with 2 and 1 commands at the same time, replication 1 or 2 | 141,055 | `Durable`, `Listed`, `ImplementsStore` |
| `files_rebalance` | 2 peers and one that joins, two of the three may leave, all may crash, two changes, 3 commands | 226,380 | `GetCorrect`, `Durable`, `ReplicaChain`, `Gone`, `Settles` |
| `channel_pool` | 3 peers under 2 endpoints, room for 2 channels | 47,089 | `Consistent`, `ImplementsCache` |
| `fuse` | 2 names, 2 handles, a write by another peer, a failing call, a crash | 1,713,943 | `WritesStored`, `Coherent`, `Attached` |
| `monitor` | 2 files, one of which is a replica, the poll thread and a server thread, two changes by the user or other peers, a failing call | 1,515,125 | `Shielded`, `EchoEnds`, `SuccessfullyPut` |

The violated property states what the repository says; `PROJECT.json` quotes it
under `findings`.

Bounds and why they suffice.
- `Overlay`: `BITS = 4` gives intervals that wrap and that hold several peers;
  three peers are the least in which a request is forwarded and two joins fall
  into the same interval; four are needed to have peers that are not neighbours
  of a change. `Runs` is 2 in `overlay_lookup` because of the scheduler finding: no
  task runs more often in the program; `overlay_joins` and `overlay_churn` use 1 to
  stay small (the theorems hold for any number). `MaxChanges` bounds
  how many peers join or leave at once, `MaxTimeouts` the missed deadlines and
  `MaxDepth` nested forwarding: a join that gets there is forwarded in circles,
  and the bound stands for the deadline that ends it; a lookup, which has no
  deadline, is stuck there and would violate `LookupsEnd`. Uuids lie where the
  shipped configuration has them, each at the start of another one's finger.
  `overlay_lookup` alone keeps away from that: a lookup for the uuid of the own
  successor is forwarded by the node to itself and, having no deadline, does not
  end (a listed hazard). `LookupCorrect` of such lookups follows from the theorem.
- `FileFacade`: three peers are the least in which a file, its directory and its
  replica are apart from each other; two changes are a join followed by a leave
  or a crash, or a crash followed by another. Two users are enough for every
  pair of commands to overlap. Commands given while the ring changes are limited
  to `get` and `del`; all others run between changes.
- `ChannelPool`: one more key than room, one more slot than keys.
- `FuseAdapter`: one of each disturbance at every moment; two handles are the
  least that can meet at one path.
- `Monitor`: the poll thread and one server thread are the least that can meet in a
  list of filters; of two changes the second may come while the echo of the first is
  handled. The theorems hold for any number of threads, files and changes.

Fairness. In `Overlay`, weak fairness of each thread of a peer, the main one with
its join and each periodic task (`GoesOn`): gRPC completes or fails a call, and
threads run. Nobody has to leave or crash, and deadlines do
not have to be missed. In `Scheduler`, weak fairness of time and of each thread,
which covers the functions returning; nobody has to call `schedule` or
`shutdown`. In `FileFacade`, weak fairness of the calls under way taken
together, which is the least gRPC gives: a chain that is blocked stays blocked.
In `Monitor`, weak fairness of the poll thread and of each server thread; the
user and other peers owe nothing.

Deadlock is checked in every run of `Overlay`, `Scheduler`, `Router`,
`ChannelPool` and `FuseAdapter`: `Rest` and `Terminated` are the states in which
the first two have really come to their end. The commands of `FileFacade` and the
edits of `Monitor` are bounded, so these may stop; `Settles` and `EchoEnds` say
that they stop only when nothing is under way.

## 4. What the runs say about the code

Each property is as strong as the code allows; a restriction in it stands for
something the code does, found as a counterexample of the stronger property.
These are the observations behind the restrictions.

Scheduler:
- `schedule_intern(interval)` wraps the function in a closure that schedules the
  bare function for one more point in time. `stabilize`, `check_predecessor` and
  the finger fix run twice per process.

Ring:
- `NoUndefined`, `OneRing` and `JoinSucceeds` hold while peers only join. After a
  crash or a leave `ChordFacade::join` dereferences neighbours that are gone
  (`chord.facade.cc:129`); a peer left alone by the other one takes itself for
  its predecessor, has no successor, and `Service::notify` dereferences it on the
  next join (`chord.service.cc:224`).
- A peer whose uuid *directly* follows another one's becomes that one's
  predecessor but never its successor, as the interval of the first finger is open;
  `Service::notify` then dereferences an empty successor when a third peer joins
  (uuids 1, 2, 11). `Spread` excludes this, and nothing else: a peer may sit at the
  start of another one's finger, as those of the shipped configuration do (0, 2^254,
  3·2^254), and as do the uuids of the integration tests (0, 8, 512). With them, an old
  answer of `fix_fingers` may remove a peer that is up while another one joins
  again (uuids 1, 11, 13); the properties about joins claim nothing after such a removal.
- `OneRing` and what builds on it hold when every peer joins through one that is in
  the ring already, whichever it is. TLC refutes it when a peer joins through one that
  is itself still joining (uuids 1, 6, 11; 11 joins through 6 while 6 joins through
  1): 6 answers as a peer that is alone, and 6 and 11 form a ring of their own. It
  also refutes it when the creator is configured to join a peer, as `node0.yml` is
  (`join-addr` of node1): `stabilize` then joins that peer when it is up but not in the
  ring. `InOrder` claims nothing of histories in which one of the two has happened;
  `OneCreator` says that there is one bootstrap peer.
- `CalmIdeal`: a leaving peer informs its neighbours only, so after a second
  leave a neighbour may fall back to a peer that left before.
- `SuccessorKept`: `fix_fingers` removes the uuid it looked up when the answer is
  the peer itself, which is the successor when a stale answer says so.
- `LookupCorrect`: overlapping joins mislead lookups, and joins through a peer
  that is not in the ring. So does a peer that is gone: a join whose notify fails on it
  resets the router of the joining peer, its neighbours already forward to it, and
  it answers every lookup with itself.
- A leaving peer is not frozen (`chord.facade.cc:101` announces it, the line is
  commented out) and may be learnt again by a reply in flight. The predecessor is
  announced from a snapshot (`chord.service.cc:207`).

Files (nothing is claimed of a file whose write failed or overlapped another, or
a change of the ring):
- A put with an equal hash onto a reference, or onto an emptied file, sends no
  data: the copy stays empty.
- A `get` that fails leaves an empty file behind; a `get` of a reference that
  races the rebalancing of a join loses the only copy.
- A put that is under way during a join is stranded at the former owner.
- A directory made in a ring of one peer is deleted by `initialize` when that
  peer joins another ring (`chord.fs.facade.cc:340`).
- A file put into a directory while that directory is made loses its entry
  (`chord.fs.metadata.manager.h:139-174`).
- A non-recursive `del` of a directory succeeds although it is not empty, when
  its files are on other peers (`chord.fs.service.cc:434`); the root can be
  removed (`chord.fs.metadata.manager.h:84`).
- `mov` drops the replication and ignores `force`; the status of the next peer
  in a chain of replicas is dropped (`chord.fs.service.cc:345`).
- A file that is only referred to is lost when the peer that has it leaves. When
  the peer of the last replica crashes, nobody adds another one.
- `Router::remove` emits `event_predecessor_fail` with its lock held, and the
  callback rebalances over the network; two peers can wait for one another for
  good. This is the exception in `Settles`.

Mounted file system:
- `release` tests the status of `flush` the wrong way round
  (`chord.fuse.adapter.cc:203`): the journal file is kept on success and deleted
  on failure, when it is the only copy. Kept files are opened again although
  another peer has written the file since (`chord.fuse.adapter.cc:184`).
- A failed fetch leaves an empty journal file that the next `open` reuses.
- Writes to a file renamed while open are lost, and `file_size` then throws.

Monitor:
- Two threads that meet in `_filters` or `_filters_cow` race: a filter may be lost or
  left over for good, or the process dies. `Shielded` therefore claims nothing once
  this has happened; TLC finds it violated without the exemption. Without a race,
  counts agree although `filter::operator=` keeps the old flag and `remove_filter`
  erases the first filter of the path. A filter that is left over swallows the
  next save of the user, a filter that is lost makes the peer put its own write
  again; `EchoEnds` shows that this comes to an end in either case.
- A removal is handled with the uri of the absolute path, so deletions are not
  propagated (`chord.fs.facade.cc:94-98`).
- `file::rename` throws in the poll thread if the file has vanished, which ends
  the process.
- When the hash of a file equals that in the metadata, `Service::put` sends no
  data, but the file has been moved to the journal, an empty one is created in its
  place and the journal is removed: the content is gone, although the log says
  "successfully put" (`chord.fs.facade.cc:317-319`). This befalls the echo of a put
  that takes longer than one scan and a file that the user saves *unchanged*, where
  `test/integration/chord.int.put.cc:332-403` expects the files to be equal. `SuccessfullyPut`
  names both (`skipped`), and claims the blank file of them.

## 5. Proofs

What is proved holds for every value of the constants: any number of identifiers
(`BITS >= 2`), peers, threads, functions, files, handles and channels, and any
bound on failures. Eight modules hold proofs.

| Module | Theorems |
|---|---|
| `RouterOpsProofs` | lemmas about the router as a value, for any node |
| `RouterProofs` | every property of the run `router`: `[]TypeOK`, `[]FingersInInterval`, `[]FingersOrdered`, `[]FingersTight`, `[]NoGhost`, `[]ExactWithoutFailures`, `[]PredecessorKnown`, `[]PrecedingNodesOrdered`, and the action property `FingersMonotone` |
| `OverlayProofs` | `[]TypeOK` and the action property `SuccessorKept` |
| `OverlayJoinProofs` | when no uuid directly follows another one: `[]NoUndefined`, and with one creator `[]OneRing`; when joins do not overlap, `[](InOrder => CalmIdeal)`, `[]LookupCorrect` |
| `SchedulerProofs` | `[]TypeOK`, `[]NoStrandedTask`, `[]OneTimer`, `[]NoOverlap` |
| `ChannelPoolProofs` | `[]Consistent`, and that the pool implements `Cache` |
| `FuseProofs` | `[]WritesStored`, `[]Coherent`, `[]Attached` |
| `MonitorProofs` | `[]Shielded` and the action property `SuccessfullyPut` |

Each proof has one lemma per action, which a lemma about the whole step
combines. The inductive invariants were checked with TLC before they were proved.

**Assumptions**, all evaluated by TLC on the instances: `BitsAssumption` (at least
two bits; powers of two are positive and double from one index to the next, since
the provers do not know exponentiation); the values that stand for "nothing" are
none of the values they are told apart from (`NoNode`, `None`, `NoEntry`);
finitely many threads, files and handles; more journal files than names and
handles together, so that there is always a fresh one; a cache has room for at
least one entry; peers, leavers and bootstrap peers are members.

**Router.** `IInv == TypeOK /\ FingersInInterval /\ FingersTight /\ NoGhost /\
ExactWithoutFailures`. `FingersOrdered` is not inductive: that `remove` may fill a
hole from the nearest higher entry needs tightness, which in turn needs every
entry to lie in its interval. From `IInv`, order follows because starts of higher
entries lie further out, and `PredecessorKnown` is carried along by an argument
of its own: an update that fills an entry also sets a predecessor when there is
none, and a removal replaces one from the highest survivor. The lemmas say what
`Between` means as a comparison of clockwise distances (one for each shape of the
interval), how finger starts are ordered despite the odd modulus, and what
`update` and `remove` do to a single entry. `PrecedingNodesOrdered` is about the
loop of `closest_preceding_nodes`, which compares a node only with the one pushed
last. That this suffices needs the order of the table, and that no uuid is in the
table under two endpoints (`OneEndpoint`), which is invariant as well. The loops
over the fingers and over a set of nodes are recursive functions over a bounded
range; induction over such a range is done in set form (`UpTo`: a set of naturals
that is not empty has a least element).

**Overlay.** `IInv == TypeOK /\ Routers /\ Procs`. `Routers` says that the table
of every peer lies in its intervals and is tight, as in `RouterProofs`; without it
nothing can be said of what a removal puts into entry 0. As handlers store what
messages carry, `Procs` says of every message in flight that the nodes in it are
nodes and the stack of a forwarded call is a sequence. For `SuccessorKept`, every
step that writes a router is traced to `update`, which never moves entry 0
further away, to a removal of a peer that is gone or was late, or to one of the
two exceptions that the property names.

For `NoUndefined`, `IInvJoins == IInv /\ (StillJoins => JoinInv)`: as long as nobody
has left, crashed or been late, every node in a router or in a message is a peer
that is up and, in a router, not the peer itself, and a peer has a successor exactly when
it has a predecessor (`Linked`). What a process carries (`Sound`) has to be known
for each stage: a join is never forwarded to the peer that joins, so that the
answer names two others; a peer that notifies its neighbours keeps a successor;
a lookup that has left its peer was forwarded to a successor of that peer. As no
router loses its successor (`Grown`), what one process knows survives the steps
of all others (`GrowSound`). The theorem is stated for uuids that are `Spread`: no
uuid directly follows another one, and no peer is configured to join itself. Without
the hypothesis the property is false (section 4). `MCOverlay` has TLC evaluate
`Spread` and `OneCreator` on all four instances; all but `overlay_lookup` are the shipped ring or part of it.

For `OneRing`, `IInvRing` adds `RootInv` to `IInvJoins`, as long as peers only join
and each does so through one of the ring (`Ordered`; `Led`: the peer that one is
configured to join has been in the ring since it was started). Call a peer *inside* when it is the creator or has a successor. Routers and
messages name inside peers only (`Rooted`, `Aimed`), so a peer that has not joined
yet is nobody's successor. And no neighbour lies beyond the creator (`Faces`): seen
from a peer, its successor is at or before the creator, and the creator is at or
before its predecessor. `update` keeps both, as it replaces a neighbour only by a
nearer one; the one step at which a predecessor is wrong for a moment, the join
reply whose first node becomes successor and predecessor, is mended by the second
node of the same reply. So the clockwise distance to the
creator shrinks along successors (`SuccNearer`). `Reachable` is a recursive function:
the set reached after n steps either holds the creator or grows (`Walk`), and it
cannot grow beyond the number of peers (`ReachesRoot`). The hypothesis `OneCreator` is
how the program is started: one peer is given `bootstrap`. Which peer the others
join, and whether the creator is configured to join one itself, is left open.

For `CalmIdeal` and `LookupCorrect`, `IInvCalm` adds `CalmInv`, as long as peers only
join and do so one after the other (`OneByOne`). Its core is `Near`: no peer that has
joined lies between a peer inside and its successor or its predecessor. Tasks keep
it, since what `update` writes is never farther away (`Tightens`). What is hard is the
join under way, of which `Placed` and `Told` say how far it is. Each forward brings
it to a peer nearer to the one that joins (`ForwardsNearer`), so the number of peers
farther away (`Beyond`) bounds its depth: it is never given up. The peer that answers
names the two joined peers between which the new one belongs, by `Near` of its own
neighbours. The new predecessor is told first: with it nobody skips the new peer any
more (`Told`), as all others have a successor at or before that predecessor. The new
successor is told last, and by the same argument backwards the new peer counts as
joined in `Near` from then on. `Near` and the uniqueness of positions give the ideal
ring (`NearIsIdeal`). For lookups, `Attends` carries the peers that had joined when
the lookup began: at the peer that answers, none of them lies between its id and its
successor. The other hypothesis of `OneByOne`, that the bound `MaxDepth` is at least
the number of peers, keeps the bound of the model out of the way; `overlay_calm` and
`overlay_lookup` satisfy it. A creator that `stabilize` makes join a peer disturbs
nobody as long as it is not answered (`CreatorJoins`). When peers leave or crash,
both properties are model-checked only.

**Scheduler.** `IInv == TypeOK /\ RunsEntry /\ Timers /\ InOnePlace /\
NoStrandedTask`. A thread may go to sleep on `queue_cv` while functions are queued
only because the flag `task` is never up without a thread that waits for the head
of the queue (`Timers`). `InOnePlace` says that a function is queued once or run by
one thread, from which `NoOverlap` follows.

**ChannelPool.** `IInv == Agree(list, map, entry) /\ Len(list) <= Capacity`. Every
operation is composed of two: a key is erased, a node is put in front. For each a
lemma, about any list, map and nodes that agree, says what it does to the values
and to the order of use; the refinement of `Cache` maps these to the abstract
values and recency order, one lemma per operation.

**FuseAdapter.** `IInv == TypeOK /\ OneName /\ MovedSpoiled /\ OpenLatest /\
ClosedLatest`. Neither of the last two is inductive alone: opening a file needs
what is known of closed ones, and the other way round; that a journal file has
one name (`OneName`) keeps a write to one file away from the others.

**Monitor.** `IInv == TypeOK /\ Placed /\ Counted /\ Stage`. `Placed` says that every
thread is at a point of its own handlers and has a file there. `Counted` is
`Shielded` with the locks of a file as a finite set, as long as no two threads have
met in a list: `remove_filter` may erase the filter of another lock, so only the
*number* of filters of a path is invariant. That accesses do not overlap is not
assumed of the threads; the invariant is claimed of the histories in which they did
not (`~torn`), for any number of threads. `Stage` says how far the put of the poll thread
is and where the contents are meanwhile, whether filters are lost or not: `SuccessfullyPut`
does not depend on them.

**Only model-checked.**
- `CalmIdeal`, `LookupCorrect` of `Overlay` once a peer has left or crashed or a
  call was late: neighbours may then name peers that are gone, so `Near` is lost,
  and the invariant would have to describe every half-finished departure.
- `Durable`, `Listed`, `GetCorrect`, `ReplicaChain`, `Gone` and the refinement of
  `Store` in `FileFacade`: they hold when nothing is under way, while a command is a
  chain of nested calls over several peers. An inductive invariant has to say, for
  every rest of every such chain, what it will still repair.
- Everything that must eventually happen (`JoinSucceeds`, `LookupsEnd`,
  `ProcessesEnd`, `ScheduledTaskRuns`, `ShutdownCompletes`, `Settles`, `EchoEnds`):
  liveness under fairness is out of the prover's reach.

## 6. Abstractions

- A handler, and each `Router` call, is atomic. `Router::update` takes no lock in
  the code; the races this allows are a listed hazard, not yet modelled.
- While leaving, `ChordFacade::leave` sets the context's uuid to that of the
  predecessor so that files move there; this phase, and the events `on_join` and
  `on_leave`, are in `FileFacade`.
- One `ClientContext` is used for several forwarded join calls; the model retries
  as the code intends.
- `wait_until`'s reference may dangle when the queue's vector grows, and the
  system clock may jump; neither is modelled.
- A bootstrap peer is up initially. An empty message reads as uuid 0, which is a
  peer's in the shipped ring, so that what is then sent to nowhere reaches that peer.
  Such a message is only made up after `Service::join` has read an empty optional;
  of these histories only `TypeOK`, `SuccessorKept` and `ProcessesEnd` are claimed.
- Peers are on one host: `make_node` (section 2, Overlay) never makes an address
  at which nobody is.
- A process ends once its running tasks have, as `~Scheduler` joins its threads.
- `FileFacade`: streams are one step of data, though a file is emptied before it
  is filled; a recursive command is a sequence of files; permissions, owners,
  sizes and the wire format are left out. Paths are numbers with a parent.
- `Monitor`: events of directories are ignored, as the code does; libfswatch is
  modelled by what it reports. Two accesses that overlap lose one of the changes or
  end the process; other outcomes of the race (a filter read half-written) are not
  told apart. The replicas that `Service::put` adds on other peers are theirs. Empty
  contents are not put: `Service::put` resizes the file by path for them.
- `FuseAdapter`: a `truncate` by path, without an open file, reads a null `fi`
  (`chord.fuse.adapter.cc:213`) and ends the process, which is the action `Crash`;
  regular files only; what the kernel does with open files that
  are removed is marked external.

Not modelled: `ConcurrentQueue` (nothing uses it), the parsing of configuration,
command lines and uris (pure functions of strings), logging, upnp and crypto
(libraries and output).

## 7. Plan

1. Lemmas about `Metadata` (what the merge preserves) and, on top of them, the
   types of `FileFacade` and `Gone`.
2. The unlocked `Router::update` against `remove`, entry by entry.
3. `CalmIdeal` with departures, and an abstract ring that `Overlay` implements; an
   abstract timer service for `Scheduler`.
4. Directories in `FuseAdapter` and `Monitor`; shutdown of `Peer` with commands
   under way.
