# ForgePanel in TLA+

ForgePanel is a proxy panel: one service that keeps accounts in a SQLite
database, supervises proxy cores (xray, sing-box) on its own host and on remote
nodes, bills their traffic against quotas and terms, and carries a DNS tunnel
(ForgeDNS). These modules model the parts of it where several goroutines,
processes or machines act on the same facts: accounting, the supervision of
cores and of tunnel servers, the reload that connects the tables to the cores,
the tables that refer to each other, the fleet of nodes, the tunnel's sessions
and their connections to the outside, WireGuard clients, core versions, the
limit on an account's addresses, and webhooks. TLC checks them on small instances;
TLAPS proves the safety properties of the passing runs for every instance that the
hypotheses of section 5 admit.

    tlc -config PanelSafe.cfg MCPanelSafe  # one run; the table is below
    tlapm SupervisorProofs.tla             # one module of proofs

`PROJECT.json` says for every definition which lines of the source it stands
for. Paths below are relative to the repository.

## 1. Inventory

Goroutines of the panel and processes around it share the database (each
statement or transaction atomic) and the cores; almost nothing else.

| part | state it keeps | operations | what is hard |
|---|---|---|---|
| accounting job, sweep (`internal/job/scheduler.go`, `disconnect.go`) | none of its own between cycles: the listed users, the reading | `pollAndAccount`, `sweepAt` (activation, expiry, reset), `releaseDisconnects` | the sweep works from a list read once and saves whole rows; two panels on one database; counters that restart |
| user row (`internal/store`) | status, quota, usage, lifetime usage, term, hold, reset marker, disconnect hold | `ApplyTrafficDeltaAt`, `ResetUserUsageCAS`, `UpdateUserFields`, `SaveUser` | three ways to write, two of which re-read the row |
| metering (`internal/core/stats.go`) | the counters of the cores, the snapshot table | `QueryUserStats`, `mergeSingboxStats`, `TrafficDelta` | two counters, one baseline |
| core supervisor (`internal/core/supervisor`) | process handle, state, probe verdict, configuration file | `Apply`, `Start`, `Stop`, `supervise`, `probeLoop` | callers, a reaping goroutine, a probe per launch, a process that may ignore signals |
| hot user changes (`internal/core/hotuser.go`) | none | diff of two configurations, remove calls, add calls | no transaction: it may stop half way |
| reload (`internal/api/engines.go`, `internal/core/manager.go`) | none; the controller's mutex | read inbounds, read users, `ReloadSpecs` | the reads are outside the mutex |
| panel handlers (`internal/api`) | the request | user edits, disconnect, node heartbeat, node state | run at once with each other and the jobs |
| node agent (`cmd/forgenode`) | configuration installed, log cursors, epoch | heartbeat, collect, apply | lost answers, restarts of either side |
| node log hub (`internal/api/nodelogs.go`) | next position, epoch, lines of each node | `publish` | filing by position |
| tunnel sessions (`internal/forgedns/session`) | outbound queue, chunk in flight, reorder buffer, sequence numbers | `Ingest`, `QueueOutbound`, `ExpireInFlight`, eviction | a network of recursive resolvers that loses, repeats and reorders |
| tunnel egress (`internal/forgedns/egress`) | a table of connections by session | deliver, dial, pump, sweep, shutdown | a dial in progress when any of the others happens |
| tunnel servers (`internal/forgedns/upstream`) | a process per zone, its configuration and key files, the signature it was started with | `Sync`, supervise, stop, roll back | a replacement that does not come up, files written in part, old and new server on one port |
| tables (`internal/store` `cascade.go`, `assignments.go`, `usertemplate.go`, `inboundhost.go`, `migrations.go`) | users, groups, inbounds, hosts, assignments, the default flag, the migration ledger | create, edit, delete, reassign, apply a plan, migrate | references without foreign keys, one fact stored twice, whole rows saved from old copies, a crash during migration |
| routing (`internal/store/routing.go`, `internal/api/routing.go`, `routinggroups.go`) | outbounds, failover groups, rules | save, validate by rendering, roll back, delete | the roll-back may itself be refused |
| WireGuard clients (`internal/wgpeer`) | a row per client and inbound: address and keys | `EnsurePeer`, `ServerPeers` | reading, choosing and inserting are separate |
| core versions (`internal/api/cores.go`, `internal/core/binmgr`) | selected and former version in the settings, the manager's pins, a directory per version | pin, roll back, install | two settings written one by one, a map replaced whole, a path and a version read at different times |
| address limit (`internal/job/iplimit.go`, `internal/core/online/tracker.go`) | addresses of each user with their last connection, breaches in a row, the hold in the user row | observe, snapshot, forget, sweep | a capped map judged by a sweep over rows listed earlier, while other handlers save whole rows |
| webhook queue (`internal/webhook`) | bounded queue, raised conditions, retries | report, push, deliver, close | a worker that sleeps, a queue that is full, close during a delivery |
| authentication (`internal/auth`, `internal/api/twofa.go`) | session epoch, last TOTP step, recovery codes | conditional updates | use of one code by two requests |

The rest - generation of core configurations, links and subscriptions, the bot,
certificates, DNS providers, backups, host helpers, the frontend - is formatting,
external services, or a sequential job; `PROJECT.json` lists each with its reason.

How they interact: a handler or the sweep changes a row and starts a reload; the
reload reads the tables and hands the cores' configuration to the controller,
which applies it through the supervisor (hot apply or restart); the cores count
bytes; the accounting job and the node heartbeats read counters and write rows,
which may suspend an account, which starts a reload. A reload of a WireGuard
inbound makes its clients and lists them; a reload runs the core version that is
pinned. A DNS query of the tunnel goes from the session to its connection and
back; the alerts of all of these are webhook events.

What makes each part correct:

- *accounting*: nobody is billed for bytes they did not move, nor twice; a
  period is reset once; a quota, a term, a hold are all eventually acted on;
  background jobs never revive an expired account.
- *supervisor*: never two cores on the same ports; what is served is the file on
  disk; a core that dies, or wedges and has an API to ask, is replaced; no call hangs.
- *reload*: the cores end up serving what the tables say; a disconnected user who
  was cut stays out.
- *fleet*: no heartbeat, lost or repeated, is billed twice, for the sum of two
  cores as for one; lines are filed once and in order; a quota is enforced
  remotely.
- *tunnel*: both streams arrive exactly, whatever the resolvers do; no
  connection is open that nobody will close; one server per zone, and a bad edit
  does not take the zone down.
- *tables*: what is referred to exists; what is stored twice agrees; the routing
  table is one the core accepts.
- *WireGuard*: one address and one key pair per client, the ones the server has.
- *core versions*: what is selected runs, there is a version to go back to, and a
  directory holds the version it is named for.
- *address limit*: an account is held when two sweeps in a row found it over its
  limit, and not otherwise; every hold ends.
- *webhooks*: an event is delivered, given up or dropped, never slept on.

## 2. Plan

Written, in this order, most important first:

1. `UserRow`, `Accounting` - the ledger.
2. `CoreService` (what a core promises) and `Supervisor` (how it is kept), the
   second shown to implement the first.
3. `Fleet`, on the same `UserRow`.
4. `Reload`, between the ledger and the supervisor.
5. `ReliableStream` (what one direction of a session promises) and `DnsSession`
   (which implements two of them); `DnsEgress`, `ForgeUpstream` - the tunnel.
6. `Directory`, `Routing`, `WireGuardPeers`, `CorePins`, `AddressLimit` - the
   panel's own tables and settings.
7. `Webhooks`.
8. Proofs (section 5): `AccountingProofs`, `SupervisorProofs`, `FleetProofs`,
   `DnsSessionProofs`, `DnsEgressProofs`; `BackgroundProofs` for `ForgeUpstream` and
   `Webhooks`; `EngineProofs` for `Reload`, `CorePins` and `AddressLimit`;
   `TableProofs` for `Directory`, `Routing` and `WireGuardPeers`.

Left, in this order:

9. `Fleet` with overlapping heartbeat handlers.
10. `Shutdown`: `Server.Close`, `StopAll`, and a reload under way.
11. Authentication (TOTP step, recovery codes, session epoch); the staging of an
    update; sessions of v1 clients of the tunnel.

Abstract specifications: a core that serves the file on disk (`CoreService`,
implemented by `Supervisor`), and a stream that delivers in order and once
(`ReliableStream`, implemented twice by `DnsSession`, once in each direction). Both
refinements are checked by a run and proved. A connection per session is stated
as an invariant of `DnsEgress`, and proved.

## 3. Modules and code

**UserRow** - the row and each function that writes it, as an operator from the
row read to the row written: `ApplyTraffic` (billing and the limit it trips),
`ResetUsage` (the update inside the compare-and-set), `ActivateHold`, `Expire`.
`SaturatingAdd` and `WrappingAdd` keep the integer width: the code saturates one
counter and lets the other wrap. A calendar period is an interval of a discrete
clock; day, week, month and year differ only in its start.

**Accounting** - when rows are read and written. `poll` is the local state of
`pollAndAccount` (reading, baseline, users left), one transaction per user.
`sweep[i]` is the local state of the sweep of panel instance `i`: the list it
read, and the users left of each pass. `SweepActivate`, `SweepExpire` save the
row of that list; `SweepReset` re-reads it. `edit` is a handler that reads, and
saves later; `ColumnUpdate` is one that updates columns: status, limit, term and
strategy by PATCH or a plan, a disconnect, a reconnect. `PollUnread` is the failed
read of a user that the job takes for a counter of nobody: the baseline moves on.
`Crash` loses all local state. `moved`, `billed`, `resets`, `repeated` are history
variables; `missed` names the users whose bytes `PollUnread` wrote off, `raced`
those whose status an administrator set while a job held a copy of the row.

**Supervisor** - `caller` is the program counter of `Apply` and `Stop`, `sup`
one supervising goroutine per `restart()`, `core` one process per launch,
`probe` one goroutine per launch, and `state`, `probeKill`, `handle` the fields
under `p.mu`. Each action is one critical section, one system call or one
channel operation. A core may exit, wedge, or wedge and ignore SIGTERM. `kind` says
which core is supervised: one with an API the probe asks, or a stock sing-box, which
has none, so that its probing goroutine ends at once (`core/probe.go`). A hot
apply is a sequence of remove and add calls to whichever core answers.

**CoreService** - three variables: the file, what is served, and whether a change
is in progress. Outside a change, what is served is the file or nothing.

**Reload** - `standing`, `held`, `enabled` are the tables; `listening`, `clients`
the core; `job[r]` a reload between its two reads, its apply and, for a
disconnect, the closing of connections. Every change starts a reload, however many
are under way, and may come between the steps of any. The closing is best effort
(`handleDisconnectUser` leaves an address that others share, one the presence table
does not name, and everything when connkill is unsupported or fails) and is
answered the same, so `CloseConnections` may leave the connection; `spared` names
who was left. `restored` names held users whom a reload put back that had read them
before the hold; a job is `stale` once a change came after it began to read,
`settled` says that a reload that is not stale has had its turn, and `missed` that
the last to finish had failed or was overtaken. The core here is what `Supervisor`
shows it to be.

**Fleet** - the agent (what each of its two cores serves and has counted, log
cursors), the panel (rows, snapshots, log hub) and the heartbeat in flight with its
handler's steps, since other handlers may run between them. Each core has its own
turn in `ApplyConfigs`: only xray takes a change of users without a restart. A
heartbeat carries the sum of the cores' counters (`Reported`); a dead core, or one
that does not answer (`BeatUnread`), counts for nothing. `mixed` names the users of
both cores of whom the counter of one was lost or left out.

**ReliableStream** - one direction of a session: units are offered, arrive in any
order, are handed on up to the first that is missing, and are let go of only when
they have arrived. A stream may break; then units may be lost, but never repeated
or reordered. No message, number or window occurs in it.

**DnsSession** - one session after its handshake. `Ingest` is the whole of
`advance` under `Manager.mu`. The client is not in the repository: it does what
the server asks of it (see the module). The network keeps the last `Reach`
messages of each direction and delivers any of them, any number of times, in any
order, or never. A query with an acknowledgement commits the chunk it names; one
without, which is what a client sends before its first chunk, commits the chunk in
flight if its number is not that of the query before (`lastReq`). A poll may bear any
of `PollNumbers`. `ToClient` and `ToServer` map the session to two streams.
Downstream, the units are bytes; the server has let go of those that left its queue;
the stream is broken once a chunk was cut again after it expired (`recut`, run
dns_expiry) or was let go of without an acknowledgement (`presumed`).
Upstream, the units are frames; those in the reorder buffer have arrived, the
client has let go of those it saw answered, and the stream never breaks.

**DnsEgress** - `table` and `slot` are the bridge's map and its connections;
a handler goes through `Connect` (reserve), `Dialed` or `DialFails`, and `Write`;
a pump reads and queues; the sweeper looks at the live sessions, marks, and closes;
`Shutdown` closes and waits. Each is one critical section of `Bridge.mu` or one
blocking call. `dead` is the process after a nil write or a double close;
`early` names the sessions whose slot was closed during its dial.

**ForgeUpstream** - one zone. `syncer` is the program counter of `Sync`
(`reconcile`), which is under `Manager.mu` from `Apply` on; `server` and `child` are
the goroutine and the binary of a started process; `zone` the two files. A bad
configuration exits within the settle window; a good one may crash, a port may be
taken. A write may fail, leaving the file as it was or torn: of the configuration or
the key of an edit, and of the configuration a roll-back puts back, after which the
zone stays down. A stop gives up three seconds after SIGKILL (`StopReturns`); `stuck`
names the binaries that outlived it.

**Directory** - one action per store function, each a transaction. `copy` is a
whole row a handler read and saves later. `boot`, `schema`, `ledger` are the
migration at start, killed at any step, over any database of an earlier release.
`stray` names users given a group that no check covered (`CreateUser`,
`ApplyTemplateToUser`, a save of an old copy).

**Routing** - a row names the tags it sends to. A request goes through check,
write, render and, if refused, undo; none of it is a transaction, so other
requests may come between. `Validate` accepts a table that renders, refuses one
that does not or that the core dislikes for a reason of its own, and accepts unseen
when a read of the tables failed or no engine is there to render
(`AcceptedUnseen`). `raced` records that requests overlapped, `stuck` that an undo
was itself refused, `blind` that a save was accepted unseen, or replaced a row whose
read had failed.

**WireGuardPeers** - one inbound. A call reads the rows (`missed` collects the
rows inserted since), allocates the lowest free address, inserts, and on a
conflict reads the winner. A subscription does this for one client, a reload for
all entitled ones, and then lists every row as a peer (`served`).

**CorePins** - a request reads the selection, writes the two settings in the order
of their keys, and replaces the pins with the map it built; an installer resolves
the path, then reads the version, downloads, installs the binary and then the data
files. A failure or restart may come at each step. `loose`, `behind`, `moved`
record what overlapped or was cut short.

**AddressLimit** - `tracked` is the tracker's map with its cap, `seen` the last
connection of every address, tracked or not. `sweep` is the local state of one
pass of `enforceIPLimits`: the rows it listed and those left. `Visit` is one turn
of its loop; the branches are its disjuncts. `saver` is a handler that saves a row
it read whole. `streak` remembers what the sweeps should have found, `excused` the
accounts whose hold was not written, or was written over, or whose limit is beyond
the cap.

**Webhooks** - reporters push and wake, the worker takes, sends, retries, sleeps on
a timer or on the wake channel, and Close marks, quits and joins. Time is what is
left to wait for.

**MC modules.** A run of its own for every part would be a dozen small runs, so
parts that share no state are checked together: `MCPanelSafe` (reload, supervisor,
directory, routing, peers, pins, limits), `MCPanelLive` (supervisor, upstream,
webhooks, and an instance of egress) and `MCExactlyOnce` (accounting, session,
egress) have a variable `part`, chosen at the start and never changed, that says
which one moves. The others stay in an initial state, so the states of a run are the
sum of its parts' and not their product, and a property is about its part alone.

### Faulty variants

Next to some operators stands a copy whose name ends in the fault it has
(`SaturatingAdd_Unbounded`, `PollBill_NoSnapshot`, ...). They are not used by the
specifications. Each is a mistake that could be made in that function, and the
run named in `PROJECT.json` fails when the variant takes the operator's place:
this is how we know a property depends on the code it is about.

## 4. Runs

All take a discrete clock, byte or line as unit. "States" are distinct states.

| run | question | bounds | states (a failing run: until the violation) |
|---|---|---|---|
| exactly_once | what must happen exactly once? `ExactLedger`, `ResetOncePerPeriod` (transactional writers); `StreamsCarried`, the refinement of two reliable streams (tunnel session); `OpenIsAccounted` (egress) | accounting: 1 user, 2 sweepers, both cores metered, 2 bytes, 4 instants, 1 edit of the limit, 1 fault; session: numbers modulo 8, 9 bytes down, or 9 frames up, or 3 and 2, 1 expiry; egress: 1 session, 2 handlers, 2 connections, 1 eviction | 1.4 M in all: 892 k accounting + 337 k session + 192 k egress |
| accounting_full | what holds with the whole-row savers too? `TypeOK`, `NoOverbill`, `SuspensionWarranted`, `NoSchedulerRevival` | 1 user (on a term, on hold, or with a periodic reset), 1 sweeper, 1 editor, 2 edits of any kind, 1 fault, counters of one byte | 2.3 M |
| accounting_live | are quotas, terms, holds and disconnects acted on? `QuotaTrips`, `ExpiryEnforced`, `HoldActivates`, `HoldReleased` | 1 user, 1 sweeper, both cores metered, 2 bytes and a limit of 1, 3 instants, 2 edits, 1 fault | 173 k |
| fleet | is a node's work billed, filed and enforced? `NodeNeverOverbills`, `FiledOnceInOrder`, `RemoteQuotaEnforced`, `RemoteTrafficBilled` | 1 user, 2 metered cores of which one writes lines, 2 bytes and a quota of 1, 2 lines in batches of 2, 2 faults, 1 switch | 428 k |
| panel_safe | do the panel's parts keep what they promise? `SingleCore`, `ServesTheFile` (supervisor); `DisconnectHoldsInOrder`, `QuietMeansCurrent` (reload); `ReferencesLive`, `MirrorExact`, `OneDefault` (directory); `TableRenders` (routing); `AddressesDistinct`, `IdentityAgreed` (peers); `SelectionRuns`, `RollbackHasTarget`, `DirectoriesHold` (pins); `LimitEnforced` (limits) | supervisor: xray, 2 applies, 1 stop, 1 fault, 2 shapes; reload: 2 at once, 2 users, 2 inbounds, 3 changes, 1 failure; directory: 1 user, 2 groups, 2 inbounds, any legacy content; routing: one row of each kind, 2 tags, 2 handlers; peers: 2 clients, 2 callers, 2 keys, ranges of 1 and 2 addresses; pins: 2 engines, 2 releases, 2 requests at once and 3 in all, 1 install, 1 failure; limits: 1 account, 3 addresses and a cap of 2, limits 0 to 2, 3 instants, 2 edits, 1 failure | 954 k in all: 214 k supervisor + 183 k pins + 154 k reload + 137 k limits + 136 k routing + 91 k peers + 39 k directory |
| panel_live | what must eventually happen? `CrashedCoreReturns`, `WedgedIsReplaced`, `CallsReturn` (supervisor); `GoodConfigReturns` and the invariant `OneChild` (upstream); `EveryDeliveryEnds` and the invariants `NeverSleptOn`, `OneDelivery` (webhooks); `EvictedIsClosed` (egress); `ClosingEnds` (webhooks, egress) | supervisor: every kind of core, 1 apply, 1 stop, 1 fault, 2 misses condemn; upstream: 2 callers, 3 calls, 3 versions of which one is bad, 1 fault (a crash, a write that fails or tears, a stop that gives up); webhooks: 1 reporter, 2 conditions, a queue of 2, 2 retries, 3 events; egress: 1 session, 1 connection, 1 read | 83 k in all |
| lost_billing | fails `ExactLedger` | on-hold account, no faults | 108 |
| double_billing | fails `NoOverbill` | both cores metered, 1 fault | 383 |
| reload_race | fails `DisconnectHolds` | 2 reloads at once, 2 changes, no failure | 1625 |
| dns_expiry | fails `DownstreamIntact` | 3 bytes, 1 expiry | 249 |
| routing_rollback | fails `RefusedIsRolledBack` | one row of each kind, 2 tags, 1 handler | 3849 |
| suspended_peer | fails `PeersAreEntitled` | 2 clients, 1 caller, no failure | 1251 |

Why the bounds are enough. The rows of different users never meet in one
operation of the ledger, so one user shows what a row can go through; two sweepers
are what a reset race needs; two bytes suffice for a limit to be tripped,
overshot and reset. A counter type of one byte makes saturation and wrapping
happen in every behaviour. Four instants contain two calendar periods of length
two. In the supervisor one restart overlaps everything a second one could; a
second apply is there so that a hot apply, and a restart after it, occur. Two
faults in the fleet are a lost answer and a restart in any order, or a core lost
and the other unread; a node has two cores in the code. Three changes under two
reloads let a disconnect, its release and another change each overtake the other
two. Two edits are a status set by hand and a term or limit moved after it. Sequence
numbers modulo 8 satisfy `Window + Reach <= SeqSpace / 2`, the assumption that lets
half the number space tell old from new (the code has 65536), and a stream of nine
bytes or frames wraps. Polls have the number 0, and data frames theirs, so that
queries with another number than the last come, with and without an acknowledgement.
The directions meet only in the messages, so the long streams run one way each and a
short pair runs both ways. Two lines in batches of two make a repeated batch grow, so
that one part of it is known and the other new.
In the directory, two groups are what a reassignment and a default flag need, two
inbounds what a mirror needs to differ in one, and one user is enough since no
function relates two. A routing table of one row of each kind has every way one
row can name another; two tags let a rename free a tag that is still named. Two
WireGuard clients and two calls are what a race for an address or a row needs; the
narrow range is the pool that is full. Two engines show that a map of pins replaced
whole drops what another request selected; three requests are a pin, a re-pin and
a roll-back. Accounts never meet in a sweep of the address limit, so
one is enough; a third address is what makes the tracker evict; two edits are a
limit removed and a stale row saved; a hold of two instants set at the first is
over at the last. Two connections of one session in `exactly_once` are what the pump of
a replaced connection needs; the liveness of the same module is checked with one,
where the cost of liveness allows it. The faults budget is spent on: failed reads
and writes, crashes, restarts, lost messages, missed probes.

Deadlock is not checked: every system here comes to rest when its bounds are
used up. That the code's own waits end is stated by `CallsReturn`.

**Fairness.** `Accounting`: the jobs run on tickers, so a cycle that can start
starts and one under way continues (weak fairness of `PollStart`, `PollUser`,
`SweepList`, `SweepStep`); none for traffic, time, people or faults.
`Supervisor`: goroutines run, tickers tick, a started core reads its file, a
killed process exits; none for faults and new calls. `Fleet`: the agent's ticker
goes on, a request that arrived is handled, an answer arrives unless a fault
strikes, and faults are finitely many, as any claim of eventual delivery needs.
`ForgeUpstream`: the supervising goroutines and a call of `Sync` go on, except the
goroutine of a binary that outlived SIGKILL; the end of
`waitSettled` is strongly fair, since it polls a state that a crash loop may change
between polls. `Webhooks`: reporters, the worker and Close run, time passes, and an
endpoint answers or its request times out. `DnsEgress`: goroutines run and a dial
ends (it has a timeout); no destination need ever send, and no client poll.

**What the failing runs show.**

- *lost_billing*. The sweep activates an on-hold account from the row it listed;
  what the accounting job billed since the listing is written over, and the
  snapshot has moved on, so it is never recomputed.
- *double_billing*. xray's and sing-box's counters are added before they are
  compared with one baseline. When one of them restarts, or sing-box does not
  answer once, the sum falls, which reads as a restart of both, and everything
  the other had counted is billed again.
- *reload_race*. A reload that read the users before a disconnect, and gets the
  controller's mutex after the disconnect's own reload, puts the credential
  back; the client is cut, reconnects and stays.
- *dns_expiry*. A chunk that the client has received expires before its
  acknowledgement arrives, more bytes are queued, and a longer chunk is cut under
  the same number. The client takes it for a repeat and acknowledges: the added
  bytes leave the queue undelivered.

- *routing_rollback*. A new row that the renderer refuses is rolled back by the
  ordinary delete, which counts the disabled rows that name it, while the renderer
  does not: the delete is refused, its error dropped, and the refused row stays.
- *suspended_peer*. A reload makes rows for the entitled clients but lists all
  rows. A client suspended after it fetched its configuration stays a peer as long
  as another user of the inbound is entitled.

**Known failures without a run of their own.** Found while modelling; those that
matter for a property are named in its statement or in the hazards of
`PROJECT.json`.

- A core that ignores SIGTERM is condemned by the probe, which signals once and
  ends: nothing kills it until the next reload. A stock sing-box, built without the
  statistics API, has no probe at all: wedged, it is never replaced. (Both are
  `Beyond` what `WedgedIsReplaced` and `CrashedCoreReturns` claim.)
- A failed read of a user in the accounting job writes the bytes of that cycle off,
  and the quota they reach does not trip (`missed` in `QuotaTrips`).
- An administrator's raised limit or moved term (PATCH, `/extend`) leaves the
  suspension it made groundless; no job lifts it (`SuspensionWarranted` names the
  writers).
- The sweep, holding a copy of an account on hold, revives it after an administrator
  set it expired by hand (`raced` in `NoSchedulerRevival`).
- A disconnect may leave the connection it is about, and answers the same; the
  client then stays on as long as it does not reconnect (`spared`).
- A node that is switched off is refused its heartbeats and goes on serving its
  last configuration, unbilled. (The properties of `Fleet` except a disabled
  node.) A heartbeat's save of the node row undoes a switch made since it read it.
- Two overlapping heartbeats of one node read one baseline and both bill.
- When both cores of a node write lines, a lost answer and a new line of the first
  shift the positions of the second: a line is filed twice, another never.
- A node sums the counters of its cores too, and a change of users is applied hot to
  xray while sing-box is restarted for it: every such change bills a user of both
  again for what xray had counted (`mixed`; the same arithmetic as double_billing).
- An account limited, reset at the end of its term, then renewed stays limited.
- `StopAll` during a reload returns before the core it should stop exists.
- In the egress bridge: a second query while the first still dials writes to a
  nil connection, and a dial that fails after its slot was closed closes a channel
  twice (`dead`); a dial that ends after the slot was closed leaves a socket in
  no table, and the pump of a replaced connection closes its successor (`early`).
- In the tunnel session: any query without an acknowledgement, in a v2 session too,
  drops the chunk in flight if its number is not that of the query before. Two first
  queries whose answers are still on the way, or an old one that comes late, lose a
  chunk nobody received, though "the queue only advances once the client has
  acknowledged it" (`session.go:11-14`; `presumed`). A late `QueueOutbound` makes an
  evicted session anew.
- Upstream: when the write of the configuration that a roll-back puts back fails,
  the zone stays down; a torn write is what the next crash brings up. A change of
  the key alone is written to its file and not applied; a roll-back restores the
  configuration and not the key; a key that cannot be written leaves the new
  configuration on disk for the next crash to bring up.
- Directory: a save of an old copy re-inserts a deleted user; a new user, or one
  a plan is applied to, may get a group that does not exist (`stray`); a group may
  be deleted in favour of itself; a host row may outlive its inbound.
- Routing: overlapping requests, or a crash between the write and the undo, leave
  a table that does not render (`raced`); so does a save whose validation could not
  read the tables, or had no engine to render them, and passed for that (`blind`).
- WireGuard: two calls that overlap may give two clients one address (`shared`).
- Core versions: of two overlapping pins the second to apply drops what the first
  selected (`behind`); the settings, said to be written in one batch, are written
  one after the other (`loose`); a pin between the path and the download puts one
  version in the directory of another, and an install cut short before its data
  files is never completed (`moved`).
- Address limit: a hold is wiped by any handler that saves a row it read before
  (`handleSetSubRevoked`, the bot, the node heartbeat); a limit of 64 or more is
  never enforced, since the tracker keeps 64 addresses, current or not (`excused`).
- Webhooks: a retry overtakes later events; a full queue drops the oldest; an
  evicted condition is never reported as resolved.

## 5. Proofs

Each theorem holds for every value of the constants that its module's assumption
and its own hypothesis admit; the hypothesis is named here, with what makes it
necessary.

### `AccountingProofs` (`Accounting`)

For any users, sweepers, editors, commands, faults and integer width.

- `TypeCorrect`: `[]TypeOK`.
- `NeverOverbilled`: without sing-box statistics, `[]NoOverbill`. The property is
  not inductive; `NoOverbillInv` is. It says that every copy of a row, in the
  table or in a sweeper's or an editor's hands, has on record no more than was
  billed (`RowsBilled`: a stale save may lose bytes, never invent any); that what
  was billed and what the next reading would add has moved (`BaselineSound`); and
  the same for a reading in flight (`ReadingSound`, which is what a restart between
  reading and billing needs). `OneMeter` is where the hypothesis enters: with two
  meters `BaselineSound` fails, and run double_billing shows the property fails too.
- Under `OnlyTransactions` (no handler that saves a row it read earlier, and no
  account with a term or on hold, which the sweep saves whole; run lost_billing
  shows what happens otherwise):
  - `PeriodResetOnce`: `[]ResetOncePerPeriod`, with any number of panel instances.
    `MarkerInv`: the row's reset marker is at least as recent as every period that
    was reset. The marker written is the sweeper's own clock, not the period, so the
    step rests on a period never starting after the instant it was computed at.
  - `LedgerExact`: `[]ExactLedger`, with one metered engine and a total that fits
    the counters. The lemma `RowChange` says what any step does to a row: nothing to
    its usage, a billing, or a reset. Exactness of the additions needs
    `NoOverbillInv`: what was billed moved, so it fits.
- `JobsSuspendFairly`: `Spec => SuspensionWarranted`, without a hypothesis: stale
  whole-row saves of any number of panels and handlers, `/extend` and every column
  edit may run. What a job writes over a warranted row is warranted: billing limits
  only a row that is over, a reset takes the reason and the suspension away together
  or leaves both, and the copies the sweep saves whole are of rows that were not
  suspended. A sweep's instant is not in the future, which is what a reset that
  leaves a suspension alone rests on.
- `ExpiredStaysExpired`: `NoSchedulerRevival`, an action property, under
  `SinglePanel`: one sweep loop, one saver of whole rows at a time, no edit back to
  on-hold. The property excepts the accounts in `raced`. `RevivalInv`: no sweep is
  about to end the hold of an account that is expired, nor of one that a pending save
  will make expired again. With two panels
  one may expire the account that the other, with an older list, still activates:
  the property is then false.

The last two rest on three lemmas about any step: what becomes of a row
(`RowFate`), of a sweeper's copy (`SweepOnward`) and of an editor's (`EditDrafted`).

### `SupervisorProofs` (`Supervisor`, `CoreService`)

For any users, credentials, shapes of configuration and bounds.

- `SupervisorTypeCorrect`, for any callers of Apply, Stop and StopAll at once. It
  takes three facts with it: who may serve (`ServedByLive`), that a launch is
  preceded by its file (`FileFirst`), and the probe's count (`FewMissed`).
- `OneCoreAtATime` (`[]SingleCore`) and `SupervisorServesTheFile` (`Spec =>
  CoreService!Spec` under the refinement mapping), under `OneCaller`: the
  controller's mutex lets one goroutine into Apply and Stop. StopAll does not take
  it and may return before the process it should stop exists; it is left out here,
  and the hazard list has it. `SingleInv`: the one goroutine whose handle is current
  is the only one that may start a core (`Owned`), and a caller past its stop knows
  that the core it waited for is gone (`AwaitedCore`). `ServiceInv` adds what a core
  may serve while a caller is at each stage (`AllServed`): the old file, the old
  file without the users removed, or the new one. The step simulation
  (`ServiceStepMaps`) maps each action to Begin, Adjust, Finish, Down, Up or a
  stutter.

### `FleetProofs` (`Fleet`)

For any users, accounts, batch size and bounds, and the two cores a node has; losses,
late and repeated heartbeats, failed writes, dead and unreadable cores, and restarts
of agent, cores and panel.

- `FleetTypeCorrect`: `[]TypeOK`, whichever cores write lines. The types say more than
  shapes: a cursor is within what its core wrote, and an answer that can still be
  heard (`Heard`) acknowledges only lines of this agent process that were written.
  A batch joins the lines of all cores; that `FlattenSeq` of any number of sequences
  of lines is one (`Flattened`) goes by the least number of sequences for which
  it would fail (`LeastNumber`), since the library's induction is out of reach.

- `NodeNeverOverbilled`: `[]NodeNeverOverbills`. `BillInv` bounds, for each user,
  what the row has on record plus what the next reading would add (`Within`), and,
  while a heartbeat is in flight, the same through its reading (`WithinVia`): a
  reading that a restart overtook bills at most what was carried before it. What is
  compared with the baseline is the sum over the cores (`Total`). Of a user outside
  `mixed`, a sum without some of the cores is the whole or nothing
  (`AllOrNothing`), so whatever befalls the cores the sum stands or starts from zero
  (`Fallen`), and a reading with a core left out is one of the two.
- `LinesFiledOnceInOrder`: `[]FiledOnceInOrder`, under `OneCore`, one core that writes
  lines: a position counts the lines of all cores of a batch, so when two write and an
  answer is lost the property is false. `LogInv` relates three countings of the same lines - the
  agent's cursor and sequence, those in the heartbeat, and the panel's next
  position. Losses and restarts make positions and line numbers drift apart, but
  in one direction only (`AgentAhead`, `BeatAhead`), so that a line the panel takes
  for new is new.

### `DnsSessionProofs` (`DnsSession`)

For any streams, sizes and space of sequence numbers that `SessionAssumption`
admits: the messages a network can still deliver and those a client has open fit in
half the number space, and the reorder buffer takes what a client has open
(`MaxReorderFrames >= Window - 1`: a client that opened more would take a frame
refused for want of room for one that arrived, since the answer does not say). The
code has 65536 numbers and calls the half before the awaited one old; without the
assumption a number on its way could stand for two frames, or two chunks.

- `DownstreamInOrder`: `[]DownstreamExact`. The server knows of a chunk only
  whether its number was acknowledged, and a number comes back every `SeqSpace`
  chunks, so the invariant (`DownInv`) has to count. There is a number `k` of chunks
  that have left the queue, a history `h` of how many chunks the client had accepted
  when each query under way was sent, and a history `g` of how many had left the
  queue when each answer was (`AckHistory`, `SeqHistory`). The client has `k` chunks
  or one more (`Delivered`). Both histories grow by at most one from one message to
  the next and are no longer than the reach of the network, so two numbers that
  agree modulo `SeqSpace` are equal (`ModNear`): an acknowledgement the server takes
  is of the chunk in flight (`AcknowledgesThis`), a chunk the client takes is the
  one it lacks (in `DownReceive`). `Fits` says what an answer with the present
  number may carry: the head of the queue, and, unless a chunk was cut again after it
  expired (`recut`), the very chunk in flight. A chunk that left the queue without an
  acknowledgement ends the counting (`presumed`): from then on the client's number may
  fall behind the server's for good, and what remains, that it gets no byte twice and
  none before an earlier one, rests on the places of the bytes alone (`InOrder`): a
  chunk the client takes begins after all it has.
- `UpstreamInOrder`: `[]UpstreamExact`. `UpInv`: a place of the buffer holds the
  frame of the window with that number or nothing (`Ordered`); what was answered
  was taken (`AnsweredTaken`); a frame is sent only when those a window before it
  were answered (`Windowed`); and for each frame a window or more beyond that of a
  query on its way there is a query sent later (`Overtaken`). So a frame that arrives is
  within half the number space of the one awaited, and `SeqBefore` tells old from
  new (`InReach`, `RefusedIsTaken`). That the buffer has room is a pigeonhole:
  the frames held are distinct numbers inside the window, and the awaited one is not
  among them (`HeldInWindow`). The length of the run released is the least gap
  (`LeastNumber`, by well-founded induction).
- `SessionCarriesStreams`: `StreamsCarried`, that is `SessionSpec => ToClient!Spec /\
  ToServer!Spec`. Queueing offers bytes; a message that is taken makes units arrive;
  an acknowledgement, or an answer heard, settles them; an expiry followed by another
  cut breaks the downstream; all other steps stutter (`ToClientSteps`,
  `ToServerSteps`). The two theorems above are about states; this one adds what a
  step may do: what was handed on is never changed, only added to, everything up to
  the first gap is handed on at once (`NextMissing`), and no end ever lets go of a
  unit the other has not got (`QueuedGone`, `HasBeginning`). It uses their
  invariants and `Numbered`, that only what was offered can arrive.
- `SessionTypeCorrect`: `[]SessionTypeOK`, with the bounds the code keeps: the queue,
  the chunk, the messages, and the number of frames held. It rests on both
  invariants.

The lemmas on numbers modulo `N` (`ModOf` to `ModSmall`) are for any `N`.

### `DnsEgressProofs` (`DnsEgress`), `BackgroundProofs` (`ForgeUpstream`, `Webhooks`)

- `EgressTypeCorrect`, `EgressAccounted` (`[]OpenIsAccounted`), for any sessions,
  handlers and slots (`EgressAssumption`: the slots are numbered from 1). A slot
  that no dial is filling and whose pump has ended is closed; two handlers never
  dial for one slot (`Dialing`).
- `UpstreamTypeCorrect`, `OneServerPerZone` (`[]OneChild`), for any callers of
  Sync, versions and failures (`UpstreamAssumption`: processes are numbered from
  1), a binary that outlived SIGKILL (`stuck`) apart. `Owned`: a goroutine that
  may run a binary is the zone's current one, or the one that a call holding the
  lock is waiting for.
- `WebhooksTypeCorrect`, `WorkerNeverSleptOn` (`[]NeverSleptOn`), for any reporters,
  endpoints, conditions, ladder of retries and size of the queue. A reporter queues
  its delivery first and gives the worker a token afterwards, one token for all
  reporters, and the worker may look at the queue between the two. The property is
  inductive with the types: it speaks of the token or of somebody about to give it
  (`Waking`), and a push ends with such a somebody (`WakingStays`). A worker on its
  timer waits for the shortest of the queue (`ShortestIsFirst`), which time shortens
  for both alike.
- `OneDeliveryEach` (`[]OneDelivery`). `OnceInv` adds whom each reporter still has
  to serve: an endpoint is in no reporter's list and the queue, or the worker's hand,
  for one event, and no two reporters have the same event. A push takes the endpoint
  off the list as it queues (`HandsOver`), and a retry puts back what only the
  worker held.

### `EngineProofs` (`Reload`, `CorePins`, `AddressLimit`)

- `ReloadTypeCorrect`, with any number of reloads at once.
- `DisconnectHoldsForAll` (`[]DisconnectHoldsInOrder`), `QuietMeansCurrentForAll`
  (`[]QuietMeansCurrent`), for any number of reloads at once and any changes between
  their steps. `HoldInv`: who was cut is held, and is on the core or connected only as
  `restored` or `spared` say; the users a job read are not held unless the job is
  `stale`; and a disconnect whose hold stands never has its own user among them.
  `QuietInv`: what a job that is not stale has read is what the tables say; such a job
  is under way (`Pending`) or has had its turn since the last change (`settled`), and
  then the core serves the tables, unless the last to finish failed or was overtaken
  (`missed`). Without `restored` the first is false (run reload_race).
- `SelectionAlwaysRuns`, `RollbackAlwaysHasTarget`, `DirectoriesAlwaysHold`,
  `PinsTypeCorrect`, for any engines, releases, requests and installers: a request
  knows every request that was in flight while it was, and until another writes,
  what it read and built is true of the settings (`RequestsSound`); an installer
  installs the version its path is for, or `moved` says not (`FilesSound`).
- `LimitAlwaysEnforced`, `AddressesTypeCorrect`, for any accounts, addresses,
  limits, cap and savers: what the tracker forgot is no more recent than anything in
  a full map (`LatestTracked`), so that below the cap its count is over the limit
  exactly when what connected is; the counter of breaches agrees with what the
  sweeps found (`BreachesSound`), and the rows of a sweep under way with the holds
  (`SweepSound`).

### `TableProofs` (`Directory`, `Routing`, `WireGuardPeers`)

- `ReferencesStayLive`, `MirrorStaysExact`, `DefaultStaysOne`,
  `DirectoryTypeCorrect`, for any users, groups and inbounds: `DirectoryInv` adds to
  the three properties that the panel serves only when every migration step is
  recorded, that the steps are recorded in order, and that the default group is none
  or one that exists. One lemma per group of actions.
- `TableAlwaysRenders`, `RoutingTypeCorrect`, for any rows, tags and handlers, any
  refusal of the core and any failed read: while no request has raced, at most one
  is in flight (`OthersIdle`), so what it looked up still holds when it writes;
  `RemoveRenders` is the heart of it: a row nobody names can go. The invariant
  says of each stage of a request what the table was and is, and that a row
  accepted unseen is noted (`blind`) until a save is looked at and accepted.
- `AddressesStayDistinct`, `IdentityStaysAgreed`, `PeersTypeCorrect`, for any
  clients, callers and ranges: a call between its read and its insert has noted
  every row that took its address meanwhile (`Placed`), and what was handed out is
  the row in the table (`GivenIsKnown`).

### Only model-checked

Every safety invariant, action property and refinement of a passing run is stated
by a theorem, and so is the type invariant of every specification. What is left to
TLC is out of the prover's reach: the liveness properties (fairness and ENABLED),
and what a recursively defined function computes for every input, where the
library's induction cannot be used. Two facts of that kind that the proofs need
(`LeastNumber`, `Flattened`) are proved from the well-foundedness of `<` instead.

## 6. What is not modelled

- *Accounting*: reminders; the split of the totals by direction; retention.
- *Supervisor*: the log ring, the diagnosis of a failed start, the second caller
  at shutdown (`Stoppers` exists, no run uses it).
- *Reload*: which connections an address shared by users keeps open (any may be),
  users who are on some inbounds only, the choice of core per inbound,
  firewall and port-hopping side effects, PaaS skips. The sweep's noticing that a
  hold has run out and its reload are one step.
- *Fleet*: enrolment and certificates, overlapping handlers, a sing-box built
  without the counters. The agent that gives up is not told what became of its
  request.
- *DnsSession*: handshake, sessions of v1 clients, a SYN in mid-session, eviction
  (and the session without a key that a late `QueueOutbound` recreates), the
  advisory window and the counters. That the bytes do arrive when each latest
  message does so infinitely often was tried on a small instance only.
- *DnsEgress*: the SOCKS5 dialogue, the bytes, several sessions competing for
  `MaxConns` (a constant; the runs have one session).
- *ForgeUpstream*: download and rendering; health checks; several zones (each has
  its own process and files, the mutex is common).
- *Directory*: migration steps that only add columns; admins, nodes, domains and
  tokens, whose rows nothing here refers to.
- *Routing*: matchers, order, probes, and the built-in targets, which always
  resolve.
- *WireGuardPeers*: rotation and release, which no handler calls.
- *AddressLimit*: several panel instances, each with a tracker of its own; that the
  cores leave out an account while it is held, which is `Reload`'s entitlement;
  times reported by a node rather than stamped by the panel.
- *CorePins*: digests; the other binaries' installers.
- *Webhooks*: signatures, the endpoints' edits.
- The components with status `not_modelled` in `PROJECT.json`, for the reasons
  there.
