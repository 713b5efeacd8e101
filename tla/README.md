# TrafficOrchestrator in TLA+

A model of the Go program in `src/`: a **master** that distributes traffic
rules, and **agents** that carry them out. The modules are written from the
code under `src/pkg` and `src/cmd`; `PROJECT.json` maps every definition to the
lines it stands for.

## 1. The system

### Components

| Component | State | Operations | Interacts with |
|---|---|---|---|
| Control channel, master side (`pkg/comm/channel.go`, `MasterServer`) | the map `agents` (ID → connection, version) under the RWMutex `mu`; one handler goroutine per connection | accept, first message, ACK, message loop, `removeAgent`, `SendToAgent`, `SendToAllAgents`, `StartTraffic`, `StopTraffic`, `CloseAllAgents`, `CloseListener` | agents over TCP; the owner through callbacks, each in a goroutine of its own |
| Control channel, agent side (`AgentClient`, same file) | one connection | dial, `Register`, `SendHeartbeat`, `SendWarning`, `ReadMessage`, `Close` | master over TCP |
| Framing and signatures (`channel.go`, `messages.go`, `netutils`) | none | `ReadMessage`, `WriteMessage`, `signMessage` | both ends |
| Master process (`cmd/master.go`) | rules and configuration under `ruleMu`, `updateNotified`, `reloadMu`, file watcher | `onAgentRegister`, `onAgentHeartbeat`, `onAgentDisconnect`, `loadConfigAndNotify`, `distributeRulesToAgent`, `Stop` | control channel, registry, parsers, profiles |
| Distribution server (`cmd/master.go`, HTTP) | checksums of binaries | `/binary`, `/sha256`, `/version`, `/agents` | agents' self-update |
| Registry (`pkg/registry`) | records in memory, `agents.json` | `New`, `Upsert`, `UpdateSeen`, `SetOffline`, `All` | callbacks, status mode of the command line |
| Agent connection (`cmd/agent.go`) | `client`, `connStop`, `standalone`, `isRunning`, `reconnecting`, `stopChan` | `Start`, `Stop`, `receiveMessages`, `sendHeartbeatLoop`, `ttlReconnectLoop`, `reconnectToMaster` | agent side of the control channel |
| Agent rules and traffic (`cmd/agent.go`) | `currentRules`, `trafficCancel`, the workers, `instructions.conf` | `applyRules`, `startTraffic`, `stopTraffic`, `executeTraffic`, `saveInstructions` | listener manager; called by `Start` and the receiver |
| Listener manager (`pkg/traffic/listener.go`) | table of listeners, their sockets | `StartListener`, `StopAll`, accept loops | operating system |
| Parsers and profiles (`pkg/config`) | the config under construction | `ParseExtendedConfigV2`, `LoadProfileDir`, `FlattenProfile`, `ResolveProfileRules`, `LookupAssignments` | master at load and distribution |
| Configuration watcher (`cmd/master.go`) | the times it has seen, the request channel | `watchConfigFile`, `latestProfileMod`, `ReloadConfig`, `loadConfig` | files, parsers, reload |
| Configuration files of the agent (`pkg/config`) | `to.conf`, `instructions.conf` | `SaveAgentConf`, `LoadAgentConf`, `SaveInstructionsConf`, `LoadInstructionsConf`, `DetectToConfMode` | agent at start and at each CONFIG_UPDATE |
| Self-update (`pkg/update`) | the binary, `.new`, `.bak` | `Apply`, `applyUpdate` | distribution server |
| Logger (`pkg/logging`) | log file and rotated files | `Log`, `rotateLocked` | everything |
| Command line (`cmd/main.go`, daemon files) | PID file | start modes | all |
| Legacy (`pkg/master`, `pkg/traffic/generator.go`, `LoadTrafficRules`, `ParseExtendedConfig`, `LoadConfigSmart`) | — | — | not called from `cmd` |

### What is hard here

* **Goroutines and one RWMutex.** Handlers, callbacks, reloads and sends share
  the agent map. A send keeps the *read* lock during a write that can block.
* **Asynchronous callbacks.** `onRegister`, `onHeartbeat` and `onDisconnect`
  are started with `go`; nothing orders them.
* **Replaced connections.** An agent that reconnects registers while the master
  still serves its old, half-open connection.
* **Values read under a lock and used after it**: rules in
  `distributeRulesToAgent`, the client in `receiveMessages` and `Stop`.
* **Hand-over of one role between goroutines** on the agent: receiver →
  reconnector → receiver, with the flag `reconnecting` and per-session
  channels `connStop`.
* **Rules replaced in several critical sections**, while workers of the old
  rules still run and the sockets of old listeners are closed later.
* **Shutdown** in the middle of all of these.
* **A binary replaced under its running process**, in several renames any of
  which may fail or be the last thing the process does, possibly by two
  goroutines at once.

* **Files rewritten while the process may die**: `to.conf` and
  `instructions.conf` by rename, `agents.json` in place, the log by a chain of
  renames; and **files somebody else rewrites** while the master reads them.
* **Guesses of the parser**: which of two formats a rule line has, whether a
  line is a rule at all, which of two names of an address is meant.

`PROJECT.json` lists the hazards line by line and the properties that watch
each of them.

### What makes each component correct

* *Control channel*: every entry of the map is served and removed in the end;
  the newest connection of an agent is the one that sends reach; a send never
  meets a channel that is evicted or closed; dead connections are cleaned up.
* *Master process*: once nothing is under way every agent has been sent the
  rules in force; no more update notices than connections allow; an agent
  hears the ACK first, unless a reload or a callback of one of its earlier
  connections gets ahead of it.
* *Agent connection*: one goroutine drives the connection; each closes and uses
  what belongs to its own session; a driven agent reconnects; `Stop` ends all.
* *Agent rules*: nothing that listens or sends gets out of reach of what stops
  it; replaced rules come to an end, with at most one late connection.
* *Self-update*: a failed update leaves the binary unchanged, or at least as the
  backup when putting it back failed as well; whenever the agent dies, a binary
  that runs is still there (until another update follows such a failure); only a
  verified one replaces it.
* *Agent files*: each changes from one saved value to another, never to a part
  of one, so that an agent which has run once always starts again.
* *Registry*: the file has what the process has whenever nothing is under way;
  the first time an agent was seen is kept; only an unfinished save loses data.
* *Configuration watcher*: once edits stop, what is in force is what the files
  hold, as long as agents read what they are sent; a reload never puts an older
  config file back.
* *Parsers and profiles*: an agent is sent the rules that the files, read as a
  whole, give it, and no others.
* *Logger*: no line disappears but with the oldest file; the files are in order.

## 2. The modules

```
 Presence
    ▲ implemented by
CommServer ──extended by── Master          AgentConn        AgentRules        SelfUpdate
    │                        │                 │                │                 │
CommServerProofs ─ used by ─ MasterProofs AgentConnProofs  AgentRulesProofs  SelfUpdateProofs
MCCommServer                MCMaster       MCAgentConn      MCAgentRules      MCSelfUpdate

AtomicFile ◄─implements─ SaveFile ◄─two instances─ AgentStart ─┐
                                                   Registry ───┴─► Restart ── MCRestart
                                                                     └─ DiskProofs
ConfigFile ─┐
ProfileFile ┴─► RuleSets ── MCRuleSets, RuleSetsProofs
ConfigWatch ── ConfigWatchProofs             Logger ── DiskProofs
```

How they fit together: ConfigWatch decides *when* the files are read, ConfigFile
and ProfileFile *how*, RuleSets *what* an agent is to be sent, Master *when it
is sent* (a rule set is a generation there), CommServer *over which
connection*, AgentConn keeps the agent's end of it, AgentRules carries the rules
out, and Restart says what is left of all that when a process dies.

### CommServer

`pkg/comm/channel.go`: `MasterServer`, and the agent's half of each connection.

* `agents` is the map; an entry is its channel (the connection) and version.
* `handler[c]` is where the goroutine of connection `c` is: `first`
  (`handleConnection` waits for REGISTER), `ack` (the entry is inserted, the
  ACK not yet written), `loop` (`processMessages`), `remove` (it is about to
  call `removeAgent`), `done`.
* `sock`, `peer` are the two ends of the TCP connection, `toMaster`, `toAgent`
  what is under way. A write blocks when `Window` messages are buffered, unless
  the connection is dead, when it is lost.
* `send[g]` is a goroutine that holds the read lock: its message and the
  channels still to be written. Every action that takes the write lock requires
  that there is none (`LockFree`). A send may start while a writer waits, which
  Go's RWMutex forbids: the model has more behaviours than the code.
* `callbacks` are the goroutines of the owner that have been started; `Hooks`
  says which callbacks the owner has set.
* `superseded` is a history variable: connections a later REGISTER displaced.
* A REGISTER with an empty version (`NoVersion`) is taken like any other, as
  `handleConnection` does; only a heartbeat without a version leaves the one in
  the entry alone.

`removeAgent` and the deferred `Close` of the handler are one action
(`RemoveAgent`): between them the connection is in no entry, so no send, no
handler and no callback can tell the difference; the agent sees its
connection close a moment later. The read deadline, end of file and a reset
are the same to the reader: `ReadFails` is possible whenever nothing is
buffered.

### Presence

The abstract specification of the server, as its owner sees it: which agents
are `at` which connection, which connections are `known` (an agent registered
on them) and `lost`, and which ones a message still goes `to`. An agent comes
only on a connection nobody has registered on, goes only with the connection it
is at, with its own next REGISTER or with `CloseAll`, and none of these happens
in the middle of a send, which reaches exactly those who were there when it
began. CommServer ends with the mapping (`At`, `Known`, `Lost`, `Left`, `Open`):
a connection is lost as soon as its handler is on its way to `removeAgent`, so
a late handler that evicted a newer entry would be a step Presence does not have.

### Master

Extends CommServer with the master process: the owner's callbacks, and the
three kinds of goroutine that send — `Registrar(c)` (`onAgentRegister`),
`Notifier(c)` (`onAgentHeartbeat`) and `Reloader` (the reload that holds
`reloadMu`). `distributeRulesToAgent` is three steps, as in the code: the
agent's address (`ReadAddress`), the rules under `ruleMu` (`ReadRules`), the
send (`Deliver`, then `FinishDelivery`). A configuration is the *generation* of
the file; `Common` and `Addressed` say in which generations a rule without
SOURCE, or one for the agent's address, exists, so that "the rule set is empty"
is decided as the code decides it. `EditConfig` is the operator.
`TriggerReload` stands for the watcher and `ReloadConfig`, at any time;
`LoadConfig` publishes any generation from the one in force to the newest, for
edits come while a reload reads (that it is none older is `NeverBackwards` of
ConfigWatch).
`log`, `ran` and `ahead` are history variables: what was written on a
connection, which callbacks ran, and who wrote before the REGISTER_ACK.

### AgentConn

`cmd/agent.go`, the connection. Every read or write of shared state that is
atomic or under `a.mu` is a step of its own: `RxCapture`, `RxCheck`, `RxRead`,
`RxError` of a receiver, `HbCapture`, `HbExit` of a heartbeat loop, `RcCas` …
`RcExit` of a reconnector (`RcExit` is the deferred store), `StopFlag` …
`StopClose` of `Stop`. A *session* is one registered connection with its
`connStop`; goroutines are named by the session they were spawned for.
A session nothing refers to any more is used again (`Free`), so any number of
reconnections fits into a finite instance. `connStop` counts how often a
channel was closed; twice is a panic in Go.

### AgentRules

`applyRules` and what it starts, with the listener manager. `applier[p]` walks
through the critical sections of `applyRules`: `ApplyStopAll`, `ApplySwap` (the
context, under `a.mu`), `ApplyListen` (one listener at a time), `ApplySpawn`,
and `SaveInstructions` when the rules came in a CONFIG_UPDATE. The rules are
tried in any order. `worker[c][t]` is `executeSingleRule` for rule `t` under
context `c`: `check`, `dial`, `wait`. `StopAll` only marks a listener
(`asked`); `CloseSocket` is the goroutine that waits for `stopChan`.
Contexts and listeners nothing refers to are used again.

### SelfUpdate

`Apply` and `applyUpdate` (Unix), the goroutine that UPDATE_AVAILABLE starts,
and the removal of the backup in `startAgent`. `file` is what the three names
(the binary, `.new`, `.bak`) lead to; every goroutine uses the same three,
which is what makes overlapping updates interfere. `update[u]` is goroutine
`u`: `open`, `copy`, `verify`, `backup`, `place`, `exec`, and the name of the
file it has open for writing. `Rename` moves open files along; a file that lost
its name is dropped, because nobody else sees it. `BinaryChecksum` reads in one
step: reading block by block while somebody writes cannot pass a check that no
instant would have passed, and what happens after the check is modelled.
`Crash`, `Restart` and `Recover` (the operator renames the backup) are the
surroundings; `Recover` is needed because nothing in the code restores a backup
at startup. Every rename may fail, the one that puts the backup back too
(`Restore`), whose error the code ignores. `restore` is a history variable: it
is `failed` from such a failure on and `retried` from the next announcement to
the same process. Whether the new binary runs on the machine (`compatible`) and
whether an old `.bak` is there are chosen initially.

### AtomicFile, SaveFile, AgentStart, Registry, Restart

*AtomicFile* is what the comments of `SaveAgentConf` and `SaveInstructionsConf`
promise: a file holds one of the values that were saved, or nothing, and a
save replaces it at one instant or not at all. *SaveFile* is what they do:
create the temporary file, write it, rename it, each of which may fail; `job`
is the save under way. `Tidy` is the one difference between the two functions
(whether a failed write removes the temporary file). The refinement mapping
takes the file under its proper name for the content and the value of the job
for the pending one.

*AgentStart* has two instances of SaveFile, `Conf` (`to.conf`) and `Instr`
(`instructions.conf`), and the ways an agent process starts: with flags
(`handleAgentMode`, which goes on whether the save succeeded or not), without
(`tryAutoStart`), connected or standalone. The text of `to.conf` need not be
read back as it was written: `Loaded` is what `LoadAgentConf` makes of it
(a value ends at " #"). `LoseMaster` may leave the agent with nobody who tries
again; AgentConn says when.

*Registry* is `pkg/registry`: `save` empties `agents.json` (`OpenJson`) and then
writes it (`WriteJson`), and either may fail. A record is its status and
whether its `FirstSeen` is the true one. `Repair` is the operator who removes a
file that `New` refuses.

*Restart* composes the two over crashes of either process. `calls` are the
callbacks that have been started; they end with their master.

### ConfigWatch

The three parts that run beside each other: the operator's edits (in place,
which takes two writes, or by replacing the file, possibly with an old time),
`watchConfigFile` (`TickConfig`, `TickProfiles`, `TakeRequest`), and the reloads
it starts (`StartLoad` under `reloadMu`, `ReadDir`, `ReadProfile` one file at a
time, `Publish`, `Notified`). `notifying` says that the reload which has
published is still sending to the agents: it keeps `reloadMu` until `Notified`
(what is sent is in Master). A file's content is the number of the edit it is from and
whether it was written to the end. `untold` marks the edits that cannot be
noticed by times: those before the first tick, and those that leave the newest
time as it was.

### ConfigFile, ProfileFile, RuleSets

*ConfigFile* is `ParseExtendedConfigV2`, a line a step, with the heuristic that
tells the two rule formats apart (`Extended`) and the second pass (`Resolved`).
*ProfileFile* is `LoadProfileDir` and `LoadProfile`. Both keep the lines they
have read as history (`text`, `files`). *RuleSets* has `FlattenProfile`,
`LookupAssignments`, `ResolveProfileRules` and the two halves of
`distributeRulesToAgent` as operators over what was parsed, and a second
reading of the same lines that is not step by step: the section of a line is
the nearest header above it, the value of a key is that of its last line, the
ancestors of a profile are a path in the graph of EXTENDS. The properties say
that the two agree. `LookupAssignments` is the set of results that ranging over
a Go map may give. `FlattenProfile` is a recursive function of the pair (name,
names seen), as the Go function is of its two arguments. A behaviour reads one of
the two kinds of file and has the other from a sample, since neither is read with
an eye on the other. The sample is a constant: `SampleAssumption` says that it is
what is read from some files (`ConfigAsWritten`, `ProfilesRead`), which is what
the proofs know of it; TLC evaluates it for the sample of MCRuleSets. `FilesAsRead`
proves that whatever is read is such a sample, so the properties hold for any two.

### Logger

`pkg/logging`: `Log` holds the mutex throughout, so its steps (`CloseForRotation`,
`ShiftFile` for each file, `MoveLog`, `ReopenFile`, `WriteLine`) interleave with
nothing but failures, `Close` at the end of `main`, and a crash. A line is its
number; `dropped`, `stderr` and `cut` are histories of where lines went.

## 3. What the runs check

Passing runs:

| Run | Question | Instance |
|---|---|---|
| `CommServer_reading` | Do map, handlers and sends stay consistent under every interleaving and as Presence promises, and do the handlers of dead connections end while agents keep reading (`ReadingSpec`)? | 2 agent IDs, 2 connections, 1 sender, window 1, versions that may be empty; 224 k states |
| `Master_rules` | Is everybody sent the newest rules, whatever reload and registration do? Who can get ahead of an agent's REGISTER_ACK, and is it the first message otherwise? | 1 ID, 2 connections, 2 generations, 1 reload; explored until shutdown begins (constraint `BeforeShutdown`); 338 k states |
| `Master_notices` | Do notices stay bounded when callbacks are reordered? | 1 outdated agent, 2 connections; 89 k states |
| `AgentConn_sessions` | One driver, pairing of goroutines with sessions, the only reasons for giving up, reconnection, the end of all goroutines after `Stop` | 3 sessions, recycled; 114 k states |
| `AgentRules_updates` | Does a socket or a worker ever escape? How often does a replaced rule still dial, and does it end? Is a listener of replaced rules ever kept? | 1 port, 1 connect rule, 1 listener, 2 contexts, recycled; 168 k states |
| `SelfUpdate_crashes` | Does a failed update leave the binary unchanged, and what is left when putting it back fails? Is a binary that runs always there, and only a verified one run? | 2 goroutines, any rename failing, crash, restart and recovery at any point; 47 k states |
| `Logger_rotation` | Where can a line go when calls fail and processes die? Are the files in order, and is only the oldest dropped? | 3 rotated files, 2 lines each, 9 lines; 347 k states |
| `Restart_crashes` | Are the agent's files replaced atomically (refinement of AtomicFile)? Does the agent always come back? What can `agents.json` lose? | 3 settings, 2 rule sets, crashes without limit; 1.7 M states |
| `ConfigWatch_reloads` | Does every edit the watcher can see take effect, in the right order, however reloads overlap with edits, while agents read what they are sent (`ReadingSpec`)? | 1 config file edited in place, 2 profiles replaced, 3 edits, 1 request; 897 k states |
| `RuleSets_reading` | Is every agent sent what the files say? | config files of up to 5 of 16 lines, or 2 profile files of up to 5 of 9 lines; 3 agents; 1.2 M states |

Runs that TLC finds violated state what a document or comment says, and show
that the code does otherwise (each is a finding in `PROJECT.json`):

| Run | What the trace shows |
|---|---|
| `Master_stale` | a registration read generation 0, the reload sends 1, the registration then sends 0, which stays in force |
| `RuleSets_simple` | a rule of the simple format with an interval of a second or more (`TCP FILESERVER 445 5 loop`, an example of the README and of `configs/traffic-simple.conf.example`) is read as SOURCE DEST PORT COUNT: nobody dials the target. Only the interval 0 is read as written |

Known, and not stated as properties, because the code decides them by itself
or because a property above is stated around them:

* An empty rule set is not sent: an agent whose last rule is removed goes on
  with it.
* A reload, or a callback of an earlier connection of the agent that the map has
  no more, can send to an entry whose REGISTER_ACK has not been written, against
  the comment at `channel.go:249`; the agent's `Register` then fails.
  `AckBeforeRules` says that nobody else can.
* An agent that stops reading but stays connected blocks a send under the read
  lock, for there is no write deadline, and with it every registration and
  every `removeAgent`. When the sender is a reload it also keeps `reloadMu`,
  which `loadConfigAndNotify` holds until every agent has been sent to: no later
  edit or request takes effect. `DeadConnectionsEnd` and `EditsTakeEffect` assume
  that agents read.
* `onRegister` and `onDisconnect` may run in either order: the registry may end
  with an agent "online" that is gone. After a crash of the master its records
  stay "online" until the agents register again.
* A new connection that fails before the old reconnector's deferred store has
  cleared `reconnecting` is not replaced by another (`GivesUpOnCollision`);
  with an expired TTL the reconnector may look at `isRunning` before `Start`
  has set it and end; with TTL 0 a standalone agent never dials again.
* A port in the old and the new rules may be opened before the old socket is
  closed; that fails and is not retried.
* No disconnect callback runs for a connection that was replaced, so the new
  one gets no update notice. And a disconnect callback that runs late, after the
  agent has reconnected and been told, lets the next heartbeat tell it again on
  the same session, where `src/ARCHITECTURE.md:1230` says "at most once per
  connection session". `NoticesBounded` is a bound over all sessions for that
  reason.
* An agent whose saved rules have expired starts standalone all the same: the
  code logs a warning (`agent.go:115-122`), while `src/ARCHITECTURE.md:476`
  ("verify it exists and is not expired") and `src/README.md:229` ("exists and
  not expired") have such a start refused. `ComesBack` states what the code
  does.
* When `syscall.Exec` or the second rename of an update fails and the rename that
  puts the backup back fails too, its error is ignored (`apply_unix.go:29` and
  `:37`): there is no binary under the name, or the one that does not run,
  whatever the comment at `selfupdate.go:47` says ("the current binary is left
  unchanged"). The good one is only in `.bak`, and the next update announced to
  the same process moves whatever has the name over it. `BinaryMatches` and
  `BinaryKept` say so.
* Chains of profiles are followed to any length, as `src/ARCHITECTURE.md:1118` and
  the comment at `profile.go:225` have it; the comment at `profile.go:51` says
  "single-level inheritance". The run has two profile files, so chains of three
  are covered by the theorem alone.
* An edit that leaves the newest modification time of the profiles as it was (an
  older file removed or restored), or that comes before the first tick, is not
  noticed (`untold` in ConfigWatch), though the comment of `watchConfigFile` says
  "modified, added, or removed". A profile directory that does not load means
  no profiles at all until the next change.
* A target that is defined as empty (`ALPHA=`) and used as the SOURCE of a rule
  leaves the resolved rule without a source: every agent dials, and nobody
  listens. `EndsServed` and `NoForeignRules` say so; that they fail without the
  exception came out of their proof and is confirmed by TLC, whose instance
  contains such a line.
* The parser drops some lines in silence: a target whose name has a "-" or a
  ".", and a rule with a "=" in its comment. It cuts values at any "#", where
  `LoadAgentConf` does so only at " #". A target that is defined again keeps
  its old address under its tags. The PSK must be in the file or the
  environment even when `--psk` gives it, and a reload fails without it.
* ANY includes the agent itself. A rule from an agent to itself is dialled and
  never listened for.
* `handleAgentMode` overwrites a `to.conf` in the format of the master. A
  connected agent ignores `instructions.conf` and has no rules until the master
  sends some. The README says that `agents.json` is written on heartbeats;
  `UpdateSeen` does not.

### Bounds, and why they are enough

* *Connections are dialled once each* (CommServer, Master). Two suffice for
  the races between a connection and the one that replaces it. The theorems
  hold for any number.
* *`Window` = 1*: one message fills the buffer, so blocking writes happen at
  once; a longer buffer only delays them.
* *Heartbeat callbacks* of one connection with the same version are one
  element of `callbacks`: a second one would find the agent already notified.
* *`MaxGen`, `MaxReloads`* = 1: one edit and one reload against the
  registrations; several reloads are covered by the theorems alone.
  `BeforeShutdown` only concerns `Master_rules`: `NewestRulesSent` says nothing of
  a server that is closing, and `AckBeforeRules` loses only what follows the
  beginning of a shutdown (the theorem does not); every other run explores it.
* *One port, one connect rule, one listener* (AgentRules): two ports or rules
  are independent of each other but for the order in which they are opened, and
  a second listener of one port cannot be open while the first one is. Under
  `PromptStart` the only overlap with `applyRules` is that of `Stop`; more
  goroutines that apply rules at once are covered by the theorems alone.
* *Two goroutines* (SelfUpdate): the properties speak of updates that do not
  overlap; the second goroutine is what makes them overlap.
* *Sessions, contexts, listeners* are recycled, so these bounds limit how many
  exist at a time, never how often something happens. With two contexts a swap
  waits while workers of the context before last are still busy.
* `CHECK_DEADLOCK FALSE`: every instance may stop (all connections used, the
  process down).
* *Logger*: with three rotated files there is a middle one, and nine lines rotate
  as often as it takes to drop the oldest; the theorems hold for any number.
* *Restart*: three settings (a good one, one that is read back too weak, a weak
  one), two rule sets (with and without TTL), no bound on crashes or saves.
* *ConfigWatch*: three edits (`MaxEdits`) let one fall before a load, one into it
  and one after; a fourth only repeats. `MaxManual` = 1: a second request while
  one is queued is not stored. `NeverBackwards` compares the edits of the config
  file only: one profile that cannot be read takes all of them out, so what a
  reload holds of profiles need not grow.
* *RuleSets*: no line twice in a file (a line that is repeated sets the same
  key to the same value or adds the same rule). Five lines hold a target, its
  redefinition, two headers and an assignment, or a rule, its two ends, a header
  and a TTL; five profile lines hold a parent and a child with a rule, two
  profiles that extend each other, or two files of one name.
* Symmetry is used only where no liveness is checked (Master, SelfUpdate).

### Fairness

The Go scheduler runs every goroutine that can run: weak fairness of each
goroutine's steps. Waiting for `mu.Lock()` gets *strong* fairness (`LockStep`):
RWMutex admits no new reader while a writer waits, so a lock that is free again
and again is obtained. `ReadingSpec` adds that agents keep reading what they
are sent; without it nothing is assumed of them. `RcConnect` is strongly fair: the master is up again and
again. In ConfigWatch the ticker ticks and a reload that waits or reads goes on
(weak fairness); `TakeRequest` is strongly fair, because `select` picks at random
among the channels that are ready and cannot pass over one for ever. Its
`ReadingSpec` adds weak fairness of `Notified`: agents read what a reload sends
them, or are gone. The code does not ensure that. No message,
signal, edit or lost connection is ever assumed to happen.

### The assumption PromptStart

`Agent.Start` reads `standalone` and `connStop` without the lock, and in
standalone mode applies the saved rules, while the TTL goroutine may already
be dialling. `PromptStart` says that no dial, registration or update completes
between these statements. It is what the code relies on, not what it
guarantees: without it `OneDriver` and `ReceiverPaired` of AgentConn are
violated (two receivers share one `connStop` and both close it), and so is
`NoStaleListeners` of AgentRules. All runs assume it, and so do the theorems
about AgentConn and `RulesNoStaleListeners`. The other theorems about AgentRules
do not: no socket and no worker escapes, and none dials late twice, even when two
goroutines apply rules at once.

### Updates that do not overlap

The properties of SelfUpdate hold "as long as updates have not overlapped".
The code does not prevent overlap: an agent that reconnects during a download
is told of the update again. The run explores overlapping updates too, and
without the condition each of the three properties is violated; only the types
hold then (`UpdateTypes`). `BinaryMatches` and `BinaryKept` have a second
condition, on `restore`: a restoring rename that fails is allowed and what it
leaves is stated, but `BinaryKept` ends where the process it failed in is
announced another update, which the code does not prevent either.

## 4. What is proved

All proofs hold for every value of the constants under the named assumptions
of each module (`CommAssumption`, `MasterAssumption`, `AgentAssumption`,
`RulesAssumption`, `UpdateAssumption`, `LoggerAssumption`, `StartAssumption`,
`RegistryAssumption`, `RestartAssumption`, `WatchAssumption`,
`ConfigFileAssumption`, `ProfileFileAssumption`, `SampleAssumption`). Type
correctness is proved in each of the modules below; TLC checks a type invariant
only in RuleSets, where it says more than types (a config that is used has a
PSK, every rule a port).

Every invariant and every action property of a passing run is proved, and so are
the refinements; TLC shows them on small instances, and is alone with what is
temporal.

* **CommServerProofs** — `CommTypes`, `CommEntriesServed`,
  `CommLatestReachable`, `CommSendsHitLiveEntries`, from `CommSafe`.
  The three properties are not inductive as they stand. The invariant `Safe`
  adds that a connection not yet dialled is in no entry and no send
  (`Undialled`), that a handler past `first` has an agent's identity (`Named`),
  and that what a sender holds is in the map and open (`Held`), which is where
  the read lock enters: each step that changes the map requires `LockFree`.
  `CommImplementsPresence` is the refinement of Presence, one lemma per kind of
  step: the agents' steps are not seen (`AgentSideUnseen`), a handler that fails
  is a loss, a REGISTER an arrival, `removeAgent` a departure or nothing. It needs
  `Anonymous`: a handler that has read no REGISTER has no identity, so its
  connection is new to Presence. `CommNeverBack` follows: a connection that an
  agent has left never becomes an agent's again.
* **MasterProofs** — `MasterImplementsServer`: every step of the master process
  is a step of CommServer or leaves it unchanged, so all that is proved of
  CommServer holds of the master: `MasterLatestReachable`,
  `MasterImplementsPresence`.
  `MasterTypesHold` needs `CallbacksNamed`: a callback that runs belongs to a
  connection with an identity. Three more properties are proved for a master
  that has set `onRegister` (`"register" \in Hooks`, as `runMaster` does):
  * `MasterNewestRulesSent`. `Newest` says of every served entry that the rules in
    force have been sent to it, or that a goroutine is `Pending` that will: its
    registration has not read the rules yet, or carries them, or the reload has
    not come to it. It needs `Staged` (each goroutine holds what its stage says)
    and `OneRegistrar` (a connection starts one registration).
  * `MasterAckBeforeRules`. `Life` follows one connection from its dial to its
    disconnect callback: nothing is sent before it has an identity, and none of
    its callbacks is started before the ACK is in its log, so none of them can be
    ahead of it. `Overtaken` says who is in `ahead`, and `WriterNamed` finds whom
    a goroutine in the middle of a write belongs to: the reload (`Calm`: at work
    only during one) or a connection that is `Earlier`, which registered as the
    same agent and is not the one in the map. It stays so (`EarlierKept`), for a
    connection that an agent has left is never its again (`LeftForGood`).
  * `MasterNoticesBounded`, by counting: the notices of an agent that are sent or
    on their way are at most the disconnect callbacks that have run, and one
    more if `updateNotified` has the agent (`Budget`). The sets of notices are
    infinite in general, so `Budget` carries their finiteness. The run of this
    property leaves out `onRegister`, which sends no notices.
* **AgentConnProofs** (under `PromptStart`) — `AgentTypes`, `AgentOneDriver`,
  `AgentReceiverPaired`, `AgentHeartbeatPaired`, from `AgentSafe`. The argument
  is a token passed between receiver and reconnector: `BeforeRunning` says who
  has it before `Start`, `ReceiverInv` that a receiver's session is the
  installed one with an open channel, `ReconnectorInv` that a reconnector works
  only after that channel was closed, `HeartbeatInv` that loops of other
  sessions have been told to exit. `AgentGivesUpOnCollision` follows it from
  hand to hand (`HandsOver`): a running agent drops the token only where two
  reconnectors collide; `StopOrder` excludes `stopChan`.
* **AgentRulesProofs** — `RulesTypes`, `RulesSocketsTracked`,
  `RulesTrafficTracked`, from `RulesSafe`. `Keyed` says that an open listener
  has a key; `Held` extends `TrafficTracked` to the context an unfinished
  `applyRules` holds, whose workers are spawned later. `RulesOneLateDial`:
  a worker about to dial has not dialled late (`LateCounted`).
  `RulesNoStaleListeners` (under `PromptStart`): one goroutine applies rules at
  a time (`OneApplier`), so what the table has is of the rules in force
  (`Current`).
* **SelfUpdateProofs** — `UpdateTypes`, `UpdateBinaryMatches`,
  `UpdateBinaryKept`, `UpdateOnlyVerified`, from `UpdateSafe`. The three
  properties need each other and the stage of the one update under way
  (`Stages`: what `.new`, `.bak` and the binary hold at each step), that it is
  alone and runs in an agent started from the old binary (`OneUpdate`), that
  only a goroutine that copies has a file open (`OpenFiles`), and what the
  running process says of the binary (`Binary`), and what a failed restoring
  rename leaves in `.bak` (`Backed`). `Quiet` keeps the removal of
  the backup at startup apart from updates.
* **DiskProofs**, of Restart — `RestartTypes`, `ConfRefines` and `InstructionsRefine`: each file of the
  agent behaves as AtomicFile, over any number of crashes, failures and
  restarts. `AgentComesBack` needs that what a seasoned agent left on disk can be
  started from (`Startable`). `FileHasRecords`, `FirstSeenKept` and
  `RefusalMeansHarm` hold together (`RecordsKept`): while nobody has repaired or
  torn `agents.json`, it has every agent ever seen, and `dirty` marks the one
  interval in which it does not.
* **ConfigWatchProofs** — `WatchQuietMeansCurrent`, `WatchNeverBackwards`,
  `WatchTypes`, from `WatchSafe`. `NothingLost` says where an edit that can be
  told is on its way to being in force (`Told`): in the times of the files, in a
  request or a goroutine not yet started, or in a load all of whose reads are
  still true (`Fresh`). `Ordered` says that a load has read the config file at
  an edit no older than that of the rules in force.
* **DiskProofs**, of Logger — `LoggerTypes`, `LoggerNoLineVanishes`,
  `LoggerInOrder`, `LoggerOldestDroppedFirst`, together one invariant (`Rotated`)
  with `Fresh` (the line being logged is nowhere yet) and `RoomMade` (the loop
  never moves a file onto another but at the oldest place).
* **RuleSetsProofs** — `FilesAsRead`, `RuleSetsTyped`, `RuleLinesServed`, `DirectRulesNamed`,
  `AssignmentUnambiguous`, `ProfilesResolved`, for any files, names and numbers of
  lines. The invariant `RuleSetsInv` has a half for each parser, and each half says
  that the state is the reading, as a whole, of the lines read so far:
  * `ConfInv`: every target has the value of the last line that defines it
    (`TargetsRead`), the TTL likewise, every accepted rule line has its rule
    (`ConfReading` before the second pass, the same with addresses after it).
    A line appended changes the last value of its own key only (`ValueAdded`), and
    the section of no line above it (`SectionAdded`).
  * `LoadInv`: each profile held is the newest of its name among the files read
    (`Held`), the one under construction is what its lines say (`LoadReading`).

  `ProfilesResolved` is about a recursive function over a graph that may have
  circles and loose ends. It is not computed but characterised. `Closed` is a
  closed form: the rules along the line of descent from the profile that stays
  clear of the names already seen, or `Fail` if there is none. `ClosedSolves`
  shows that it satisfies the recursive equation and `OneSolution` that nothing
  else does: among the calls that two solutions answer differently, the one that
  has seen the most names makes a call that has seen one more, which both answer
  alike. A line of descent meets no file twice, for what follows would come
  twice as well and the line would not end (`NoFileTwice`); so it is no longer than
  there are files (`LineagesBounded`, by an injection), and the bound in `Lineages`
  leaves none out.

Only model-checked: the temporal properties (`DeadConnectionsEnd`,
`DrivenAgentReconnects`, `StopEndsAll`, `OldTrafficEnds`,
`EditsTakeEffect`): liveness under fairness is out of the prover's reach. The two
runs that end in a violation are TLC's by nature.

## 5. What is not modelled

* *Message framing, JSON and HMAC* are data: a message the reader rejects is
  `Bad`. The content of rules, payloads, counters and log messages is abstracted.
* *Distribution server*: HTTP handlers that read a file and a checksum computed
  once at start. What they may answer is `Images` in SelfUpdate.
* *Command line, PID file, daemonising* (`cmd/main.go`, the daemon files,
  `ParseMasterArgs`): they run once, before anything else; what they decide of an
  agent's start is AgentStart. `NewMasterServer` is one step: an agent that
  registers before `SetOnHeartbeat` and `loadConfig` have run is not followed.
* *Legacy*: `LoadTrafficRules`, `ParseExtendedConfig`, `LoadConfigSmart`,
  `pkg/master` and `pkg/traffic/generator.go` are not called by the program.
* `StopListener` and `updateRules` have no caller. `UpdateSeen` changes
  `LastSeen` in memory only, which nothing decides upon. The getters are
  operators.
* *ProfileFile* leaves out the description, version and tags of [META] and the
  names of rules, which decide nothing. In ConfigWatch the name of the profile directory does
  not change with the config file.
* *Errors the code takes for something else*: `os.Stat` failing on a log file that
  exists (`logger.go:89` takes the file as absent and skips it), and `f.Close()`
  failing before a rename (`agent_conf.go:178`, ignored). The renames,
  opens and writes around them may fail in the model.
* The *Windows* variant of the self-update is a batch script that runs after
  the agent has exited.

## 6. Plan

* The composition of AgentConn with CommServer, in which a session of the agent is
  a connection of the master: the race of both ends of one connection. Today each
  module leaves the other end free to do anything a peer can do, which covers it
  for safety.
* What can be proved about progress without ENABLED: for each goroutine that
  liveness speaks of, that the invariant leaves it a step or a named thing it waits
  for (no state in which all wait).
