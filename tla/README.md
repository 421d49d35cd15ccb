# TLA+ models and proofs of M.I.O

M.I.O is a desktop program (Tauri, Rust) in which a person shares Rooms with AI
participants.  This directory holds TLA+ modules of the parts whose behaviour
depends on concurrency, failing files and restarts, the TLC configurations that
check them on small instances, and proofs of the most important facts that TLAPS
checks.  Below, `desktop/` stands for `src/apps/desktop/src-tauri/src/`.

    tlasany M.tla                         parse
    tlc -workers 2 -config X.cfg M.tla    model-check a run of PROJECT.json
    tlapm M_proofs.tla                    check the proofs

## 1. The system

### Components

| component | state | operations | what makes it correct |
| --- | --- | --- | --- |
| AI dispatch ledger, `desktop/ai_dispatch_ledger.rs` | a record per (message, participant) in memory and in a file with a backup; the set of dispatches a call of this process owns | `begin`, `mark_external_started`, `mark_failed`, `mark_external_preflight_failed`, `mark_completed`, `finish_unknown`, `unresolved_for_room` | what was recorded is found again after a restart; a record belongs to one call at a time; undecided records are never pruned |
| AI dispatcher, `desktop/ai_dispatch.rs` | one turn gate per provider; the calls in flight | `dispatch_codex`, `dispatch_grok`, `dispatch_gemini`, `dispatch_claude`, `room_dispatch_unknowns` | a message reaches a provider at most once; nothing is said to have failed that may have been delivered; every call releases what it holds |
| Room store, `desktop/room_source.rs`, `crates/moe-core/src/room.rs` | Rooms and messages in memory, a snapshot file with a backup, preserved corrupted files | append, find, create, rename, members, delete, export, restore; bringing an older snapshot up to date | memory and file agree; messages are only added |
| Snapshot stores: continuity, workspaces, conductor settings, profiles, appearance, backup directory | a map in memory and a file with a backup | get, set, clear | as above |
| Conductor orchestration, `desktop/room_orchestration*.rs`, `crates/moe-core/src/conductor.rs` | a ledger of operations with stages; the running operation | plan, delegate, dispatch workers, synthesise, resume | one planning and one synthesis turn per operation; workers run only on recorded delegations; the final message is never lost sight of |
| Turn cancellation, `desktop/turn_cancellation.rs` | two tables of registered turns | register, cancel, drop | a Stop reaches a turn that has not ended |
| Relay runtime, `desktop/relay_runtime.rs`, `relay_product.rs`, `crates/moe-relay-client` | a lifecycle per account, worker threads with generations, an event pump, the phase of the connection service | start, stop, retry, shutdown, events, requests of the Relay | connections do not overlap; every attempt and pause ends; a shutdown leaves nothing |
| Command confirmations, `desktop/command_confirmations.rs`, `crates/moe-command-broker/src/confirmation.rs` | a session per Room, pending, ready and resolved requests, grants | begin and end a session, wait, resolve, consume | what the owner allowed, and only that, is used once, in the session it was given for |
| Command execution and the Windows launcher, `desktop/command_execution_product.rs`, `command_toolchain_product.rs`, `command_helper_product.rs`, `crates/moe-windows-command-*`, `crates/moe-command-*`, `apps/command-helper` | the tools found at the start; the call being answered; what one launch has acquired | prepare, confirm, check again, launch, release | the host and the helper agree about a request; a launch leaves nothing behind silently |
| Provider adapters, `desktop/codex_app_server.rs`, `grok_cli.rs`, `claude_fable.rs`, `gemini_antigravity.rs` | a child process and its session | one text turn | the error says what is known of the turn; the turn returns |
| Browser bridge, `desktop/browser_bridge.rs` | an outbox in memory | queue, next, reply | each question gets one reply |
| Workspace broker, `crates/moe-workspace-broker` | none; the owner's folder | list, read, create, replace | a file holds a whole text of somebody, and only the owner or an AI that may write changes it |
| MCP server, git status broker, credential store, shell, frontend | little or none | reads and wrappers | see `components` in PROJECT.json |

### How they interact

The frontend calls Tauri commands; each runs on a blocking thread, so any two
commands may overlap.  A dispatch command reads the Room store, reserves its
record in the ledger, waits for the turn gate of its provider, runs the adapter
(a child process, seconds to minutes), appends the reply to the Room store,
completes the record and commits the continuation of the AI session.  The
conductor calls the same dispatcher once per worker.  While a Codex turn runs,
the adapter answers its tool calls: file tools go to the workspace broker,
command tools to the execution, which asks the confirmations and launches the
helper.  The MCP server and the browser bridge append to the same Room store from
threads of their own.  The stores do not call each other.  They share one file
protocol: write and sync a temporary file, remove the backup, rename the primary
to the backup, rename the temporary file to the primary.

### What is hard

* A turn cannot be taken back.  Between the moment the request may have reached
  the provider and the moment the reply is in the Room, every failure leaves an
  open outcome, and the process may die at any point of it.
* Two stores change in a sequence that no transaction covers: ledger, provider,
  Room, ledger, continuity.  A Room backup may be restored under a running call.
* Each file replacement has two renames; a failure or the end of the process
  between them leaves only a backup, and the next replacement starts from there.
* A start reads seven stores one after the other, writes some of them again to
  bring an older version up to date, and may be cut at any write.
* The bounded ledger forgets terminal records, and `begin` forgets them in memory
  before the write that forgets them on disk.
* Threads, deadlines and users race in the relay runtime, the confirmations and
  the launcher: state is read under a lock and used after it.

PROJECT.json lists every such hazard at its line with the properties about it.

## 2. Plan

Modelled and checked, in this order: persistence and dispatch (with proofs); the
relay runtime; the orchestration with the Stop; confirmations, execution, the
launcher and the provider turn; the Room store with the settings, profiles,
folders, images, continuity, MCP server and browser bridge as one desktop.

Proved since, in this order: the dispatcher's promises to its callers, the snapshot
store and its refinement, the relay runtime, the orchestration, the commands with
the turn around them, the stores of the desktop, its refinement of the Room
service, and what a resumed session is told (section 5).  Every safety property that a
passing run checks is now stated by a theorem; liveness and three statements that TLC
evaluates are not ("Model-checked only").

No module uses a recursive operator, so all of them are open to the prover.

## 3. Modules

The proofs about a module `M` are in `M_proofs`; `ProviderTurn_proofs` begins with
the lemmas about `CommandConfirmations`, `AiDispatch_proofs` with the theorems of
`AiDispatchLedger`; `RoomService_proofs` is about the refinement of `RoomService` by
`RoomDesktop`, and `RoomContext_proofs` about what its turns tell a resumed session.

Operators with a comment that begins with `Fault:` are not part of the model.
Each is one definition with a plausible mistake in it and shows, when it takes
the definition's place, that a property depends on that piece of the code.

### Stores and dispatch

**SnapshotFiles** is the file protocol as pure operators: `RemoveBackup`,
`MoveAside`, `Install` and `PutBack` are its steps, and `Replaced`, `Refused` and
`Cut` the results of a whole `persist()` that succeeded, failed, or died.  The
stores differ in one condition, the parameter `keepLast`: six of them remove the
backup only when there is a primary to replace it; `ai_dispatch_ledger`,
`room_ai_continuity` and `room_workspace` always remove it.

**SnapshotStore** runs that protocol one file operation at a time, each of which
may fail, with crashes and restarts.  **DurableCell** is what a store promises:
one value that changes as a whole or not at all.

**AiDispatchLedger** has the ledger's data (`records` and `active` of
`DispatchLedgerData`) and its files (`disk`).  The mutex is held across
`persist()`, so each operation is one action; a failing write is an action of its
own (`ReserveFails`, `TransitionFails`, and `GiveUp` for the callers'
`if mark_x().is_err() { finish_unknown() }`).  `LedgerSpec` lets any caller run
any operation in any order.  A record is its state; its identity is the key.  The
time stamp only picks the terminal record that is pruned, and here any may be.

**AiDispatch** extends the ledger with the calls.  `pc[c]` says how far the call
has come; the comments at `Steps` name the actions of each step, in the order of
the source.  The four providers share the flow.  What differs is a set each:
`UsesWorkspace` (a missing workspace or sandbox is found before delivery) and
`ReportsConfirmed` (the adapter can say that the turn has definitely failed).
`SendTurn` is the moment the request may reach the provider; `TurnUnknown` stands
for every error after it that proves nothing.  `replies` are the stable reply
messages in the Room; `ExportRooms` and `RestoreRooms` are the backup commands as
the dispatcher sees them.  `provider` and `sent` are observers: no guard but the
bound `MaxSent` reads them.  The Room store is an atomic cell here, which is what
`SnapshotStore` with `KeepLast = TRUE` is shown to implement.

### Relay

**RelayLifecycle** is the pure state machine of an account, **RelayLink** the
classes of what a peer does: the outcomes of linking, the errors of frames, the
requests of the Relay and which of them read the Room.  **RelayRuntime** has the
threads: a worker per connection or retry timer (`worker[g]` with its step, its
cancellation flag and the code it ends with), the queue of runtime events, the
pump with the event in its hands, and the caller that starts, stops and shuts
down.  The pump's three locks are three steps (`TakeEvent`, `JoinEnded`,
`ApplyEvent`), so everything that can come in between does.  A generation whose
thread, event and entry are gone may be used again: numbers are only compared.

### Orchestration

**ConductorOperation** validates plans and fills an operation with outcomes;
**OrchestrationLedger** has the records; **TurnCancellation** the two tables of
turns and the Stop that polls them in two steps.  **RoomOrchestration** is the
call: `pc` names its step from reading the source message to reporting the
result.  Each operation of the ledger persists before it changes memory, with the
guard that keeps a lone backup, so `records` stands for memory and file alike.
Workers go through the dispatcher's promise (`fate`): at most one turn per
delegation, found again by its reply, answered from its record afterwards.

### Commands

**CommandPolicy** classifies calls and says which tools a turn is offered;
`OfferedToolsAreTaken` states that adapter and broker agree.  **CommandToolchain**
is the search for Git, Node and npm (`LocatedIsTheFirstSafe` compares its loop
with its definition; an unsafe Git disables Node as well) and the bundled helper.
**CommandIsolation** is what a launch consists of and what both ends check;
`HelperAgrees` states that the helper accepts what the host prepares.  TLC
evaluates these three statements over all inputs of the instance.
**CommandConfirmations** is the registry and the sessions with one waiter;
**WindowsCommandLaunch** one launch with everything it acquires, in order, the
helper, the command and its descendants in one Job, the two deadlines and the
release; **CommandExecution** a call: checks of folder, session and tools before
the question, after it, and before the launch, each a step because no lock is
held in between.  **ProviderProcess** is the process tree of a provider and
**ProviderTurn** the turn around it all: the requests to the Codex App Server with
late, failing and missing replies, its tool calls, a Stop, and the three command
lines.  A call's folder and session are read one after the other (`FindFolder`,
`FindSession`), and either may change in between.

### The desktop

**RoomCatalog** is the operations on a snapshot of Rooms; **RoomSnapshots** what a
start makes of each store's two files and of an older version; **DesktopStores**
the stores of the running desktop, the start in its order
(`PrepareRooms`, `MigrateProfiles`, `CommitRooms`, `LoadSettings`) and the write
every command goes through, saved, refused or cut.  **RoomContext** is what a turn
tells the AI and which session it resumes; **BrowserBridge** the outbox;
**WorkspaceFolder** the owner's folder and the file tools.  **RoomDesktop** has the
commands and the turns.  **RoomService** is the abstract specification: what is
promised of Rooms, profiles and the owner's files when writes fail.
`RoomDesktop` implements it (`ImplementsRoomService`); while the desktop is down,
or has not come that far in its start, the mapped Rooms and profiles are those the
next start would serve, so that a refused or cut write, a crash and a start all
have to be steps the service allows.

## 4. Runs

| run | instance | result |
| --- | --- | --- |
| store_guarded | one store, four values, at most 3 interrupted replacements in a row | `MemoryIsDurable` and the refinement `ImplementsCell` hold |
| ledger_capacity | 3 dispatches, room for 2 records | `OwnedIsUndecided`, `MemoryIsOnDisk`, `EvidenceMovesForward` hold |
| dispatch | 2 calls, 2 messages to codex and one of them also to claude, room for all | the seven invariants hold, 1.8 million states up to the symmetry of the calls |
| dispatch_live | 2 calls, 2 messages, one gate | `CallsReturn` holds under fairness |
| dispatch_two_cuts | as dispatch_live, 2 interrupted replacements in a row | `AtMostOneTurn` is violated (finding 1) |
| dispatch_missing_reply | 2 calls, 1 message | `MissingReplyIsMissing` is violated (finding 2) |
| relay | one account, 4 generations, 2 request IDs with a limit of 1, 2 retries | four invariants and `AttemptsEnd`, `RetriesHappen`, `CallerReturns` hold, 0.2 million states |
| relay_stale | 3 generations, 1 retry | `StaleEventsDropped` is violated (finding 3) |
| orchestration | 2 source messages, room for 1 record, 2 workers, 5 kinds of plan | the safety properties and `CallReturns` hold, 1.7 million states |
| orchestration_stop | 1 message, 1 worker | `StopReachesATurn` is violated (finding 4) |
| commands | 1 Room, 2 folders, 2 sessions, 2 requests, 2 calls of one turn | the safety properties and `TurnReturns` hold, 0.4 million states |
| rooms | two installations under fifteen scenarios of commands | `StartServesTheSame`, `ResumedKnowsTheRest` and the refinement `ImplementsRoomService` hold, 0.4 million states |

### Bounds and why they are enough

Stores and dispatch:

* `Calls`: two.  The calls interact pairwise, through one record, one gate or one
  reply; with two of them each of these has a holder and a rival.
* `Ids`: `dispatch` has a pair that shares a gate but no record, and a pair that
  shares a message but neither; two calls on the same ID share everything.
  `ledger_capacity` has one more dispatch than records, so pruning, a full ledger
  and the return of a pruned ID all happen.
* `MaxCuts` counts consecutive replacements that left no primary.  The files have
  only three shapes (none, lone backup, primary with or without backup), so the
  third consecutive cut adds nothing to a store that keeps its backup.  The
  ledger is checked with 1, where its promises hold, and with 2, where they fail.
* `MaxSent` is 2: a second delivery is already the violation, and in the runs
  where the property holds the bound is never reached.
* The calls of `dispatch` are interchangeable: `Init`, `Next` and the invariants
  treat them alike, so TLC may identify states that differ by swapping them.
* Crashes, failed writes, exports and restores are not bounded.

Relay: `Spawn` waits until a number is left, and closing the runtime leaves one for
the pump (`Unused`); the code counts up and never runs out.  Four generations are the worker that ends, its last event, the worker of
the account and one that is started meanwhile.  One request more than the limit of
the connection is enough to reach the limit and to repeat an ID.

Orchestration: two operations over one record, so the ledger is full and prunes.
`MaxTurns` 2: a third turn of one kind needs a second one first, which is the
violation.  The paths for a registration that is refused and for a foreign message
under the ID of the final one cannot be reached under the gate of operations.

Commands: one request may be pending and one resolved, so both lists are full in
some histories.  Two folders and two sessions are what a change under a call takes;
no third activation begins.
At most one release of a launch fails.  A Stop is pressed between two steps of the
turn; one that is pressed while a call is answered is seen right after it, as in the
code.  The git status is read in the process and never launched.  What a launch
left behind is remembered until its outcome was taken.

Rooms: each scenario starts both installations and bounds what the owner orders,
the messages that are written and the faults (refused and cut writes, crashes,
damaged files), which count down together.  `MaxContext` 1 makes the context of a
turn shorter than the Room.  The scenarios are disjoint in the commands they offer
because the stores do not call each other; what does meet (messages, turns,
backups, damage, folders) is in one.  The longest has three messages, three orders
and a backup; MCP clients write beside turns and restores in another.
`StartServesTheSame` and `ResumedKnowsTheRest` were also checked once with
`MaxMessages` 6 and MCP clients, turns, backups and damage in one scenario of two
written messages, three orders and two faults (3.3 million states).  Two interrupted
writes in a row are taken
only of stores that keep and read a lone backup (`MayFail`): of the others
finding 1 shows what happens.  A turn's reads of profile, folder, context and
continuation are one step.  Creating a file is one step with its outcomes;
replacing one is two, with the owner's edits in between.  A cut or refused command
may find an unusable file afterwards; then the start stops, and so does the run
(`CHECK_DEADLOCK FALSE`).

Deadlock is checked in all other runs.

### Fairness

* `dispatch_live`: `WF` on the steps of each call.  A command runs on a thread of
  its own, file operations return, and each adapter ends its turn by a timeout.  A
  call that waits for a gate is disabled until the holder drops it.  Weak fairness
  is enough although `std::sync::Mutex` promises no order: between two restarts
  each dispatch comes to its gate at most once, because the ledger answers the
  later calls without it, so the rivals of a waiter are finite.
* `relay`: `WF` on each worker, the pump and the caller.  Each is a thread; a
  worker's reads and writes end at a deadline or at its cancellation, and its timer
  elapses.
* `orchestration`: `WF` on the steps of the call: every turn has a timeout.
* `commands`: `WF` on the turn (every wait of the turn, of the confirmation and of
  the launch has a deadline) and on terminated processes to go away.

No command has to be made, and no crash, restore, decision or reply has to
happen.  The calls may return by any path, also the failing ones: the property is
that none hangs.  `TurnReturns` has one exception, which it names: a command line
that started a process before it was attached to its Job, because the end of the
output is then up to that process (`claude_fable.rs:208`, a join without limit).

### Findings

1. `ai_dispatch_ledger.rs:195` removes the backup even when it is the only copy.
   After one interrupted replacement (a crash or a failing rename between the two
   renames) the ledger lives in the backup alone; a second one loses it, the next
   start loads an empty ledger, and a delivered message is dispatched again.
   ADR 0027 (line 48) says a crash cannot silently turn into a duplicate turn.
   `room_source.rs:150` has the guard that is missing; with it (`KeepLast = TRUE`)
   `store_guarded` shows the loss cannot happen.
2. A dispatch looks for the saved reply before it asks the ledger
   (`ai_dispatch.rs:257`, `:1192`).  A reply that another call saves in between is
   reported as unavailable although ADR 0027 (line 35) makes a reply in the Room
   authoritative.  Nothing is sent twice; the answer is wrong.
3. `relay_runtime.rs:433` checks the generation of an event, and `apply_event`
   applies it later under another lock.  A stop and start in between gives the old
   event to the new connection, although ADR 0006 (line 20) says it is dropped.
   The commands that start and stop are not published yet.
4. The planning turn stays registered until the operation ends
   (`room_orchestration.rs:347`).  A Stop pressed while workers wait for their
   gates raises that flag, counts as delivered and signals nothing that runs.

Seen while modelling, without a run of their own:

* ADR 0020 leaves Codex's own replies out of a resumed context "because they
  already exist in the native thread".  They do not when the turn of one message
  failed, a later one succeeded in a thread, and the first is retried in a fresh
  thread: the third message resumes the second thread, which never saw the reply
  to the second.  `ResumedKnowsTheRest` is therefore about messages by others.
* An MCP client that repeats a request after a restored backup took its message away
  puts the same ID back behind newer messages.  Were such a message the source of a
  turn, the session that knows it would not be told the newer messages before it: the
  command to dispatch takes any message of a human (`ai_dispatch.rs:1398`).  The window
  never gets there, as it makes a new ID for every message, repeats one only when its
  write failed, and dispatches only what it has just written (`useRooms.ts:1480`,
  `:1510`); `CanAsk` is guarded accordingly.
* What a session knows may be told again after its continuation could not be stored or
  a backup was restored.  This costs only context, and no property is about it.
* ADR 0038 (lines 224-226) says that switching Rooms ends the old command
  sessions; `ensure_room_session` keeps those of other Rooms.
* A full ledger of dispatches prunes terminal records, so an old message whose
  reply is gone may be dispatched again, and 512 undecided ones stop every new
  dispatch; the ADR accepts both.
* A Room deleted with a question in the browser bridge blocks the head of the
  outbox; a repeated answer is told "not found" instead of "duplicate".
* Continuity and workspaces refuse every start when their primary is damaged, with
  an intact backup beside it; profiles and appearance do not look for a backup
  when the primary is missing.
* A write of the profiles that is cut between its renames leaves a lone backup nobody
  reads: the profiles are forgotten at the next start, which may come any number of
  crashes later (`KeepProfiles` of `RoomService`).
* A write of the backup directory that sets a damaged primary aside and then fails
  leaves a damaged lone backup, and the next start stops.
* An image that was cut while it was stored refuses every later image with the
  same content.

## 5. Proofs

Each theorem holds for every value of the constants their `ASSUME` allows: any
number of calls, messages, dispatches, generations, workers, requests, sessions and
any capacity.  A proof module has a lemma for each operator that several actions use
(a file replacement, a transition of the ledger, a decision in the registry), then
one step per action.  No invariant below but the types is inductive by itself; what
was added to make it so says why the code is right.

### The snapshot store

* `StoreTypeCorrect`, without an assumption.
* `MemoryDurable` and `StoreIsACell`, for a store that keeps its lone backup
  (`KeepLast`; finding 1 is what happens without).  The invariant `ContentInv` says
  that up to the last rename of a write a restart would read what memory serves, and
  after it the value that is being written.  `StoreIsACell` maps the readable value to the cell of `DurableCell`: one
  file operation of each write installs the new value, and every other one, failing
  ones, rollbacks and crashes included, is a stutter.

### The dispatcher and its ledger

Without an assumption:

* `LedgerTypeCorrect`, `OwnedUndecided`, `DispatchTypeCorrect`.
* `DispatchRefinesLedger`: every step of the dispatcher is an operation of the
  ledger that `LedgerSpec` allows, or leaves the ledger alone.  The refinement is
  the identity on the ledger's variables, so the ledger's theorems carry over.
* `CallsOwnRecords`: past `begin` a call owns its record alone, in the state its
  next operation expects.  The inductive invariant `CallInv` adds the types and
  that a call past `find` has a target; `OwnedIsUndecided` is needed with it,
  because an owned record that had ended would be moved by nobody.
* `OwnersLive`: the converse, an owned record has a call that will release it.

With `MaxCuts <= 1` (no two consecutive interrupted replacements; finding 1 shows
that the assumption is needed):

* `MemoryOnDisk` and `EvidenceForward`.  The invariant is `MemoryIsOnDisk` with
  `LoneBackupIsCounted`: without the count of cuts the step that removes the last
  backup could not be excluded.

With `MaxCuts <= 1` and `RoomForAll` (the ledger has room for all dispatches, so
nothing is pruned; the accepted limit above shows that this one is needed):

* `OneTurn`: at most one external turn per message and participant.
* `TurnsOnRecord`: a delivered turn is on disk.  The invariant `TurnInv` says that
  a delivered turn is on record both in memory and in what a restart would find,
  and that a call about to send has not sent; `CallInv` and the disk invariant
  are used with it.
* `TurnsNotForgotten`: a delivered turn without a reply is listed as unknown.
  `HonestInv` adds what memory and file say of a turn the provider has refused,
  answered or still runs, for each step of the call that owns it: a record that was
  wrongly "failed" or "completed" on either side would come back with a restart.
* `FailuresConfirmed`: what was reported as failed was not taken.  `SettledInv` adds
  that after such a report nobody delivers the dispatch any more.

### The relay runtime

Without an assumption: `RuntimeTypeCorrect`, `ConnectionsDoNotOverlap`,
`RequestsReadOnce`, `ShutdownIsComplete`, `ServiceIsHonest`.  The invariant
`RuntimeInv` says who holds a thread: `ThreadsAreHeld` (a thread that was not
joined is the task, or in the hands of the pump or of the caller), `CallerOwns` and
`PumpHolds` (what these two have in their hands at each of their steps), and
`EndedAreDone` (a worker whose last event is in the queue or
with the pump is past its connection).  Without
them a start could come between the pump's three locks while the worker before it
still holds the link.  `ReadsAreSeen` ties the reads of a Room to the IDs the
connection has seen.

### The orchestration

Without an assumption: `OrchestrationTypeCorrect`, `ConductorAskedOnce`,
`WorkersRecorded`, `CompletedOperationsAnswered`, `ConductorHearsTheTruth`, and the
action property `FinalMessagesReported`.  The invariant `OrchestrationInv` relates
the step of the call to the stage of its record, the turns made so far to that stage
(`TurnsAreOnRecord`: a turn is made only under a stage that forbids the next one), the
outcomes in hand to the fate of the workers, and the final message to completion.

### Confirmations, commands and the turn

Without an assumption: `TurnTypeCorrect`, `PreflightIsHonest`,
`RegistryFollowsSessions`, `InstallsAreAllowed`, `LaunchesLeaveNothing`, and the
action property `DecisionsHold`.  `TurnInvariant` proves all of `TurnInv`:

* `ConfirmInv`: sessions and requests are numbered
  below the counters, the registry is of active sessions, what is ready was allowed
  by the owner, and a waiter whose request was answered or whose session ended has
  been told so.  Every step of the owner and of the waiter keeps it.
* the waiter asks for the session and package of the call that is being answered
  (`AsksForTheCall`);
* `InstallsArePaidFor`: the approvals of a scope are at least the launches made, the
  one in hand and the ones that are ready together, unless one was for the whole
  session.  The bound of `InstallsWereAllowed` alone is not inductive: an
  authorization that is ready or taken and not yet used has to be counted.  It rests
  on `SessionsDoNotReturn`: the number of a session is never used again, so an
  approval cannot pay in a later session.
* `LaunchesClean`: something is left only behind a launch that says so, a process
  outside of the Job is the helper, and only at the steps that still have to deal
  with it.  (TLC checked `TurnInv` on the `commands` instance as well.)

### The desktop

`DesktopHoldsTogether` and `StartIsFaithful` (`StartServesTheSame`), for any
installations, Rooms, folders, scenarios of commands and faults, under two
hypotheses:

* `MarksAreNoValues`: the constants `NoFile` and `Damaged`, which stand for a missing
  and for a damaged file, are no snapshot, function or setting of any store.
* `DamageIsAlone`: a scenario that may damage a file and have another fault as well
  does not write the appearance or the backup directory.  These two stores do
  not set a damaged primary aside; a write that is refused or cut then leaves the
  damaged file as the only backup ("Seen while modelling"), and the next start has the
  default, or none.  The Rooms and the conductor settings set it aside and are not
  restricted.

The assumptions of `RoomDesktop` on `Installations` say that no file is damaged and no
image named before the first start.  The invariant `DesktopInv` has what a start relies on and no
single write shows:

* `StoresOK`: a store with a damaged primary has an intact backup, so every step of
  every later write leaves something to read; `FaultsOK`: the other stores are intact
  while a write may still fail.
* `RoomsServed`: the Rooms are a prepared snapshot from the first step of the start
  on, and preparing it again changes nothing (`UpToDateIsPrepared`).  Until
  `CommitRooms` they are what the start made of the file, after it they are the
  file.  Each operation of the catalog keeps that (`AppendKeeps` to `DeleteKeeps`): one owner
  under the present ID, the bundled participants and the bundled Room.
* `SettingsServed`: a setting is what its files say, from the moment it is loaded.
* `NoImages`: until an image is whole, no file, served Room, backup or turn names one.
  The backups are needed, because a restore brings old messages back.

TLC checked `DesktopInv` on the `rooms` instance as well.

`RoomServiceHolds` is the refinement `ImplementsRoomService`, under the same two
hypotheses and two assumptions on the constants: `OwnerFoldersType`, and
`RoomsAreOfOneOwner`, that the two Room files of an installation bring its profiles up
to the same state and that the owner before an ID change was not called Codex.  The
code justifies it: an installation has one owner, whose profile moves to the present
ID, and the backup of its Rooms is an earlier state of the same Rooms.

The mapping serves Rooms and profiles from memory when they are loaded, and otherwise
what the next start would make of the files.  `ServiceInvariant` proves what it needs:

* `RoomsView`, from `RoomsServed`: memory or files, the mapped Rooms are at every
  moment what a start makes of the file it reads.  So a crash, a start and each write
  but the one that was ordered are stutters (`RoomsWritten` and `RoomFilesWritten` take
  a write through saved, refused and cut).  A damaged primary is the exception: then the
  backup is served, one write older (`RollBack`).
* `ProfilesInv`: whichever Room file is read next, the migration gives the profiles that
  are served, and they are loaded whenever the Rooms are.  Without it a restart that
  falls back to the backup of the Rooms could move the owner's profile elsewhere.
* `FoldersInv`: a file of a folder is being replaced only in a turn with write access
  to that folder.

Each operation of the catalog is then a step of the service: `AppendIsPost`,
`CreateIsOpen`, `RenameIsArrange`, `JoinIsArrange`, `LeaveIsArrange`, `DeleteIsDelete`; a
tool call changes at most the one file it names (`WritesOne`).  TLC checked
`ProfilesInv`, `FoldersInv` and `RoomsView` on the `rooms` instance before.

`ResumedTurnsKnow` is `ResumedKnowsTheRest`, under the two hypotheses above; MCP
clients and the browser extension may write beside the turns.  The source of a turn is
a message of the window (`CanAsk`, `FromWindow`), because nobody but the window
dispatches, and it dispatches only what it has written ("Seen while modelling").

The assumption `WindowMessagesAreNew` says of an installation that no session is stored
before the first start, that each message names its Room, and that none has an ID the
window will make.  The code justifies it: the model begins where the AIs' memory does,
and the window's IDs are random UUIDs.

The property compares a session with the Rooms of now, but a restored backup or a
fallback to the backup file takes the Rooms back, and a cursor stored before it may
then be of another version.  `HistoryInv` (`HistoryHolds`) is therefore about
all versions of the Rooms that may still be served - the one of now, that of the
backup file and the exported ones:

* `OnePast`: any two of them have, before each message of the window, the same
  messages.  Of a reply or a message of an MCP client this does not hold: it may be
  saved a second time after its first copy was taken away, behind newer messages, with
  the same ID.
* `ContinuationOK`: the cursor stored with a session is such a message, and in each
  version that has it the session was told what others wrote up to it.
* `TurnKnows`: the same of a turn's source, with what the turn tells added while the AI
  is still answering.
* a new message of the window has a new ID, so it is no stored cursor and no source
  of the turn that runs.

`AskFollows` is the step itself: what lies between cursor and source is what the plan
tells.  TLC checked `HistoryInv` on the `rooms` instance before.

### Model-checked only

* Liveness, for which the prover has no rules (ENABLED and fairness): `CallsReturn`,
  `AttemptsEnd`, `RetriesHappen`, `CallerReturns`, `CallReturns`, `TurnReturns`.
* The statements about all inputs `OfferedToolsAreTaken`, `LocatedIsTheFirstSafe` and
  `HelperAgrees`, which TLC evaluates.

`MissingReplyIsMissing`, `StaleEventsDropped` and `StopReachesATurn` are false
(findings 2 to 4).

## 6. Not modelled

* The frontend: React state in TypeScript.  The models let the window call any
  command at any time, which includes whatever its hooks do, with a new ID for each
  message it writes; the races of its own hydration (`useRooms.ts`) are not followed.
* Panics and poisoned locks: no code path of the modelled functions panics by
  design, and a poisoned lock answers every later call with an error.
* A failing `TerminateJobObject` on the launcher's own Job, whose result the code does
  not look at (`windows.rs:881`): the launcher's processes end when it is called.
* Two activations of a command session at once: the only caller of
  `ensure_room_session` is one synchronous command, which runs on the main thread.
* What is inside Windows, TLS, HTTP and the provider programs: they appear as the
  outcomes the code tells apart.  Codex's own process tree is not followed; its
  turn never waits for it.  Terminated processes go together.
* Files that are verified and used later (helper, tools, npm, owner, package.json)
  appear as a check that may fail at any time, not as contents.
* The wording of prompts, arguments, parsing of replies, the report of the git
  status, connection status probes, clocks and fonts.
* The HTTP side of the browser bridge and of the MCP server with their tokens, the
  presence of the extension, the listing tools of MCP; pairing with a Relay, which
  the product does not call; the credential manager.
* Two of the three bundled Rooms and the welcome messages; the display names of
  participants, time stamps and the order of Rooms.
* A damaged file of profiles, workspaces or continuity; what the owner changes in a
  folder while the desktop is down; more than one image and one open dialog.
* The spikes, which are research outside the product.
