# TLA+ models of the SoundForge core

SoundForge keeps a *project* (a document with a signal graph, a venue, scenes and
presets) behind a C interface, edits it from a control thread or from a queue-runner
thread, compiles its signal graph into render plans, and renders those from a tick
or a pacer thread. The models here are about the part of this that tests reach
worst: the lock-free hand-off of plans and commands, the threads that share a
project, the life of an engine, the graph and the document that long sequences of edits,
migrations and readings leave, the file that failing saves and crashes leave, and the
coroutines of the app that share the open project.

Paths below are relative to the repository. `PROJECT.json` has the machine-readable
inventory: components, runs, mutants, the lines each definition stands for, findings,
hazards and theorems.

    tlc -workers 2 -config SnapshotStore.cfg MCSnapshotStore.tla
    tlapm SnapshotStoreProofs.tla

## 1. Inventory

| Component | State | Operations | What makes it correct |
|---|---|---|---|
| Plan snapshot store (`native/src/core/snapshot.*`) | four slots of (state, seq, plan), `next_seq_`, `published_seq_`, `held_` | `publish` (runner thread), `acquire`/`release` (tick thread) | the plan rendered is whole, never goes back, is no older than what there was when its acquire began unless a publication ends meanwhile; the newest plan survives failed compiles; publishing never spins |
| Command queue (`native/src/core/command_queue.cpp`) | ring of 256 commands, 32-bit `head`/`tail`, `seq_next` | `enqueue` (producer), `dequeue` (consumer), `depth` | bounded FIFO with dense numbers; the plain-memory slots are never raced on |
| Queue runner (`command_queue_thread.cpp`, `apply_batch` in `command_queue.cpp`) | `runnerState` of the project, thread, batch, last report, observer | `create`, `start`, `stop`, `join`, `destroy`, the drain loop | one mutating thread at a time; the STOP barrier; order and completeness of what is applied; the engine's plan follows the document |
| Audio engine (`native/src/audio/audio_engine.cpp`) | `state`, pacer flags and thread, plan store, `plan_valid`, its own runner | `create`, `start` (with rollbacks), `tick`, `stop`, `join`, `destroy`, pacer loop, runner's observer | one render lane; the store and the project outlive their users; calls return |
| Signal graph (`native/src/graph/graph.cpp`, `graph_abi.cpp`) | nodes with kind and mixer, edges with ports | add/remove node and edge, set mixer, set preset | routing rules and acyclicity under any edits |
| Routing and rendering (`routing.cpp`, `render_plan.cpp`, `dsp_render.cpp`) | none: functions of the graph | topological order, mixer report, compile and render a plan | the order is topological; report and sound agree; solo keeps what feeds and follows a soloed node |
| Project lifecycle and files (`project.cpp`) | document, handle, `runnerState`, `audioEngine` | create, open, save, destroy, document setters | no destruction under a live user; the file is always a whole document that was saved; the original of a migrated one is kept |
| Schema, JSON codec, migration (`schema.cpp`, `json_codec.cpp`, `migration.cpp`) | none | validate, encode and decode, migrate 0 → 1 → 2 | what is written can be read; old documents open and keep what they have; migrating settles; no edit brings an error |
| Diagnostics (`diagnostics.cpp`) | log ring, error stores | log, flush, last error | lines survive a failed flush |
| Geometry, UUID, version, DSP kernels, mixing law, true-peak meter | meter: a filter window | formulas, sample loops | numerical |
| App session (`ProjectViewModel.kt` and the editors' view models) | handle, UI state, mutex; per editor a mirror of the handle | create, open, edit, save, refresh, close; bind, commit | the handle is of a live project; what is shown is what is there; editors edit the open project |
| Python mirror (`python/**`), stub engines, vendored JSON | — | — | — |

How they interact:

* A *producer* enqueues commands; the *runner's thread* dequeues them in batches of 64,
  applies them to the document, and calls the engine's observer, which publishes a new
  plan. The *tick* (host thread, or the engine's pacer) acquires the newest plan and
  renders it. Commands go one way, plans the other, both without a lock.
* `runnerState` belongs to the project, not to a handle. The synchronous mutators, every
  runner handle, the engine's gate and `sf_project_destroy` all look at it.
* The app calls the C interface from coroutines that share one mutex; the main thread renews the
  editors' mirrors from the UI state, and closes the project when the view models are cleared.
* By contract (C1–C8 in `sf_command_queue.h`) there is one producer, one consumer, one
  control thread for lifecycle calls, and one tick thread. The models assume exactly that.

Hard behaviours: non-atomic scans over atomic slots; compare-exchanges lost to the other
side; index words that wrap; checks of `runnerState` that reserve nothing; a one-shot
state machine next to retried starts; rollbacks seen half done; exceptions in the middle
of a batch; a stop that races a batch; documents of any age and state of repair; a handle that
is replaced while others wait with the old one. `PROJECT.json` lists each as a hazard at its line,
with the properties that are for it.

## 2. Modules

| Module | Models | Status |
|---|---|---|
| `SnapshotStore` | the plan snapshot store, one atomic access per step | checked, safety proved |
| `PlanRegister` | what the store promises: a register of plans | implemented by `SnapshotStore` (checked and proved) |
| `SnapshotStoreProofs` | inductive invariants and refinement of the store | proved |
| `CommandRing` | the Lamport ring, its indices scaled to `Words` values, slot copies in two halves | checked, safety proved |
| `CommandFifo` | what the ring promises: a bounded FIFO with dense numbers | implemented by `CommandRing` (checked and proved) |
| `CommandRingProofs` | remainders, inductive invariant and refinement of the ring | proved |
| `QueueRunner` | runner handles, drain loop, `apply_batch`, control thread, busy guard | checked, safety proved |
| `QueueRunnerProofs` | inductive invariant of the runners | proved |
| `AudioEngine` | life of an engine next to its runner, pacer, tick, a standalone runner and project destruction | checked, safety proved |
| `AudioEngineProofs` | inductive invariant of the engine | proved |
| `Reachability` | the depth-first walks, as sets of nodes | used by the graph and the document format |
| `SignalGraph` | graph mutators, topological order, solo and mute, report and render | checked, safety proved |
| `SignalGraphProofs` | inductive invariant of the graph; what its recursive functions compute | proved |
| `ProjectFile` | saving and opening a document, its `.tmp` and its backup, with failing calls, crashes and power failures | checked, safety proved |
| `ProjectFileProofs` | inductive invariant of the file | proved |
| `DocumentFormat` | the JSON text of a project: migration, validation, encoding and decoding, as operators | checked and proved about through `ProjectDocument` |
| `ProjectDocument` | a project that is made or read, edited by the setters and the `sf_graph_*` calls, written and read again | checked, safety proved |
| `ProjectDocumentProofs` | inductive invariant of the document; what migration, reading and writing keep | proved |
| `ProjectSession` | the app's project view model and its editors: coroutines, mutex, mirrors, closing | checked, safety proved |
| `ProjectSessionProofs` | inductive invariants of the session | proved |

`MC<module>` extends its module for TLC; each `.cfg` gives the constants of one instance.
`QueueRunner` instances `CommandFifo` for its queue, so it is built on what `CommandRing` is
shown to implement. It leaves to `SnapshotStore` how a plan is handed over, and `AudioEngine`
leaves to both what happens inside a batch or a publication. `ProjectDocument` is composed of
`DocumentFormat` and an instance of `SignalGraph`, whose mutators are the graph part of its
calls; `ProjectFile` has what the texts of `ProjectDocument` become on a disk.

### Correspondence with the code

**SnapshotStore.** `state`, `seq`, `plan` are the fields of `Slot`; `nextSeq`, `publishedSeq`,
`spins`, `held`, `heldSeq` are the members of the store. `wpc` and `rpc` are the places of the
writer in `publish`/`claim_slot` and of the reader in `acquire`; a load, store or
compare-exchange on memory that the other thread writes is one action, so neither scan is a
snapshot. A step on memory only its own thread writes is merged with a neighbour. A plan is
the number of the publication it was compiled for. `CompileFail` overwrites the slot and
`RestoreEmpty` gives it back, as the code does. `Release` is the reader's last act: the store
that an out-of-memory rollback keeps and reuses after `release` is not here (`AudioEngine` has
it, through `hasPlan`). `atStart` and `seqStored` are history, read by one property only.

**CommandRing.** `head`, `tail`, `slots` are those of the queue; `ppc`/`cpc` the places in
`enqueue`/`dequeue`. A command is copied in two steps (its number, then what it says), so a race
on a slot would show as a mixed command. `& kCmdMask` is `% Capacity`, unsigned arithmetic is
`% Words`. `sf_cmd_queue_depth` is left out: a diagnostic nothing decides by.

**QueueRunner.** The document is the sequence of mutations made to it: numbers of queued
commands, or `Direct` for a synchronous call, which has two steps (guard, then mutation). Each of
`run_loop`'s phases (top, fetch of one command, apply of the batch, epilogue) is an action.
Whether the graph accepts a mutation is open, and every place that can throw may throw: the
document keeps what was applied, `*applied` stays 0; outside the fences of the drain loop the
thread ends, before or after the report or the retarget of the command it was at. `plan` records
which document and output the last publication was of; `missed` and `clean` are history.

**AudioEngine.** `cpc` names the steps of a call that other threads can see half done (`start`
with its rollbacks, `join`, `destroy`). A runner's thread is in its loop, in a batch, or
publishing; the pacer checks or renders; a tick has its two checks and its render. `store` counts
the store objects so that a replacement is visible. `EagerTicks` lets the host tick before
`start` has returned.

**SignalGraph.** One action per mutator, guards in the order of the code. Values of gain, pan,
name and preset are left out; a refusal is no step. `Reached` is the set a depth-first walk
visits, written as the intersection of the closed sets that contain its start, which needs no
recursion and can be proved about; `Order` and `Rendered` are recursive functions.
`Active`/`Excluded` follow the code's two walks with one `seen` set. Edges are known by ends and
ports, ports by nothing.

**DocumentFormat.** A text is its version, the form of each of its *parts*, and the project that
its sound parts describe. A part stands for fields that the code treats alike (all of
`project.createdAt` … `notes`, the ten collections, the fields of an element), and is as it should
be, absent, of another JSON type, or of a content that is refused; in a list it is one element
besides those of the body. So a migration is a function on forms that says which parts it leaves
sound, what it fills in and what it throws at (`value()` throws at a value of another type, which
makes the caller refuse the text), and validation is that no part is broken, with the edges of the
body followed by identity. `part[Root]` stands for everything that the byte and depth gate or the
parser refuses. Rooms and points have one axis. Time stamps, gains, pans and labels are sound or
are broken with their part.

**ProjectDocument.** One handle; each call is an action, with `user_audit` and its cap. `edges` of
the graph is a sequence, since the document has it as one and edges can be parallel. `origin` says
where the text in hand comes from; `legacy` keeps the problems that a foreign document was read
with, `saved` what the text was written from. A name is one of `given`, `malformed` (accepted, not
UTF-8), `blank` and `empty`. No runner is there, so the busy guards pass. The texts that come in
(`Foreign`) are any that are described rightly: `Fits` says that a part called sound agrees with the
body (a room that validates is not empty, a complete geometry is finite), `FormsFit` that
nothing is found below a key that is not there. `NotFinite` stands for NaN and the infinities,
which no comparison of the code lets through as a size or a place: a negative number.

**ProjectSession.** A job is a coroutine on the I/O dispatcher: launched by the main thread, on its
way to `nativeMutex` or suspended at it (`waiting`, in no order), inside, done. As a coroutine inside
has the mutex to its end and touches nothing that the main thread writes except a mirror, which it
reads, its work is one action. `mirror` follows `state` by `Collect`, which may be late and skips
values, as a `StateFlow` does. `scopes` are the view models that are not cleared: their store clears
them in the order of creation, the project's first (`NavGraph.kt:41-49`), on a main thread that
does nothing else meanwhile, and cancels the coroutines of a view model just before. Cancellation is
cooperative (`Cancel`): it ends the coroutines that have not begun or are suspended at the mutex, and
any that a thread is running before `withLock` may go on. Such a one takes the mutex if it is free,
since `lock()` looks at the cancellation only when it has to suspend; when it has to, it ends
(`GiveUp`), and so it does at the file operation of an open or a save, which suspends (`EndAtFile`). A
create, an edit, a refresh or a commit has no such place and does its work. A document is the number
of its edits. The native calls inside a create (the dimensions of a preset room) are one
with it.

**ProjectFile.** One document and the projects opened from it and saved to it; the app calls under
one mutex, so calls do not overlap, but a crash falls between any two steps of one. A file is the
version it is written in, which state of the document it has, the old version it was migrated from,
and whether its bytes are all there and on the disk. `older` is the set of files that the
document's name may stand for after a power failure, since `write_file_atomic` syncs the file and
not the directory: after one, a save that said `SF_OK` may be undone, but never half done. `data` is
the local of the call in progress. The rest is history: `saved` is every file that a save put under
the name, `acked` the last of them that said `SF_OK` or was cut off behind its rename, which no power
failure puts back to an older one; `undone` says that one has taken that file from the disk, until
the next save returns;
`lossy` that a flush failed; `original` is the document at the start, `unsaved` says that its last
copy failed, and `unkept` that a power failure tore a copy that had been made.
Contents are numbers: parsing and validation either succeed or refuse, a torn file is refused.
Handles with an engine or a running runner are refused at the door and make no step here. Several
threads saving to one path would share one `.tmp`; the app's mutex excludes that and so does the
model.

## 3. Runs

Passing runs (times with two workers):

| Run | Bounds | Distinct states | Shows |
|---|---|---|---|
| `snapshot` | 4 slots, 4 passes, 6 publications | 97,918 | ownership of slots, intact, fresh and ever newer plans, at most two passes, `ImplementsRegister`, every publication reaches the reader |
| `ring` | 4 slots, words of 8 values starting at 6, 6 accepted commands, 2 kinds | 22,908 | no slot race, `ImplementsFifo`, what is accepted is delivered |
| `runner` | 1 handle, queue of 3, batches of 2, 3 commands, 1 direct call | 201,962 | STOP barrier, order and completeness, plan follows document, termination |
| `shared_runners` | 2 handles, queue of 2, 2 commands, 2 direct calls | 263,182 | one mutating thread, none in its loop has its project or handle freed |
| `engine` | 2 failed starts, ticks after `start` returned | 3,456 | one render lane, document, project and store not touched under a user, calls return |
| `files` | 2 handles, 4 states of a document, 2 crashes or power failures | 802,466 | the file is a whole one that was saved, and the last one unless a power failure took that back; an old document is not lost by opening and saving it while its copy succeeded and no power failure tore it |
| `documents` | 2 nodes, 2 edges, 2 edits, some 300 foreign texts of versions −1 to 3, an audit log of 3 | 198,237 | no edit brings an error or geometry outside the room, saved texts reopen, old versions open and keep what they had, migrating settles |
| `session` | 2 editors, 4 coroutines, 2 projects | 416,914 | the handle is live, coroutines cancelled too late included, the quiet screen is true, editors catch up, closing ends |
| `graph` | 4 ids, sources, buses and outputs, 4 edges, 1 soloed, 1 muted | 119,472 | routing rules, acyclic, order topological, report agrees with render, solo of one node |

Runs in which a statement of the repository does not hold of the code (details and quotes in
`PROJECT.json`, "findings"):

| Run | Property | What happens |
|---|---|---|
| `graph_solo` | `SoloKeepsEveryPath` | with two soloed nodes on one path, what feeds the lower one beside the upper one is silenced |
| `save_full_disk` | `SaveIsAtomic` | a flush fails behind a full count of `fwrite`; the truncated `.tmp` replaces the good document and the save says `SF_OK` |
| `session_stale_handle` | `CommitIsOnOpenProject` | a commit that waited for the mutex while the project was replaced or closed edits the handle that was |

### Observed while modelling

Also met, and not among the runs. Where a module states what fails, TLC finds it with the instance
that is given, or with that of the module's passing run:

* `write_file_atomic` syncs no directory, so a save that said `SF_OK` may be taken back by a power
  failure (`project.cpp:72`), although "Durable, atomic persistence lives in the native core"
  (`FileStorageRepository.kt:3`): `SaveIsDurable` of `ProjectFile`, with one handle, two states of a
  document and one power failure.
* `copy_file` syncs nothing (`project.cpp:80-87`) and the save that overwrites the original does, so a
  power failure can leave the new document and a torn backup although every call succeeded. The
  backup is promised "before overwrite" (`docs/PLAN_G0.md:384`): `BackupOutlivesOverwrite`, with the same
  instance.
* A `create()` that a thread is running before `withLock` while its view model is cleared takes the
  mutex behind `close()` and sets the handle (`ProjectViewModel.kt:105-113`, `:294-301`); that project
  is never destroyed, although "`close()` joins in-flight work" (`docs/RELEASE_NOTES_G1.md:101`) and
  `onCleared()` frees (`docs/PLAN_G0.md:513`): `CloseLeavesNone` of `ProjectSession`, with one editor,
  two projects and three coroutines.
* An exception in the middle of a batch makes `apply_batch` report 0 applied commands
  (`command_queue.cpp:230-236`), so the plan of what was applied is not published until the next
  batch (`PlanFollowsDocument` of `QueueRunner` does not hold).
* After a failed pacer spawn `runnerState` is STOPPED, and every later start is refused
  (`audio_engine.cpp:436`; `FailedStartCanBeRetried` of `AudioEngine`); a tick that overlaps such a
  start renders in PACE mode, since `pacer_active` is cleared before the state leaves RUNNING
  (`audio_engine.cpp:505`; `TickSeesPacer`).
* A reader that holds nothing and loses its compare-exchange to the writer renders one silent tick
  although plans are READY, against the comment at `snapshot.cpp:228`.
* `sf_audio_engine_destroy` of an engine that never started, beside a running standalone runner,
  stops that runner (`audio_engine.cpp:361`), is then refused the destruction of its own (`:364`), and
  leaves that handle behind.
* The validator lets a node pass whose id is not a string (`schema.cpp:215`), which
  `doc_from_json` then throws at: `sf_validate_project_json` accepts what
  `sf_project_from_json` refuses.
* `sf_migrate_json` believes its caller: from 1 to 2 on a document of version 0 labels it 2 without
  the first step.
* The health check says that the audit log is "auto-sorted on save" (`project.cpp:468`); a save does
  not sort. Only `user_audit` keeps the log to its cap; saves and migrations push past it.
* A document that is written is not held to the 8 MiB that reading one is.
* The ports of edges and `signalGraph.mixers` are not written; parallel edges that differ in ports
  come back alike.
* Creating or opening over an open project drops the old handle without destroying it
  (`ProjectViewModel.kt:113`). After an error a successful save shows a Ready state with handle 0
  (`:278`), and after any failed edit the editors' mirrors are 0 until the next good operation,
  although the project is open.

### Bounds, and why they are enough

* `snapshot`: the slots are the code's four. Six publications go round them with a failed
  compile, a reclaimed READY slot and a held one at the same time; nine publications (two million
  states) gave the same verdicts. `MaxPasses` is 4 for 1024: at most two passes are ever made.
  With three slots `NewestPlanKept`, `AtMostTwoPasses` and `AcquireIsFresh` fail, so
  the run does tell four slots from three. The comment in `snapshot.hpp` counts owners at one
  instant; since the scans are not instants the count alone does not suffice. What does is that
  the reader can take at most two of the writer's candidates during one claim.
* `ring`: starting at 6 of 8, both indices wrap within a run, with the ring full, empty and in
  between. Only `Words % Capacity = 0` and `Words > Capacity` matter for the arithmetic.
* `runner`, `shared_runners`: the queue is longer than a batch in one and not in the other; a
  STOP falls at the head, in the middle and at the end of a batch and behind it. Two handles and
  three commands together are a million states, so two runs share the work. Two handles suffice
  for `SoleOwner`: it is about pairs.
* `engine`: a failed start of each kind, or the same twice, then a start that works or a destroy.
* `files`: four states are the original and three saves, so that a save by one handle falls between
  the open and the save of another; two crashes give one during the recovery from the first.
  `save_full_disk` needs one handle, one save and no crash.
* `graph`: four nodes have diamonds, chains of three edges and two sources on one output;
  ids are removed and come back as other kinds. Ports have one value there, so parallel edges do
  not occur in the run; the theorems cover any ports.

* `documents`: the foreign texts are a sound one of each version with each part in each form it
  can have, one of version 0 with every subset of its keys missing, one of version 1 with the room,
  the geometry and the log damaged together, and sound ones with other graphs (parallel
  edges, a loop, a cycle, edges to nowhere and out of an output, a dangling preset, points outside the
  room). Two edits after it are a change of the room after a point was moved, an edge after a node,
  a rename before a save; with an audit log of three, both pushes at the cap and past it occur.
* `session`: four coroutines are an open, one over it, a commit that waits meanwhile and its
  refresh, or an edit, a save and two commits; a second editor makes clearing an editor with
  another still there possible. `session_stale_handle` needs one editor.

Deadlock checking is off where a system may stop: a joined runner, a destroyed project, a bound
reached. The liveness properties say where it may not.

Interleaving is sequentially consistent. The code orders its accesses with acquire and release,
and some with relaxed; that these orders suffice is not shown here.

### Fairness

* `SnapshotStore`: `WF(Acquire)`, since the engine ticks as long as it runs, and weak fairness on a publish
  that has begun. Nothing says another publish begins.
* `CommandRing`: the consumer polls (the runner's loop has no other exit than a stop), and an enqueue that has begun ends.
* `QueueRunner`: the operating system runs each runner's thread; a join whose thread is gone
  returns. The producer has no fairness, and no fairness makes the control thread call `stop`.
* `AudioEngine`: a call that can go on does; a render and a publication end; a pacer and a runner
  that were asked to leave do; a batch ends (`SF`, as a batch of at most 64 commands does end however
  often the observer publishes from within it). The host's ticks need not come.
* `ProjectSession`: a coroutine that can run does (`WF` of each, the mutex included: there are only
  finitely many before it, and one that was cancelled enters, gives up or ends), and so does the
  main thread, which collects and, once it has begun to
  clear view models, goes on. Nothing makes the user start, bind or close anything.

## 4. Proofs

TLAPS proves these for every value of the constants. Each module has an invariant that is
inductive, is checked by TLC before it is proved, and contains or implies the properties:

* **`SnapshotStoreProofs`**: for any positive number of slots and passes and any number of
  publications. `IndInv` is `TypeOK` with four parts: *WriterOwnership* (a slot is
  WRITING exactly while the writer is between its claim and its last store), *ReaderOwnership* (the
  READING slots are the held one and the one just claimed, and they are distinct), *SeqInv* (what a
  READY or READING slot holds is the plan its `seq` names, and no `seq` is ahead of `nextSeq`) and
  *ReaderKnowledge* (a slot's `seq` never falls below what the reader's scan saw in it). The parts
  are needed together: that the plan held is intact depends on the re-read of `seq` after the
  compare-exchange, and that on who may write a slot. From it follow `StoreTypeOK`,
  `StoreRendersIntactPlans`, `StoreSlotsHaveOneOwner`, `StoreEmptyCasNeverLost`, and
  `StoreImplementsRegister` by step simulation.

  Three theorems take `FourSlots == NSlots >= 4`, which is the code's `kSlotCount`, and TLC finds
  all three false with three slots: `StoreKeepsNewestPlan`, `StoreMakesAtMostTwoPasses`,
  `StoreAcquiresFresh`. The last is about an acquire during which no publication stores its
  number; of one in which some do, it says nothing, as the reader may then find every slot that it
  looks at being written. Their invariant `KeepInv` is a count. During one claim the reader has at
  most two slots besides that of the newest plan, the one it holds and one that it was already
  about to take, for an acquire that begins later goes for the newest (`TwoAreGone`); so the second
  scan finds a fourth, and a claim that lost its candidate once loses no other (`LossIsLast`).
  `FreshInv` adds what the scan of an acquire relies on: the slot of the newest plan was noted or
  lies ahead, and at most the publication that was under way can complete meanwhile.
* **`CommandRingProofs`**: for any capacity, any word size that is a multiple of it, any start of the
  indices and any number of commands. The invariant is about the counts that the wrapped
  indices stand for: `head` is the position of the count released, `tail` that of the count
  accepted, a copy of either that a thread has loaded is the position of an earlier count at most
  a capacity behind (*Counted*, *Loaded*), and every slot between the counts has the command
  of its number (*Contents*). Lemmas on `%` carry it over the wrap. `RingHasNoSlotRace` and, by step simulation,
  `RingImplementsFifo` follow.
* **`QueueRunnerProofs`**: for any number of handles on one project, any capacity, batch size and
  number of commands. *Ownership* ties a thread in its loop to `runnerState`, its
  handle and the project; *Numbered* has the queue's numbers dense; *Barrier* says that after a
  STOP was taken its thread is on its way out; *Ordered* that numbers grow from the document
  through the batch to the queue; *NothingLost* that what was taken is in the document or the batch;
  *PlanFollows* that the plan is behind the document only while a batch is applied.
  The order holds only since one runner has the batch (`Ownership`), and the barrier only since the
  queue is behind what was taken (`Numbered`), so the parts are proved together. `RunnerSoleOwner`,
  `RunnerNoUseAfterFree`, `RunnerStopBarrier`, `RunnerAppliedInOrder` and `RunnerPlanCurrent` follow.
  `RunnerNoUseAfterFree` is about threads in their loop. That no call is made on a project or a
  handle that was freed is a premise (`Ready`): `sf_queue_runner_destroy` after `sf_project_destroy`,
  for one, reads the state of the project (`command_queue_thread.cpp:331`).
* **`AudioEngineProofs`**: for any number of failed starts. *Attached*, *Places* and *Threads* say
  what each place of a call implies about the state and the threads; *Gate* that one runner of the
  project at most is alive and none from the gate of `start` to its own spawn; *PacerFlag* and
  *TickLane* that a pacer is announced before it is there and a tick that renders has seen
  no announcement. `EngineReadsIdleDocument` and `EngineProjectOutlivesUsers` hold for every
  host. `EngineHasOneRenderLane` and `EngineStoreOutlivesUsers` assume `~EagerTicks`, a host that ticks
  only after `start` has returned, which is the order of calls that `sf_audio_engine.h:6` asks
  for; with eager ticks TLC finds both false.
* **`SignalGraphProofs`**: for any finite set of ids, any kinds and ports, any bounds. The
  invariant is `TypeOK`, `WellRouted` and `Acyclic`. Acyclicity is preserved by lemma
  `NewEdgeOffCycles`: for an old edge with a closed set *B* that keeps it off cycles and the closed
  set *A* that the check of `add_edge` found, one of *B*, *A ∪ B*, *A ∩ B* keeps the old edge off
  cycles of the larger graph. Stating reachability by closed sets makes this a finite argument;
  no induction over paths is needed, nor for `GraphSoloKeepsItsPaths`.

  What the recursive functions compute does take induction. The induction theorems of
  the library have an operator as a parameter and cannot be used; `NatInducts` is induction for a
  *set* of numbers, proved from the library's facts on injections of finite sets, and
  `IteratesExist` makes a recursive function that a LET defines the one that its equations
  say. `GraphOrderIsTopological`: while a node is left one is ready, since every set
  of nodes of an acyclic graph has a node without predecessor in it (`SomeNodeIsReady`), so the
  sort takes them all, and a sorted prefix stays sorted. `GraphReportMatchesRender`: along that
  order the rendering of each node has heard exactly the sources routed to it
  (`RenderedIsHeard`), by induction on the place.
* **`ProjectFileProofs`**: for any set of handles and any number of saves, crashes and power
  failures. `IndInv` is `TypeOK` with three parts: *CallInv* (what the call in progress works on:
  a save that took every byte has in `.tmp` what it means to write, an open has read the file that
  is there), *DiskInv* (everything the name may stand for after a power failure is on the disk as
  it should be and is a file that was saved, and the name stands for the last save unless that is
  `undone`) and *OriginInv* (every descendant of an old document comes from the one the behaviour
  began with, whose backup is there unless it is `unsaved` or `unkept`; while the backup is being
  made again, the original is still the file). The last part is needed as opening an old document
  a second time truncates a good backup before it copies. `FileTypeOK`, `FileKeepsLastSave` and
  `FileKeepsOriginal` follow.

* **`ProjectSessionProofs`**: for any number of editors, coroutines and projects. `IInv` is `TypeOK`,
  `OwnerIsLive` and *WorkedFor* (what creates, opens, edits, saves or refreshes a project works for
  its view model, a commit for an editor, and the coroutine that has the mutex is inside).
  `SessionOwnerIsLive` and `SessionTypeOK` follow; neither needs that closing finds nobody at work,
  which the code does not provide. `ScreenInv` adds that a screen that
  shows a project is right or has a refresh on its way, and that a project that does not exist has
  no edits and no mirror; `SessionQuietScreenIsTrue` follows.

* **`ProjectDocumentProofs`**: for any finite set of nodes, any names, rooms and ports, any bounds, and
  any set of foreign texts that `Fits` and `FormsFit`. `IInv` has three parts besides the ranges
  of its flags. *DocSane*: whatever `validate_doc_json` asks of a text holds of the document in
  memory (a name, a room, finite points, edges between nodes and off cycles), so that it can be
  written and read; *TextFits*: the text in hand, received, migrated or written, is still described
  rightly, and one that was written is that of a sane document; *Known*: each error or geometry warning that a
  document can be read with is in `legacy`. The last is what an edit must not bring, and it has to be
  carried through a text: a project that is read from its own text inherits the problems that it was
  written with (`WrittenIsKnown`).

  The lemmas on cycles are those of `SignalGraphProofs`, through an instance in which the edges are the
  range of the document's list; that writing drops the ports changes no walk (`SameWalks`).
  `MigratedUnrolls` makes the loop over versions the sequence of its steps, by `NatInducts`;
  `FirstStep` and `SecondStep` say what each step keeps. From the invariant follow
  `DocumentTypeOK`, `DocumentNoNewProblem` and `DocumentSavedReopens`; `DocumentMigrationSettles`
  as each step leaves its version behind (`MigratedFits`) and passes over texts that have it
  (`MigratedStays`); `DocumentOldVersionsOpen` as the first step repairs every key that can be
  missing (`OldIsRepaired`) and the second the room and the geometry.

Where a type invariant is proved and says nothing that another property does not, it is no property
of a run. What is assumed is what the modules `ASSUME` of their constants, which TLC evaluates
in every run, and the two hypotheses that are named in the theorems, `FourSlots` and
`~EagerTicks`; the runs are instances of both.

Model-checked only: the liveness properties, since ENABLED and fairness are beyond this prover.
Every invariant and every safety property of a step that a passing run checks is proved.

## 5. Not modelled

* Gains, samples, distances, the mixing law and the true-peak filter: floating point.
* Of a document: time stamps and texts beyond sound or broken, duplicate ids in a foreign document,
  `null` in place of a venue or a scene (which `operator[]` turns into an object), and the health
  check's warning about the order of the audit log, as time is left out. Its warning about nodes that
  no source reaches is modelled (`Orphans`) and excepted from `NoNewProblem`: an output that is added
  to a new project has it (`tests/unit/test_graph_validate.cpp:144`). The character-by-character depth scan stands behind
  `part[Root]`.
* `sf_project_clone`, the getters, `sf_audio_engine_configure` and the static `set_output`.
* The log ring and the error texts. A flush empties the ring before the file is open and loses the
  lines when it cannot be (`diagnostics.cpp:129`); no document says that it must not.
* The JNI bridge and the app's platform services forward calls. Screens are layout.
* The Python mirror has no threads; it repeats migration and validation.

## 6. Plan

1. All modules of section 2: checked, every safety property that a passing run checks is
   proved, and so are both refinements.
2. Next: `sf_project_clone`, `sf_audio_engine_configure` and the static `set_output`, the operations
   of partly modelled components that change state and that no action stands for.
