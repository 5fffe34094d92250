# A TLA+ model of termpane

termpane is a terminal emulator grid with damage tracking and, on Unix, two ways to
run a program around it: a live session (a child on a PTY, a reader thread, a worker
thread that owns the grid, and a handle that other threads call) and piped child
processes.  This directory models them in TLA+, checks the models with TLC on small
instances, and proves the safety properties of the session, its startup, the grid, the
input path, the damage tracker and the piped children with TLAPS for every instance.

## 1. The system

| component | source | state | operations |
|---|---|---|---|
| Shared child | `session_worker.rs` `SharedChild`, `pty.rs` `PtyChild` | process, `reaped`, cached status, one mutex | poll, signal, kill, wait |
| Shared rendezvous | `session_worker.rs` `Shared` | outcome, revision, frames, closed, first teardown error, condvar | publish, mark closed, three waits |
| Reader thread | `run_reader`, `send_counted` | the batch in hand, `inflight` | read, blocking send, terminal message |
| Worker thread | `run_worker`, `Worker` | grid, writer, stream end, exit, finalized, output log, event stash, reply counters | control ops, drain and feed, exit poll, shutdown |
| Session handle | `session.rs` `PtySession` | control sender, join handles, closed flag | `&self` calls, `finish`, `close`, `Drop` |
| Startup | `spawn_with_faults`, `StartupGuard` | how far the spawn got, what the guard owns | six stages, rollback |
| PTY transport | `pty.rs` | master, slave, process-wide locks | open, spawn, read, write, resize |
| Grid | `grid.rs`, `grid/write.rs`, `grid/perform.rs`, `cell.rs` | two screens, cursor, pen, margins, scrollback, modes, output buffers | one per control function, resize, views of history |
| Parsing | `grid.rs` `process`, `grid/parse.rs`, `grid/midseq.rs` | sequence state, partial UTF-8 | feed bytes, read SGR parameters |
| Damage | `damage.rs` | bounded row list or "all" | mark, merge, take |
| Serialization | `grid/serialize.rs` | none | state to bytes and back |
| Snapshot, patch | `snapshot.rs` | none | capture, view, iterate over dirty spans |
| Passthrough | `passthrough.rs` | event queue of the grid | push, drain |
| Width | `width.rs` | tables | lookup |
| Piped children | `process.rs` | std or detached child, `reaped` | spawn, try_wait, wait, kill, signal, path search |

How they interact.  The child writes its terminal; the reader blocks in `read`,
sends each batch over a bounded channel and blocks when it is full; the worker
alternates between one control op and a budgeted drain of that channel, feeds the
grid, answers the emulator's replies on the child's stdin, polls the child and
declares one outcome.  Callers send control ops over an unbounded channel and wait
for a reply with a timeout, or sleep on the condvar of `Shared`.  The child handle
is shared by the worker, by callers of `signal` and by teardown.  The worker's `feed`
hands a batch to `process`, which holds back an unfinished character, runs the parser
and lets the grid perform each sequence; damage, scroll operations and events pile up
in buffers that the caller drains.  PTY spawns and piped spawns share one lock.  `finish`, `close`
and `Drop` raise the shutdown flag, kill, say Shutdown, join the worker, join the
reader and reap.

What is hard.  Five kinds of actors, three ways to block (a full channel, a full
PTY input queue, a read on a terminal somebody still holds), a clock (drain grace,
kill grace, reply timeout) racing the end of the stream, syscalls that fail in the
middle of a teardown, and a pid that must not be signalled once it is reaped.  In the
grid: glyphs of two cells that any operation may cut, a cursor parked past the last
column, state kept twice (damage and cells, `mutated` and the screen, three views of one
history), and a serializer that must foresee what the replaying terminal will join,
wrap or narrow.
PROJECT.json lists each hazard at its line with the properties aimed at it.

What makes each part correct.  *Shared child*: no signal after the reap.
*Rendezvous*: no lost wakeup; the first outcome stays.  *Reader and worker*: bytes
reach the grid in order, none silently lost; counters account for everything.
*Outcome*: it describes the capture for ever, and CleanEof means complete.
*Handle*: teardown ends and leaves nothing behind.  *Startup*: a failed spawn
leaves nothing behind, and spawn returns.  *Grid*: the cursor stays on the screen, wide
glyphs stay whole, changes are reported as damage and as scroll operations, the
alternate screen leaves no trace.  *Parsing*: chunking of the input does not matter.
*Serialization*: a replay reproduces the state.  *Piped children*: waits repeat and end,
no stray signal, no inherited pipe end, one error contract for all ways to spawn.

## 2. The modules

```
SharedChild   Shared
     \         /
    SessionWorker          Capture (abstract)
          |                   |
      PtySession  --- implements ---
       |      \
  Startup    CaptureHistory -> MCPtySession
       |
   MCStartup

PtySession -> PtySessionTyping -> PtySessionCapture   (proofs)
                  PtySessionCapture, Startup -> PtySessionHandle
                  PtySessionCapture, CaptureHistory -> PtySessionAccounting

DirtyTracker -> DirtyTrackerProofs

Cells   Sgr
    \   /
    Grid -> Terminal -> MCGrid ---.        Terminal -> GridProofs
                |                  |
            Serialize ----------> MCReplay

Input -> MCInput, InputProofs          Processes -> MCProcesses, ProcessesProofs
```

**SharedChild.**  `proc`, `exit_code` and `killed` are the kernel's view;
`reaped` and `status` are the fields of `SharedChildState`.  Each operation runs
under the mutex and is one action.  `stray` records a signal sent to a released
pid.  A fatal signal only sets `killed`: the process dies later.  `PtyChild` asks once
more whether the child was reaped; that second question is left out, so that NoStrayKill
rests on the check that the callers make under the mutex.  The kill of `portable-pty`
(SIGHUP, some polls, SIGKILL) is one fatal signal.

**Shared.**  One action per critical section.  `waiter[c]` is the sleeper's side
of the condvar: what it waits for and whether it was notified.  A wait is a first
check, a sleep, and re-checks; the three waits of the code differ in the condition
only.  `mark_closed` notifies after unlocking in the code; no step can tell.

**SessionWorker.**  A batch is its position in `produced`, the history of what was
written to the terminal; `produced[n]` records what the batch does to the emulator
(bytes, events, a reply, the values the synchronized-update bit takes, whether there is
an ESC in it).  `feed` samples that bit after every byte of a batch with an ESC and once
after any other (`Sampled`); a batch without one can still end a sequence that an earlier
batch began, and so change the bit once.  The program
counters `reader_pc` and `wpc` split a function only where another thread can see
the difference or where the thread may block:

| `wpc` | code |
|---|---|
| `top` | loop head of `run_worker`, the shutdown flag |
| `ctl` | `recv_timeout` and `handle_ctl` |
| `write`, `write_chunk` | the chunk loop of `apply_write`: its checks, its `write_all` |
| `drain` | `drain_data`: one `try_recv` per step, `feed` |
| `reply`, `reply_write` | the events of `feed`: `route_reply`'s checks, its `write_all`, `bump_revision` |
| `exit` | `poll_exit_state` |
| `sd_poll` ... `sd_drop`, `done` | `shutdown_child`, the last outcome, `mark_closed`, the drop of the worker |

`send` and `count` are the two statements of `send_counted`; `inflight` is an
unsigned integer of `UsizeMod` values.  `drain_grace` is the clock: once the exit
was seen it may tick at any time.  `KILL_GRACE` ends the reap loop at any time;
reply timeouts and deadlines may pass whenever `CallsExpire` allows it.  A local
that goes out of scope gets a fixed value so that states do not multiply.

**PtySession** composes the above with clients and an owner.  A client issues
control ops, signals and waits; when it gives up (`reply_timeout`) its op stays
queued and takes effect later, with nobody to answer.  The owner runs `finish` or
`close`; these need exclusive access, so they start when no client is inside a call,
and every call afterwards returns Closed without effect (left out).  `hpc` walks
through `teardown` and `join_threads`.  The child's side (write, read, fork a
descendant that keeps the slave, exit) is the environment.

**Capture** is what a session promises, without threads: batches are captured one at
a time in the order written, one outcome is declared, nothing is captured after it,
CleanEof has everything and nobody left to write.  `ImplementsCapture` is the
refinement, with `written = Len(produced)`, `captured = Len(fed)`, `writable` the
open slave and `declared` the published outcome.

**Startup** starts the same threads one after the other.  `spc` is the stage of the
spawning thread; each stage may fail, the locals are dropped in Rust's order (the
writer's EOF injection and the disconnect of the data channel before the guard's
own `Drop`), and the guard rolls back.  After `defuse`, a handshake that times out
goes through the session's teardown; the defused guard still holds a clone of the
control sender, so in the `fail_setup` path only the shutdown flag stops the worker.

**DirtyTracker** is the bounded row list of `damage.rs` with the cells marked since
the last take as history.  `insert_at` is what the binary search promises on a sorted
list; that the list is sorted is checked (`DamageTight`) and proved, not assumed.  Column `ColMax` is `u16::MAX`, which no grid has: `mark_cell` saturates there and marks nothing.

**Cells** has rows of cells: what a write, a shift or an erase does to a wide glyph it
meets (`grid/write.rs`, `cell.rs`), and the width of a cluster with joiners and variation
selectors (`width.rs`).  The width of each glyph is a constant; every printable glyph of
the model has both presentations.  **Sgr** has the pen and its two translations, from
parameters (`grid/parse.rs`) and to them (`write_attrs_diff`).

**Grid** is `DamageGrid` as one record, and every operation maps a grid to the grid it
leaves, so that one definition serves the program's stream and a replay.  `perform` takes
what the `vte` crate calls back with (print, execute, csi, esc, osc; SGR and private modes
have tags of their own).  Damage, scroll operations and events are drained before every
operation, so they hold what that operation put there; damage is a set of cells here, and
DirtyTracker is the list that stores it.

**Terminal** makes it a state machine: a scene gives a size, the streams fed before the
first step, what the steps may feed and how many there are; the handle's own calls (`set_size`,
`set_scrollback`, `clear_scrollback`, the erase policy, the kitty stack) are actions.  The
three ways the code shows history are operators on that state.

**Serialize** writes `state_formatted` and `state_diff` as the sequences that Grid
performs, so that replaying is `process` on what was written.  `base` is the state a
client was last brought to, where a scene has one.  `state_eq` is the comparison of the code's own contract.
`Mismatched` is the one kind of state that a replay does not reproduce: a continuation
in other attributes than its lead, which only DCH can make.

**Input** works on bytes: the tail `process` holds back and the tracker behind
`mid_sequence`, with the histories of what was received and what the parser was given.

**Processes** has one thread per handle.  `spawn_piped` is split where another thread can
see it: the lock, the checks, each stdio slot, `fcntl` after `pipe` where there is no
`pipe2`, the spawn.  The file system says what each place holds: a program, something that
cannot run, nothing, or something that may not be looked at (`hidden`, `under_file`).  The
checks before a detached spawn, the shell and its `cd` are the code's and see the file system
through `Stat`.  `Chdir`, `Execve` and `Execvp` are the reference, stated from the manual pages
and with nothing of the code's search: `execvp` of glibc goes on after a candidate that fails,
remembers EACCES, also that of a directory it may not search, and else reports the last error.
(On the BSDs and macOS it looks at a candidate after EACCES, as the code does, and the two are closer.)
An attached spawn is std's child, which makes those calls, so its result is the reference; what
there is to compare is the detached one.  Scripts without an interpreter line (ENOEXEC) are not
modelled.  Pids are reused by strangers.  The two backends (std and detached) have the same
control and are one.

**CaptureHistory** flattens the fed batches into the bytes, events, samples and queries
of the whole session and states the four properties of the pump's counters against them.

**MCPtySession**, **MCStartup**, **MCGrid**, **MCReplay**, **MCInput** and
**MCProcesses** give the batches, scenes, bytes and workloads for TLC.

Abstractions.  In the session the grid, messages and colours carry no data.  An interrupted
read goes round the loop.  Snapshot, StateBytes, DirtySpans and OutputLog are one
action: they read and reply.  Panics of the worker are not modelled; the loss of the
reader thread is (`reader_lost`), because `drain_data` handles it.  `SignalError`s
other than NotFound change nothing.  The kernel accepts and discards writes once the
slave is closed, as the comment on `apply_write` says of Linux.  `feed` stashes the
batch's events before it routes the reply; the code interleaves them in emission
order, which only the stash (private to the worker) could show.  In the grid a hyperlink
is its identity (the table of recent links only shares allocations), row allocations
are not reused, an event is its kind, and `scroll_up` and the like take a whole count at
once.

## 3. What TLC checks

Every run starts from the real initial state, except the caller's scene of `session_calls`
(output already written) and the grid's scenes (a stream already fed).  Sizes are distinct states.

| run | states | question | properties |
|---|---|---|---|
| `session_safety` | 1.8M | two batches, a descendant, a fatal signal, finish or close; reads, polls, kills, waits and the reader thread may fail | ClosedLeavesNothing, NoStrayKill, OutcomeMatchesCapture, CleanEofComplete, NoBatchLost, QueueDepthLags, AbortIsTruthful, FinishOkIsNatural, ImplementsCapture |
| `session_liveness` | 409k | worker stuck in a write or a reply, reader stuck on the channel, a descendant | TeardownUnlessHeld, OutcomeDeclared |
| `session_calls` | 2.0M | two symmetric clients, all three waits, observe; or one caller and every sequence of three rich batches, failing writes and resizes, calls that give up and are made again | NoLostWakeup, RevisionNamesState, OutputLogIsPrefix, EventsAccounted, FramesCounted, RepliesAccounted, AnswersOwnCall |
| `startup` | 599k | every stage, poll, read and write may fail; a child that asks and never reads, a descendant that keeps the terminal | NoStrayKill, FailedLeavesNothing, SpawnReturnsUnlessHeld |
| `dirty_tracker` | 4k | every sequence of marks and takes, four rows, room for three | DamageCovers, DamageTight |
| `grid` | 428k | three operations after every short row and on seven screens; followed by a client, two operations and a checkpoint after every combination of glyph, pen and erase, and between two wide glyphs | TypeOK, ParkedIffPending, WidePairs, UnmutatedIsBlank, ViewsAgree, ReplayReproduces, DiffReproduces, AlternateIsolated, ScrollOpsExplain, OtherRowsMarked |
| `input` | 579k | five bytes of fourteen classes in every cut | ChunkingInvisible, MidSequenceTruthful |
| `processes` | 182k | two spawns that overlap, or one in every way a program can be named, found, refused or hidden | NoStraySignal, StatusTruthful, NoInheritedEnds, DirectExecUnlessHidden, WaitReturns |

Four runs state what the documentation says and show that the code does otherwise:

- `doc_damage`: deleting more characters than are left of the cursor (`CSI 5 P` on a row
  of four) fills from `cols - n`, which lies left of the cursor, and marks from the cursor
  on: cells change that no damage reports.  An erase that cuts a wide glyph blanks the other
  half outside the range it marks, too.  `OtherRowsMarked` is what holds of every operation.
- `doc_teardown_bounded`: with a descendant holding the slave, the join of the reader
  has no bound.  `TeardownUnlessHeld` is what does hold.  A spawn whose handshake fails tears
  down the same way, which is the exception in `SpawnReturnsUnlessHeld`.
- `doc_queue_depth`: the sender counts after the send and the receiver uncounts at once.  When
  the worker receives in between, `queued_batches` is `usize::MAX` (7 in the run) until the
  reader's next step, and an observation can report it; the documentation says that it is exact and
  bounded by the channel.  `QueueDepthLags` is what holds: it is off by the one message that
  is sent and not counted.
- `doc_replay_exact`: with the cursor between the halves of a wide glyph and another behind it,
  `CSI 2 P` leaves the lead of the first and the continuation of the second.  The pair keeps two
  pens, `state_formatted` writes it in one, and `state_eq` is false.  `ReplayReproduces` and
  `DiffReproduces` are exact but for such a pair, and of it say which attributes come back.

Facts met on the way that are no runs of their own:

- After DrainExpired was declared, a late EOF changes the stream that `observe` reports,
  not the outcome.
- `finish` after `close_input` returns Closed, and the drop kills a running child.
- `clear_scrollback`, ED 3 and eviction leave `last_preserved_block` alone: it can name
  rows that are no longer in the history.
- A detached spawn whose program lies below a directory that may not be searched reports
  NotFound, and the attached spawn of the same program PermissionDenied; likewise below a file.
  The comment on `Candidate::Miss` means it so for PATH entries, but "Program lookup follows
  `execvp` rules in both paths" and "same as the attached path" on `spawn_piped` and
  `check_program_under_cwd` are wider than that.  `DirectExecUnlessHidden` names the exception:
  no candidate could be looked at, one of them was not simply absent, and the answer is
  NotFound.  A program that would run is never refused, and the shell never finds out what is
  wrong.
- An invalid UTF-8 tail (a stray continuation byte, the C1 ST) is held back like an
  incomplete one until an ASCII byte comes; the comment in `write.rs` speaks of incomplete
  ones.  `ChunkingInvisible` says that the cuts do not matter and nothing is lost, not that
  what is held back can be completed.
- `scrollback_rows_at_offset` is documented as newest first and returns oldest first.

**Bounds.**  `MaxBatches` 2 or 3 (1 for the watchers and the liveness, where the end of the stream is
the message behind it) against a channel of depth 1 (2 where several queued messages matter) and a budget of 2: the channel fills with a batch in the reader's
hand and one more in the PTY, and the budget runs out with work left.  `StdinCap` 1
with two-chunk writes makes every second write block.  `UsizeMod` 8 is beyond the
channel depth, so only a wrap leaves the documented range.  `EventCap` and
`OutputCap` fall inside a batch.  Four rows against three tracked ones give the
tracker insertions at the front, middle and end and an overflow from each.  The grid's row
scene has four columns, so that two wide glyphs and a cut through either fit, and every
row of up to four glyphs; its screen scene has three rows, so that margins leave a row
outside, a history of two at its limit, and the alternate screen.  A replay needs a joiner,
a glyph after it and a cursor move: three columns, four elements and two steps; a mismatched
pair needs two wide glyphs: a scene of its own with four columns.
`MaxJoiners` and `KittyCap` are small enough to be met.  Five bytes hold a three-byte
character or a sequence with something on both sides; a chunk is one or two bytes, so
that every cut happens.  Two handles are what it takes to inherit a pipe end; two pids
are reused at once.  A PATH has up to three entries, so that errors come before a
hit, or after one another with no hit.  `MaxOps` bounds the calls of a client.  A second
client adds nothing where clients do not meet; where they do (`session_calls`) there
are two, and they are symmetric.  Its caller starts with the output already
written, for every sequence of batches, since when the child writes is settled by
the other runs.

**Fairness.**  Weak fairness of the worker, the reader, a teardown once begun, the
spawning thread, the drain grace and the reply timeout (clocks), a killed child's
death, and woken clients.  Nothing makes the child read, write or exit, a descendant
let go, a client call, or the owner close; those are not in the program's hands.
A piped child whose input ended exits (the models' children read to the end) and a
`wait` that can return does; nothing makes a caller drop the stdin it took.
Kills do not fail in the liveness runs: a child that cannot be killed does block
`wait_locked`.

## 4. What is proved

**The session.**  These theorems are about `Spec` of PtySession, for every number of
clients, batches, queue depth, budget, cap and set of failing syscalls, from the named
assumptions on the constants only.

- `NoSignalAfterReap` (`[]NoStrayKill`).  The invariant `ChildInv` says that the pid is
  released exactly when `reaped` is set, and that the cached status is the real one;
  without it the reaped check in `signal_locked` proves nothing.
  `PtySessionTyping` first classifies every step by the child operation it performs.
- `TypeCorrect` (`[]TypeOK`), from `Typing`, which adds that a queued or fed batch
  is one that was written (`InRange`): `produced[n]` is otherwise not a batch.
- `CaptureInvariant`: the inductive invariant `IInv`, in six parts.  `QueueInv`: the
  fed batches, then the queued, then the one in hand are consecutive numbers up to
  `taken`.  `EndInv`: a CleanEof anywhere (in hand, queued, recorded) means that the
  slave is closed, everything was taken and nothing follows it.  `HandInv`, `DropInv`,
  `ExitInv`: what the reader holds at each counter, when batches may be dropped, whose
  exit was seen.  `OutcomeInv`: what was declared.  From it `CapturedInOrder`,
  `CleanEofMeansComplete` and `OutcomeStaysTrue`.
- `QueuedBatchesLag` (`[]QueueDepthLags`) and `NothingSilentlyLost` (`PtySessionCapture`).
  Each step is classified by what it does to the channel and to the batch in hand; the counter
  lags, modulo `UsizeMod`, by one message at most because the uncounted one is the reader's own.
- `SessionImplementsCapture`: every step maps to a step of Capture or to a stutter,
  using `IInv` where Capture's guards need it.
- `AbortsAreTruthful`, `FinishOkMeansNatural`, `NothingLeftBehind` (`PtySessionHandle`).
  `TeardownInv` ties the owner's counter to the worker's: the flag is up exactly from the
  first statement of `teardown` on, the worker shuts down only when it is, it has declared
  an outcome before it closes, a joined thread is done, and an outcome declared before the
  flag has a reaped status.  None of the three follows from its own statement: a `finish`
  that returns Ok reads an outcome another thread declared earlier.
- `NoWakeupLost`, `RevisionsNameStates`, `CallersAnswered` (`PtySessionHandle`).  The first
  is inductive once every step is shown either to notify or to leave the waiters' conditions
  alone.  The second needs `SeenInv`: an observation never names a later revision than the
  session's, and one that names the current revision has every feed, except between a feed
  and the bump that names it, when the worker observes nothing.  The third needs `CallInv`: a caller owns one op or none, in the
  queue or in the worker's hand, at exactly one place.
- `LogIsPrefix`, `EventsAllAccounted`, `FramesAllCounted`, `RepliesAllAccounted`
  (`PtySessionAccounting`), from `AccountInv`.  Each counter is compared with the flattened
  history, so the module first proves what the library's `FlattenSeq` does to one more
  batch (`FlattenAppend`): a recursive function that joins the sequences exists and is
  unique, by least counterexample (`LeastNatural`), and `FlattenSeq` is one.  `FrameInv`
  adds that the remembered bit is the last sample fed, and `SampledAll` shows that the fast
  path of `feed` misses no change, `EventInv` that the running total
  is the history's, `ReplyInv` that the batch being routed is one that was written and, while its reply is
  being written, one that asked for a reply.

**Startup**, for every set of failing stages and calls, about `StartupSafe` (the
specification without its fairness).

- `RollbackSignalsLive` (`[]NoStrayKill`) and `NoSpawnLeaks` (`[]FailedLeavesNothing`), in
  `PtySessionHandle`.  `StartupInv` adds to them what the rollback has achieved at each of
  its counters: `GuardInv`, that no reader is left while the guard rolls back, and no worker
  once it has joined it; `ClosingInv`, what each join has established when a defused session
  is torn down.  The threads of the session take part with all their steps; that a thread that
  is gone makes none (`GoneStaysGone`) comes from the frames proved for the session.

**The grid**, for every size, stream, resize, history limit and width table
(`GridProofs`), from `GlyphAssumption`, `GridAssumption` and `SceneAssumption`: a new
grid has a cell, prints carry known scalars and parameters are numbers.  Only `set_size`
clamps a zero size; `new` does not, and a session's grid relies on `open` in `pty.rs`
refusing one.

- `TypeCorrect` (`[]TypeOK`), `ParkedExactly` (`[]ParkedIffPending`), `GlyphsWhole`
  (`[]WidePairs`) and `SkippedSaveLosesNothing` (`[]UnmutatedIsBlank`), all from one
  inductive invariant, `Good`.  Its parts need each other.  `CursorOK` (the cursor is on the
  grid, parked exactly under a pending wrap, the saved position is a number) and `MarginsOK`
  say where a step may index; `ScreensOK` and `HistoryOK` that every row of both screens, and
  every saved row at its own width, is a `RowOK`: the halves of a glyph are neighbours, a lead
  has contents and a continuation none, and no cell is both.  `Clean` is about the flag.  The
  last one is seldom visible in the code that keeps it: RIS and a full-screen erase blank the
  primary screen without looking at the flag, a resize cuts rows without raising it.
- One lemma per row operation (`InsertOK`, `DeleteOK`, `EraseOK`, `WriteOK`, `WidthOK`,
  `RepairOK`, `ResizeRowOK`), then per screen operation, then per control function
  (`CsiOK`, `EscOscOK`, `ModeOK`, `ExecuteOK`, `WriteCharOK`), then `PerformOK`.  A record
  with 28 fields is too much for a solver, so `Same(h, k, X)` names the fields a step may
  change, and every lemma speaks of those.
- `EraseOK` is where a row operation alone does not suffice: `erase_range` on an empty range
  inside a row would cut the glyph at its end.  Its callers never do that, and the lemma
  states the condition they meet.
- `ViewsShowOneHistory` (`[]ViewsAgree`), from `Good` and the arithmetic of the three views
  (`CopyIsView`, `LookupIsView`).
- `AlternateLeavesNoTrace` (`AlternateIsolated`).  `Kept` says that a step shows the screen
  it found and, if that is the alternate one, leaves the primary screen and the history or
  clears the latter; it survives every drawing operation, so each control function follows
  from the primitives it is made of.  The mode switches, RIS and a resize are not `Kept` and are
  treated on their own.
- `ScrollOpsSuffice` (`ScrollOpsExplain`) and `NoRowMissed` (`OtherRowsMarked`), the two halves
  of what a renderer relies on, from `Good` and one relation between the grid before and after
  a step, `Explains`: what was recorded as scrolled accounts for the rows (`Told`), and the
  damage for the cells (`Marked`), but for the cursor's row.  The buffers are drained before
  each step, so what it finds in them is its own.  Every operation falls in one of four kinds.
  `Still` shows the same cells; `Local` differs in the cursor's row alone and only adds damage, so it may
  follow anything explained, as when a print wraps, scrolls and then writes; `Repainted`
  records nothing and marks everything (ED, a screen switch, RIS, a resize); and the scrolls
  (`ScrollUpExplains`, `NewlineExplains`, `RegionExplains`) record what they carry out, which
  `ScrolledRows` shows by comparing rows.
- `PenRoundTrip` and `PensStayPens`, the pen's share of the replay.  `Makes(group, a, b)` says
  that a group of parameters, wherever it stands in an SGR, takes the loop of `apply_sgr` past
  itself and the pen from `a` to `b`; groups compose (`MakesBoth`), which is where a colour
  that takes the parameters after it could go wrong.  `Mix(target, prev, F)` is the pen whose
  fields `F` are written and whose others are not yet; each group of `write_attrs_diff` adds
  its fields to `F`, those that share a reset (22, 25) together.
- The width of a cluster and the feeding of a prelude are folds of the library; that they are
  defined, and what they keep, is proved by least counterexample (`WidthIsNatural`,
  `ProcessOK`).

**The input**, for every alphabet of bytes and every length of stream and chunk, from
`InputConstants` alone.

- `ChunksInvisible` (`[]ChunkingInvisible`).  The decision of one chunk is taken over the
  tail of the one before, so the theorem rests on `HeldExtends`: what is held back of a whole
  stream is what is held back of its own held tail and the new bytes.  That follows from how
  the scan of `from_utf8` climbs from character to character (`Climbs`), and from the fact
  that a prefix and a shift of a text have the same characters (`ClimbPrefix`, `ClimbShift`).
- `MidSequenceHonest` (`[]MidSequenceTruthful`).  `StateAt` reads the tracker's state off the
  bytes, with no automaton: the last ESC, what aborts after it, the first printing byte, what
  ends a sequence of that kind.  `StateSteps` shows that one byte takes it where `advance`
  goes, `GroundStays` that skipping to the next ESC loses nothing, `BytesState` that the loop
  of `advance_bytes` does both, and `OpenIs` that `OpenSequence` says the same of a whole
  text.  That each loop's recursive function exists is an induction written out, as above.

**The damage tracker**, for every capacity, width and set of rows.

- `MarksAreReported` (`[]DamageCovers`) and `RowsAscend` (`[]SpansAscending`).  The
  invariant is the conjunction of both with the types; the work is in `PushKeeps`, which
  shows that a merge or an insertion reports all it reported before and the new range.  Only
  on a sorted list does a binary search answer as `contains` and `insert_at` say.
- `NothingWasted` (`[]DamageTight`), its order from `RowsAscend`.  For the rest `TightInv` adds that the spans are rows of marked
  cells, so that a list that overflows stands for more marked rows than it can hold.

**Piped children**, for every number of handles, pids and strangers, every workload and
every PATH.

- `SignalsReachTheChild`, `StatusesTruthful`, `NoEndsInherited`, from `ProcessInv`:
  the lock is held exactly by the handle between `lock` and the end of its spawn
  (`LockInv`), only the holder may have a pipe end without the close-on-exec flag, and only
  before `fcntl` (`PipeInv`), and a handle with a recorded status has a reaped child.
- `ReportsDirectExec` (`[]DirectExecUnlessHidden`).  The code's search stops at the first hit
  and remembers a poisoned candidate; `Execvp` is stated with quantifiers over all of PATH, on
  `Execve`.  `SearchIsExecvp` shows by induction over the length of PATH, again by least
  counterexample, that the search finds what `execvp` finds and fails as it fails when some
  candidate could be looked at or all are absent (`PlaceFacts` compares the two at one place);
  what remains is `NotLookedUp`, the exception (`Excused`).  `SlashIsExecvp` and `CwdIsChdir` do
  the same for a path with a slash and for the directory, and `ExcusedIsRight` shows that an
  excused answer is the exception the property names.  `ProcessAssumption` says that the paths given are
  sequences of names, that a PATH has an entry and which kinds of places there are, nothing
  about where.

`TypeOK` of PtySession and DirtyTracker and `CaptureInOrder` are proved and are not repeated
in a run.

Only model-checked: the liveness properties (TeardownUnlessHeld, OutcomeDeclared,
SpawnReturnsUnlessHeld, WaitReturns), since fairness and ENABLED are outside the prover; and the two
invariants of the replay (ReplayReproduces, DiffReproduces), which compare two folds of every
control function over two streams that are themselves folds over the screen; of those, what
is proved is the pen.  The library's induction schemes take an operator as a
parameter, which the installed provers cannot instantiate; the inductions above are written
out instead, each from a least counterexample (`LeastNatural`).  No module declares a
RECURSIVE operator: what loops in the code is a recursive function or a fold, so that it
can be reasoned about.

## 5. Plan

1. *Done*: the session, its startup, the abstract Capture, and their first proofs.
2. *Done*: the damage tracker and its proof.
3. *Done*: the grid, serialization, input and piped processes.
4. *Done*: the proofs of the session's remaining invariants, of Startup's, of DamageTight,
   of the invariants of Processes and of the input's, and the grid's inductive invariant with
   one lemma per control function.
5. *Done*: ScrollOpsExplain and OtherRowsMarked, a lemma per control function on the cells it
   changes, and the round trip of the pen.
6. Proofs left: the replay of whole rows, for which the pen's round trip is the first step.

## 6. Not modelled

- Row allocations and their reuse, the table of recent hyperlinks, the copies of
  `GridSnapshot`, the iterators of `GridPatch`, and the profile's flags: they hold no state
  that an operation decides on, or repeat state modelled elsewhere.
- Formatting of errors, statuses and signal names, the text of replies and events, and
  the identity probes of `process.rs` (one system call each).
- The VT state machine (`vte`), the PTY backend (`portable-pty`), the syscalls (`nix`,
  `libc`) and the Unicode tables (`unicode-width`): other people's code, taken from how
  this code uses it.
- A `waitpid` that fails on a piped child, and panics.
