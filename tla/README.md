# Verification of VE, the virtual environment library

This directory holds TLA+ models of the library VE (the directory
`src/cs/home/ivy/src/ve-2.2-beta3/`, below just "VE"; paths are relative to its
`src/` where no other directory is named), the TLC configurations that check
them and theorems that TLAPS proves. VE runs a virtual-reality display: one
*master* process holds the environment, reads input devices and decides when a
frame is drawn; *slave* processes, one or more per machine, draw the windows of
the screens and play sound. The rest of the repository is applications of
VE, an older release of it (`ve-2.1.5`), and third-party code.

## 1. The system

### Parts, their state and operations

| Part | State | Operations | What makes it correct |
|---|---|---|---|
| Frame protocol, `ve_mp_render.c` | master: wanted frame and phase, one record per slave; slave: current frame and phase, render threads, four barriers | `veMPRenderRun`, `veMPRenderFrame`, `veMPRenderExit`, the two message callbacks, `render_thread` | no screen shows a frame before all have drawn it; every begun frame ends; nobody waits at the wrong barrier |
| Barrier and other thread primitives, `ve_thread_posix.c`, `ve_thread.c` | barrier: count, exiting; delay gate: gate flag, queue of procedures | `veThrBarrierEnter`; `veThreadInitDelayed`, `veThrDelayGate`, `veThrReleaseDelayed` | rounds do not mix; no wake-up is lost; every queued procedure runs once |
| Frame interlock and main loop, `ve_core.c`, `ve_main.c` | lock count, pending count, callback lock, redisplay flag | `veLockFrame` .. `veUnlockFrameExcl`, `veLockCallbacks`, `render_thread`, `timer_thread`, `vePostRedisplay` | no event in the middle of a frame; no starvation; no lost redisplay |
| Message layer, `ve_mp.c`, `ve_mp_posix.c` | table of slaves, reliable stream and fast datagram socket of each, state variables | `veMPGetSlave`, push/pop of state variables, hand-shake, `veMPImplSend/Recv` | hand-shake leaves both ends agreeing on channels; neither channel starves |
| Audio, `ve_audio.c` | master: instances and who plays them; slave: a table of instances, channels, mixing threads | `veAudioInst`, `Update`, `Stop`, `Clean`, `Wait` and the two message callbacks | an instance is done when every slave has finished it; ids are not reused too early; waiting ends |
| Timer, `ve_timer.c` | heap of procedures by time | `veAddTimerProc`, `veTimerProcEvent` | procedures run in the order of their times; none is overlooked |
| Events, `ve_dev_event.c`, `ve_dev_filter.c`, `ve_dev_ctrl.c` | event queue, lists of filters and callbacks, what to do with events (`event_disp`) | `veDevicePushEvent`, `ProcessQueue`, `InsertEvent`, `Block/UnblockEvents`, filters, controllers, callbacks | events are delivered in the order of their arrival, each once |
| Textures, `txm/txm.c` | textures, per-context loaded flags and bindings | `txmAddTexture`, `Bind`, `Reload`, `DelTexture` | a texture is reloaded in a context that has the old one; the binding reported is the one made |
| Drivers, `ve_driver.c`, `ve_drv_posix.c` | infos of drivers by path, what each provides, open handles | `veLoadDriver`, `veDriverRequire`, `veDrvImplLoad`, init functions | a driver is initialised once; what was required is initialised; circles end |
| Numeric input devices (NID): client `libnid/nid.c`, `drivers/nid/venid.c`, `tools/nid_snoop.c`; servers `tools/nid_server.c`, `tools/ve_nid_server.c` | connection, requests in progress, the server's buffer of events, whether it has given notice of them, what is reported | enumerate, query, listen, compress and dump; `nidNextEvents`; `js_handler`, `nidServer_addEvent`, `nidServer_flushEvents` | events arrive once and in order, whatever is asked meanwhile; what the client knows never goes back; every request is answered |
| Device model, specifications, environment, profiles (`ve_device.c`, `ve_dev_*.c`, `ve_env.c`) | tables read from files | parsing, look-up | sequential, tested by reading the files |
| BlueScript interpreter (`blue/`, `ve_blue.c`), mathematics, sound files, other device and rendering drivers | - | - | outside the concurrent core |

### How the parts interact

`veRun` (`ve_main.c`) connects the slaves (`veMPRenderRun`), starts the render
thread and the timer thread and lets the device drivers deliver events. An event thread
takes the frame (`veLockFrame`), then the callback lock, and runs application
callbacks, which may post a redisplay. The render thread waits for a
redisplay, takes the frame exclusively, pushes locations and state variables to
the slaves and calls `veMPRenderFrame`, which exchanges datagrams with them.
On the master each connection has a receiving thread (`slave_msg_thread`) that runs
`master_render_cback` or the audio callback; on a slave one message thread
(`msg_thread`) does everything except drawing, and meets the render threads at
barriers. There is no shared memory between processes; inside one, the shared state
is under the mutexes named in the modules; the texture manager has none.

Drivers are loaded when a renderer, a device or an audio engine is wanted; the init
function of one may require others before it returns (`opengl.c:267`, `glx.c:718`).
The NID driver is a client of a server on another machine: its thread asks for the
elements of a device, then for their events, and hands each to `veDeviceInsertEvent`
between `veLockFrame` and `veUnlockFrame`. Answers and events share a
stream, unless events go over a transport of their own.

### What is hard

Datagrams are lost, repeated and reordered, and both ends must notice by frame
numbers alone. Windows may be asynchronous, so a slave may see any subset of the frames.
The message thread of a slave and its render threads meet at four barriers in
an order that depends on the messages. The interlock uses two conditions
and two counters. Exit can come from any thread at any moment. Start-up has a
hand-shake that uses datagrams, while threads that the delay gate should still hold
are being asked for. Events of a NID server arrive
in the midst of answers. Drivers require each other in circles. Sounds, events and textures each have bookkeeping in two
places that must agree: master and slave, queue and owner, manager and context. `PROJECT.json`
lists each hazard at its line.

## 2. Plan

The modules, in the order in which they matter to the library:

1. `VeMPRender` with the abstract `FrameLockStep`, and proofs;
2. `VeThrBarrier` with the abstract `BarrierRounds`;
3. `VeFrameLock`, and proofs of both in `VeThread_proofs`;
4. `VeAudio`;
5. `VeTimer`;
6. `VeDevEvent`;
7. `VeTxm`: textures, the contexts that have loaded and bound them, deletion
   and re-use of ids, and proofs;
8. `VeMPConn`, the table of slave processes, the hand-shake of the fast pipe
   and the turns that `veMPImplRecv` takes between the pipes; `VeDelayGate`, the
   gate of the delayed threads; and `VeRun`, which composes them, with proofs;
9. proofs for `VeAudio`, `VeTimer` and `VeDevEvent`;
10. `Nid`, the driver and the tool that are clients of a NID server, and proofs;
11. events of NID in datagrams, the hand-shake of its connections and the change of
    transport; changes of the lists of filters and callbacks while events are
    delivered; the loading of drivers by what they provide and require.

1 to 10 are done; 11 is left. Of the properties that the runs check, those that are no
liveness are proved. Of the liveness properties the safety that they rest on is worth a
theorem (that somebody can go on, that what is waited for is on its way): it is proved for
the barrier, the frame interlock, the frame protocol, start-up, events, audio and NID. What the timer's
rests on is `OnceCorrect` and `SleepCorrect`.

How the modules fit together:

- `VeMPRender` implements `FrameLockStep`, `VeThrBarrier` implements
  `BarrierRounds`; both by a refinement mapping, model-checked and proved.
- In `VeMPRender` a barrier is one joint step of all who meet there. That is what
  `BarrierRounds` allows its users to assume, and `VeThrBarrier` shows that
  `veThrBarrierEnter` provides it.
- `VeRun` extends `VeMPConn` and `VeDelayGate`: its actions are theirs, in the order
  in which `veRun` calls them. `VeRun_proofs` shows that it uses the gate only by the
  gate's own steps (`GateUsed`), so that `GateCorrect`, proved of `VeDelayGate` alone,
  holds of `VeRun` too (`StartedCorrect`).
- `VeRun` and `VeMPRender` meet at RUN: `VeRun` says which slaves get it and when
  `veMPRenderRun` has their answers, `VeMPRender` what they do with it.
- `VeFrameLock` assumes that a frame that is being drawn ends. That is
  `FrameCompletes` of `VeMPRender`.
- What `Nid` hands on (`got`) goes into `VeDevEvent`, where the thread of the NID
  driver is one of the drivers that insert events.
- `VeTimer` and `VeDevEvent` leave out the interlock that `timer_thread` and
  `veDeviceHandleCallback` take around callbacks; it is `VeFrameLock`.

## 3. The modules

In all of them an action is what one thread does between two points at which
it can be interrupted by another: from a wait (or a mutex it takes) to the next
one. A definition whose name is that of another one with a suffix
(`slaves_are_ready_Any`) is a *fault*, the definition below it as a slip in the
code would have it. Nothing uses it; `PROJECT.json` lists the faults and the
property that notices each. Variables marked "history" do not exist in the
code; the actions read them only to bound the model.

### `VeMPRender`, `FrameLockStep` (`ve_mp_render.c`)

The master's state is `slave_ready_frame`, `slave_ready_swapped` (the state it wants
every slave in) and a row of `slaves[]` for each slave (`seen_active`,
`seen_swapped`, `inited`, `stopped`). A slave's is `active_frame` and `swapped`, where
its message thread and its render threads are (`at`, `thr`), and as history the
frame in the back buffer and on the screen of each thread (`back`, `front`).
`veMPRenderFrame` is `BeginFrame` (RENDER to all), `PokeRender` (a time-out of
`veThrCondTimedWait`: RENDER again to those not ready), `BeginSwap`, `PokeSwap` and
`EndFrame`; `veMPRenderRun` and `veMPRenderExit` are actions of those names with the
wait that follows in `SlavesInit` and `SlavesStopped`. On a slave `slave_render_cback`
is one action for each message and for what the slave is doing: a message
for a later state, the same state again, or a SWAP of a frame it has not drawn.
What the callback does after a barrier is `PassStart`, `PassUnswapped`, `PassEntry`,
`PassExit` or `PassSwap`. Datagrams are a set: any may be taken at any time, again
(they stay in the set) or never; for the slaves in `Lossy` one may vanish for good.

`FrameLockStep` is what the frame lock promises: nodes count draw and swap
steps, and none starts a step before all have finished the one before.

### `VeThrBarrier`, `BarrierRounds` (`ve_thread_posix.c`)

`count` and `exiting` as in the code; `place` says whether a thread is in its call,
asleep on entry or on the condition that the barrier is reached, or woken. `Fill` is
the last thread in, `Return` a woken one, and the one that brings `count` to 0
reopens the barrier. Threads may wake up for nothing (`SpuriousWakeup`).
`BarrierRounds`: nobody leaves the n-th round before all have joined it.

### `VeFrameLock` (`ve_core.c`, `ve_main.c`)

`fl_locked`, `fl_epending`, `cback_mutex`, `redisplay_posted`. A handler is any thread that
delivers events: `veLockFrame` in the two loops in which it may sleep
(`WaitPending`, `WaitExclusive`), the callbacks under the callback lock, and
`veUnlockFrame`. The renderer is `render_thread` with `veLockFrameExcl` and
`veUnlockFrameExcl`, the animation callback once a frame and the idle callback while
there is nothing to draw.

### `VeAudio` (`ve_audio.c`)

The master's tables (`tab`, `instmap`) and the slaves' (`slot`, `nthrs`, `playing`), the
reliable streams and the set of updates on their way. Each call of
the library, each message at either end and each pass of `channel_thread` is one
action. The channels are connected one by one before anything is played
(`veMPAudioRun` is one turn of that loop, under the mutex).
`veAudioWait` returns with the mutex locked, as in the code
(`WaitDone`, `Return`). An instance may loop for ever (`loop` -1). A table that grows
may move, and a waiting thread then has a pointer into the old one (`stale`).
An update is taken off the network when it is received: the pair of a datagram
and its copy behaves as two updates. A slave that calls `veFatalError` leaves `alive`.
`SlavesGiveUp` says when one does: for a gap in its channel ids (`Misnumbered`: a
process connected before it plays a channel too), or for an update that is ahead of M_CHANNEL
(`Announced`), and with a gap as soon as it hears of an instance.

### `VeTimer` (`ve_timer.c`, `timer_thread`)

The heap is a sequence with the code's own `upheap` and `downheap`, faults included.
`downheap` is written without recursion, by the way the root takes: the places it
comes by (`SinkPaths`), from each to the earlier child as long as that is earlier than
the root was; each entry on the way moves up by one. There is one such way. The
timer thread looks (`LookDue`, `LookEmpty`, `LookAhead`, `LookSoon`), sleeps until a deadline
or until it is woken, polls (busy wait), and runs procedures with the mutex
released. The option `timer_busywait` is chosen once, at the start. Time is `now`.

### `VeDevEvent` (`ve_dev_event.c`, `ve_dev_filter.c`, `ve_dev_ctrl.c`)

Driver threads insert events; one application thread blocks, unblocks,
pushes, runs the queue and processes events of its own. `einsert` is the holder of
`einsert_mutex`; `work` says how far it has come with its event: at a filter, at the
controllers, at a callback, in one (`called`), or done. Filters may rename the event
and push copies; for a filter that means one valuator of a vector,
`FilterValuator` follows `ve_dev_filter.c:83-146` with its fall-through from DISCARD to
DELIVER. `freed` counts how often an event is destroyed. Of a specification the name
of a device, the wild card and the presence of an index are kept. The number of
events is bounded by `Room`: an operation that makes events does so only while there is
room for them (`Coming`).

### `VeTxm` (`txm/txm.c`, `drivers/glx/glx.c`)

The table of textures with its free slots (`textures`, `ntextures`), what each graphics
context has of it (`ids`, `loaded`), the names of OpenGL (`used`, `taken`), and OpenGL
itself: what was loaded under a name (`content`) and what is bound (`glbound`). There
is no lock. The application adds, deletes, reloads and sets options while no thread
draws; each render thread loads and binds textures in its own context, one
call of OpenGL after the other (`job`), and all of them at the same time. With shared ids
all contexts use one name for a texture: a thread looks for it in the other contexts
(`assign_rid_known`), and if it finds none it reserves one (`assign_rid_reserves`) by
`cnt++; return cnt` without a lock. Its reading, its writing and the reading again that a
compiler may put there are steps (`count_reads`, `count_writes`, `assign_rid_new`). In `raced`
(history) are the pairs of slots for which two threads have been between that search and
the entry at the same time; `{i}` is in it if both were for slot i. In `changed` (history) are
the slots that the application has changed without asking for a reload, of which nothing
is promised.

### `VeMPConn`, `VeDelayGate`, `VeRun` (`ve_mp.c`, `ve_mp_posix.c`, `ve_thread.c`, `ve_main.c`)

`VeMPConn` is `veMPGetSlave` in its steps: a row of `slaves[]` is taken, the slave
created, told INIT, asked for an address, connected (`key` and `check` are the two
datagrams of the hand-shake) and served by a thread of its own. A slave is a thread
of the master, a local process or one on another machine; only the last kind has a
datagram socket, and its `veMPImplRecv` takes turns between the pipes (`rel_last`). Pushes
(`veMPPush`) go over all rows in use without a lock, also while one is being set up.
A datagram may be lost or overtaken; where that hits the hand-shake it is recorded
(`mishap`, history).

`VeDelayGate` is `veThreadInitDelayed` and `veThrReleaseDelayed`: the queue, the flag and the
mutex. A call that finds the gate open starts its thread after it has let go of the
mutex (`starting`).

`VeRun` is `veRun` on the master: the slaves of the windows, RUN and its answers,
the slaves of the audio channels, then the gate. Delayed threads that have been
started push state; others are asked for before, while or after.

### `Nid` (`libnid/nid.c`, `drivers/nid/venid.c`, `tools/nid_server.c`)

The client's state is the calls it still has to make (`todo`), the request it waits for
(`waiting`, `next_request`), whether it reads events with DUMP_EVENTS
(`compressed`), and what it knows (`view`), has handed on (`got`) and was answered
(`answer`). The server's is what `proc_pkt` and `nidServer_addEvent` keep: `compress`,
`sent_events_avail`, the devices that are reported (`report`) and the buffer (`events`).
The server is one process that handles one thing at a time, so that each of its handlers
is an action: a request (`proc_pkt`), a change of a joystick (`js_handler`) and the update
in the loop of `main` (`main_Update`). Of the client, sending a request and taking
a packet are actions: `exchange` passes over packets with other numbers
(`nidReceivePacket_Skips`) until its own comes (`nidReceivePacket_Answer`); afterwards the
driver's two loops read on (`nidNextEvents`, `nid_compressed_thread`). A state of an element
is the element and a number that grows with each change; values are left out.
`new_nid_driver` and `nid_snoop` are the sequences of calls that driver and tool make.

## 4. The runs

| Run | Instance | What it shows |
|---|---|---|
| `lock` | 2 synchronous slaves, 1 asynchronous, 1 render thread each, 2 frames | frame lock, barriers, nothing changes while drawing, refinement of `FrameLockStep` |
| `live` | 2 slaves with 2 render threads, one loses datagrams, 1 frame | a frame ends; exit ends at any moment |
| `barrier` | 3 threads, 4 rounds | refinement of `BarrierRounds`, everybody returns |
| `framelock` | 3 handlers, the renderer, both optional callbacks | exclusion, no lost wake-up, late handlers wait, no starvation, no lost redisplay |
| `audio` | 2 application threads, 2 instances, 2 channels in 2 processes, sounds of 2 frames, 1 update | rows, ids and waiting threads agree; a slave gives up for two reasons only |
| `audio_live` | 1 thread, 2 instances, 2 channels in a process | stops end, cleaned instances go |
| `timer` | 5 timers with delays 0, 2, 4, with and without busy wait | each timer fires once, and in the end; no over-sleeping |
| `events` | 2 drivers and the application, 3 events, one filter for a valuator, one for all | no event is lost, leaked or freed twice; order is kept |
| `events_live` | 1 driver and the application, 3 events, a controller | blocked events are processed, calls return |
| `txm` | 2 contexts, 2 slots, an image that loads and one that does not, 4 calls, with and without shared ids, threads that overlap | what is marked as loaded is current, shared ids agree, a bind shows its texture |
| `startup` | 4 slaves of the three kinds, a table of 3 rows, 3 delayed threads | every thread is started once, in the end; INIT comes first; both ends agree on the datagram socket; the reliable pipe is served |
| `nid` | the driver at a server with two joysticks of 2 and 1 elements, 4 changes, compressed or not | no event is lost or doubled, answers have what was asked, the view never goes back, requests end, all events arrive |

Why the bounds are enough to see the interesting cases:

- `lock`: two frames are enough for an answer, a RENDER or a SWAP of one frame to
  arrive in the next, three slaves for the master to have heard from
  one synchronous slave, not from the other, and to go on without the third.
  Datagrams stay in their set, so each may be received at any later time. The
  theorems of section 6 cover more frames, slaves and threads. The synchronous
  slaves are symmetric: they have the same threads, and MP ids that are their rows.
- `live`: the frame and its repetitions are alike in every frame; one frame with exit
  at any point has all the waits. Loss for both slaves adds no kind of wait.
- `barrier`: the round after next re-uses the barrier twice; three threads give one
  that fills, one that drains late and one that is back early.
- `framelock`: three handlers give one that holds the frame, one asleep on each
  condition. The state space is finite without a bound.
- `audio`: two instances are the least for a row or an id to be used again and for the
  table to grow; the second thread waits while the first one cleans. The second process
  has a gap in its ids, the first has none, and the update may overtake M_CHANNEL, M_NEW or an
  M_CLEAN and the next M_NEW. Deadlock is not reported because either slave may give up
  (section 8). The application threads are symmetric.
- `audio_live`: all in one process, and no updates, so that no slave gives up; one that
  does ends nothing any more. Two instances use a row twice or two rows at once.
- `timer`: five entries give a heap of three levels. The clock stops at 4, after
  the last possible deadline.
- `events`: with three events one is being processed, one waits and one is made
  from either. Filters return every status, but the one for a valuator not
  DISCARD, after which an event is freed twice; no controller, for the same
  reason (both are in section 8). Drivers are symmetric.
- `txm`: with two slots one is re-used after a deletion while the other is bound; four
  calls give every order of adding, deleting, adding again, setting options and reloading.
  An image that cannot be loaded stays marked as not loaded. Two contexts are enough
  for each order of the steps of two threads that name textures; `MaxRaces` lets them clash over one
  pair of slots, the same texture or two, and go on from there with either outcome. A
  thread that would make another clash waits until the first is through. `MaxNames` is more than
  the textures and the reserved name need.
- `startup`: a window on another machine, one in a local process that may be
  missing, one in a thread of the master, and a sound channel, for which the table of
  3 rows is full or not. Two threads are asked for before `veRun` and one at any later
  time. Pipes hold two messages and a slave has at most two datagrams in flight, so that
  either pipe can be full while the other is read. Deadlock is not
  reported because nobody repeats a lost key or check (section 8).
- `nid`: one of the joysticks has two elements, so that an answer has two states of
  which one may change before and one after it; the other joystick changes without being
  reported. With four changes one can be before the query, one between query
  and request for events, and two are then one packet or two, or on
  either side of a notice. Deadlock is not reported because the devices may stop.

## 5. Fairness

Safety is checked of `Spec`, without fairness. `FairSpec` adds what scheduler and
operating system give.

- `VeMPRender`: every thread runs (weak fairness); a timed wait ends, so an
  unready slave is poked again and again; a datagram that is sent for ever is received
  once (strong fairness, per slave, for the state wanted now). The last two are
  justified by `veThrCondTimedWait` with `UPD_INTERVAL` and by `veMPImplRecv`, which takes
  turns between the pipes, so neither starves the other. Starting a frame,
  calling exit and losing a datagram are never owed.
- `VeThrBarrier`: a runnable thread gets the mutex. Calling and spurious wake-ups
  are not owed.
- `VeFrameLock`: runnable threads run; a mutex that is free again and again is
  obtained (strong fairness on `LockProc`); a frame ends (see section 2); a callback
  returns and a handler's batch of events ends (strong fairness on `UnlockFrame`).
  The last is an assumption about applications: a timer procedure that adds itself
  again with no delay keeps `timer_thread` in its inner loop, with the frame locked,
  and then nothing is drawn.
- `VeAudio`: message and channel threads run. A woken thread gets the mutex when it is
  free again and again. The application owes nothing.
- `VeTimer`: time passes, and the timer thread runs.
- `VeRun`: `veRun` goes on, threads and processes run, a pipe that has something is
  read. Pushing, making devices while the program runs, and losing datagrams are not owed.
  `AllStart` says "unless a slave is missing for good": one that had to be there, or one
  with which the hand-shake lost a datagram.
- `VeTxm` states no fairness: every operation is a call that returns.
- `VeDevEvent`: the holder of `einsert_mutex` goes on and callbacks return, a thread
  gets a mutex that is free again and again, and an application that blocks events
  unblocks them. Nobody calls the library's event functions from a callback or with
  the callbacks locked; `ve_core.h:395-397` warns of that, and
  such a call would wait for itself (`einsert_mutex` is not recursive).
- `Nid`: the client's thread goes on (`ClientStep`), the server answers (`proc_pkt`) and comes
  to its update (`main_Update`: its `select` has a time-out). Devices need not change.

## 6. What is proved

All theorems are for arbitrary values of the constants, under the assumptions
that the modules state: `TopologyAssumption` and `FrameAssumption` (the asynchronous
slaves are slaves, MP ids that are rows differ), `PartyAssumption`,
`ThreadAssumption` and `AudioAssumption` (finitely many threads, sounds of at least one
frame, at least one instance, a renderer that is no handler), `TimerAssumption`, `EventAssumption` (finitely
many drivers, and a timer thread that is none of them), `TxmAssumption`, `ConnAssumption`, `RunAssumption` and `NidAssumption`
(devices have elements). TLC evaluates them in the runs.
Type correctness is proved for every module, so that no run checks a
type invariant.

`VeMPRender_proofs`:

- `TypeCorrect`.
- `BarriersCorrect`: `BarriersAgree` and `NoUpdateWhileDrawing`, if MP ids are rows
  (`IdsMatch`). The invariant is `CoreInv`: types; `StartInv`, what has been sent and
  answered during start-up and exit in which stage of a slave; `ThreadInv`, where
  the render threads can be for each place of the message thread; and `BarriersAgree`.
  `BarriersAgree` alone is not inductive: that no thread is left at the start
  barrier when RENDER arrives follows only from the order of the messages of
  the reliable stream.
- `NothingChangesMeanwhile` (`NoUpdateWhileDrawing`), from `CoreInv` as well.
- `FrameLock`, `CompleteEverywhere`, `NothingSkipped`, `Refinement`: the safety of the frame lock, that no
  frame is skipped, and that the protocol implements `FrameLockStep`, with `IdsMatch` and a
  frame counter that is not reset (`NoReset`: `MaxFrame <= LongMax`). The invariant is
  `IInv`, that is `CoreInv` with `SyncInv`: the phase of the master (`PhaseInv`); no
  request, answer or record is further than what the master wants, than its sender
  was, or than the slave is (`LevelOf`); a synchronous slave is at most one state
  behind what the master wants (`LagOf`); and the buffers hold what a slave's state
  says (`WindowsOf`). Frames and phases are put on
  one scale (`State`, `Seen`, `Level`, `Target`), so that "newer" is "greater" and a late
  message is one that is not greater. The properties do not imply each other:
  `DrawnBeforeSwap` needs the records to be truthful, which needs the level of each
  datagram ever sent.
- `NoSlaveStuck` (`IdsMatch`): when a slave's message thread waits at a barrier, all have come
  to it, or a render thread draws or swaps and will come.
- `AnswersOnTheWay` (`IdsMatch`): whoever waits during start-up or exit waits for an answer that
  is on its way or whose request is. It takes `ExitInv`: EXIT, which may come
  in the middle of a frame, is answered once, by a slave that reads nothing afterwards.
- `PokesHelp` (`NoPokeInVain`; `IdsMatch` and `NoReset`): a slave that has not reported the state that is
  wanted is at most one state behind it, and if it is there, it answers when it is asked again.
  So one message and one answer that are not lost are enough, whatever was lost before.

Both assumptions are needed: the corresponding entries of section 8 say what
happens without them.

`VeThread_proofs`, of two modules:

- Of `VeThrBarrier`, `BarrierTypeCorrect`, `SleepersWoken` (`NoSleeperForgotten`) and
  `BarrierCorrect` (`RoundsSpec`), from an invariant that ties `count` to the number of
  threads inside, and the number of rounds of each thread to whether the barrier is
  filling or draining. `NeverAllAsleep` follows: when all have joined the round of a
  thread that has not returned, somebody can go on and will not sleep. It is the safety that `EveryoneReturns` rests on.
- Of `VeFrameLock`, `TypeCorrect`, `Exclusion` (`NoCallbackWhileDrawing` and
  `NoLostWakeup`), `WakeupsKept` (`NoLostWakeup` alone) and `LateHandlersWait`
  (`OnlyEarlyHandlersEnter`), from an invariant that says that `fl_locked` is the number
  of handlers inside, or -1 exactly while the renderer draws. With `CallbackInv`, who has
  the callback lock, it gives `NoCircularWait` (`WaitsEnd`): of the frame lock, the
  renderer that is pending and the callback lock, each is held by somebody who
  waits for none of those that wait for it. `RendererDraws` rests on it.

`VeAudio_proofs`: `TypeCorrect`, `RowsCorrect`, `IdsCorrect`, `WaitedCorrect` and
`WakesCorrect` and `GiveUpsCorrect`, for any number of threads, channels, processes and instances, also with
tables that move and updates that are lost or late. The invariant is `IInv`: `TypeOK`; `TokenInv`, an
instance that is not finished is in exactly one of three places, an M_NEW on its way, a
row of the slave, or an M_CLEAN on its way (`StreamInv` for the streams, `RowInv` for
the rows), so that the master cannot give its row out again; `IdInv`, ids and rows in use
map to each other; `WaitInv`, a row's `waiting` is at least the number of threads that
wait for it; and `FinishedWakes`. `RowsAgree` alone says nothing of what is on its
way, and `WaitedForKept` nothing of the count; neither is inductive. `waiting` may
exceed the number of threads: one that leaves with a pointer into an old table
(section 8) has counted there, so such a row is never used again, but none is too early.

A slave gives up for two reasons of section 8, a gap in its ids and an M_UPDATE for a channel
that it does not have yet. `GiveUpsCorrect` (`SlavesGiveUp`) says that there is no other, with
channels in any processes, and that the first is certain: a process with a gap dies of the first
message about an instance. Its invariant is `IInv` with `ChannelsInv`, that M_CHANNELs are on their way to a
process in the order of their ids, each channel sent is on its way or known there, no update is
made before the last channel is sent, and nothing on the stream about a channel is ahead of its M_CHANNEL; and `NumbersInv`, that `nthrs` of a process
is above its channels up to the first gap, and never above a channel of another process.

`NothingForgotten` and `OnlyStoppedCut` are about rows that are used again. An instance that is
not finished, of a slave that lives, has its M_NEW on the way, its row in the slave, or
its M_CLEAN coming (`NotForgotten`); if it has been stopped, its M_STOP is behind its M_NEW, or
its row is at the end, or its M_CLEAN is coming (`StopKept`). The M_STOP names
a row only; if it finds the row in use, or will, it is by the very instance that was stopped
(`StopMeant`). None is inductive alone: a late M_STOP does no harm because the M_NEW
of the next instance is behind it in the stream, and that is in `GoInv`, which has all three.

`VeTimer_proofs`: `TypeCorrect`, `OnceCorrect` (`EachOnce`) and `SleepCorrect`
(`NoOversleep`). Swapping entries and letting the root sink are bijections
between the places before and after (`Moves`): the places on the way down are
ascending, so no entry is doubled. The order of the heap, which `upheap` does not
keep, is not needed.

`VeDevEvent_proofs`: `TypeCorrect`, `OrderCorrect` (`InOrder`) and `KeptCorrect`
(`EventsKept`). Types include the room for events (`RoomInv`) and how far a thread is with
its event (`WorkInv`). The order needs where the events of a driver are: processed, held
by the thread that processes them, in the queue, or to be inserted, in this order
(`OrderInv`, `Held`). `KeptInv` says that each event is in one of these places, or freed once. It
holds under `NoDoubleFree`: no filter discards a single valuator, no controller takes
events. Without it the events of section 8 are freed twice. `NothingStranded` (`Held`): while
events are not blocked, those of devices are in the queue only as long as the call that has lifted
the block takes them out; a driver that has just queued one cannot have missed that.
`NoCircularWait` (`LocksOrdered`): of the mutexes and the callback lock each is held by a thread that
waits for none of those that wait for it.

`VeTxm_proofs`: `TypeCorrect`, `LoadedCorrect` (`LoadedIsCurrent`), `NamesCorrect` (`NamesApart`), `BindCorrect`
(`BindShowsTexture`) and `SharedCorrect` (`SharedIdsAgree`), for any contexts, slots and
calls, without any assumption on when threads run. The invariant says what `raced` records
(`RaceInv`: of two threads between search and entry the pair is in it); that names in use have been counted,
differ and are not reserved (`ApartInv`) and that the one who counts is alone (`AloneInv`),
both as long as nothing is in `raced`; what the contexts have loaded (`LoadedInv`); and how far each
thread is (`JobInv`). `SharedCorrect` does not need names that differ: its `SharedInv`
is about one texture, and also holds after a clash over others. The other three hold until
there has been a clash, since its outcome may be one name for two textures (section 8).

`VeRun_proofs`: `TypeCorrect`, `FirstCorrect` (`FirstIsInit`), `AgreeCorrect` (`EndsAgree`), and
`StartedCorrect` (`StartedOnce`), the last by composition: `GateCorrect` is a theorem about
`GateSpec`, and `GateUsed` shows that `VeRun` implements it. The invariant has the types; which
slave the call in progress has for itself (`CallInv`); that nothing is pushed before the gate is
open, and that then no call is in progress (`GateInv`); that INIT is the first in a
process's pipe until it has been read (`WaitInv`); that the hand-shake is in one place at a time, the request,
the key, the check or the waiting slave (`HandInv`); and that RUN is sent once
and answered after the hand-shake (`RunInv`). `EndsAgree` needs all of them: that the ends
agree when a slave has answered RUN rests on the order of its pipe, and that no
datagram with state overtakes the check on the gate.

Two more theorems say what `AllStart` rests on. `AnswersOnTheWay` (`AnswersCome`): the
address, key and check of a hand-shake and the answer to RUN are on their way, or the
request for them is, whenever somebody waits for them; of key and check, which nobody
repeats, as long as none has been lost or overtaken. `GateLeavesNobody`: when the gate is
open and left, every procedure that was asked for has been started or is being started.

`Nid_proofs` has two parts. For any programs of calls about whole devices (`WholeDevices`,
which the programs of the driver and of `nid_snoop` are): `TypeCorrect` and `AnswersCorrect`
(`AnswersWhatIsAsked`), by `GInv`, that requests are made one at a time and an answer on its
way to the one that the client waits for has the states that were asked for (`ExchangeInv`),
and that nobody knows more than the server (`KnownInv`). For the program of the driver
(`DriverOnly`), with and without compression:

- `SkippedCorrect` (`NothingSkipped`) and `ForwardCorrect` (`ViewGoesForward`);
- `PassesOverNothing`: an exchange of the driver never passes over a packet, which is where
  `nid_snoop` loses events (section 8);
- `AskedForCorrect`: whenever there are events, a notice or a request for them is on its
  way, and a request finds some or has its answer. `DumpReturns` and `AllArrive` rest on it.

The invariant is `DriverInv`: how far the program is (`StageInv`); the answer is the first
packet on its way, and before a request is served nothing is (`FirstInv`); before
LISTEN_ELEMENTS nothing is reported (`SilentInv`); both ends agree on who sends events when
(`CompressInv`); of the notice (`NoticeInv`); and events are in the order of
their numbers from the server's buffer to what was handed on, and newer than the view
(`OrderInv`). `NothingSkipped` alone is not inductive: that an answer throws
nothing away needs `FirstInv`, and that needs all the others.

## 7. What is only model-checked

Liveness, because the prover does not treat fairness: `FrameCompletes`, `ExitCompletes`,
`EveryoneReturns`, `RendererDraws`, `RedisplayDrawn`, `StopEnds`, `AutoDispose`, `AllFire`,
`EventsDone`, `CallsReturn`, `AllStart`, `ReliableServed`, `DumpReturns` and
`AllArrive`. Of most of them the safety they rest on is proved, so that what TLC
alone shows is that fair threads then get there:

| liveness | the safety it rests on |
|---|---|
| `FrameCompletes` | `NoSlaveStuck`, `PokesHelp` |
| `ExitCompletes` | `NoSlaveStuck`, `AnswersOnTheWay` of `VeMPRender_proofs` |
| `EveryoneReturns` | `NeverAllAsleep` |
| `RendererDraws` | `NoCircularWait` of `VeThread_proofs` |
| `StopEnds`, `AutoDispose` | `NothingForgotten`, `OnlyStoppedCut` |
| `AllFire` | `OnceCorrect`, `SleepCorrect` |
| `EventsDone`, `CallsReturn` | `NothingStranded`, `NoCircularWait` of `VeDevEvent_proofs` |
| `AllStart` | `AnswersOnTheWay` of `VeRun_proofs`, `GateLeavesNobody` |
| `DumpReturns`, `AllArrive` | `AskedForCorrect` |

`RedisplayDrawn` and `ReliableServed` rest on no further invariant: a posted redisplay waits for the
main loop to come round, a message for the turn of its pipe.

Every other property of a run is a theorem.

The other way round, some properties are proved and not checked by a run besides, since a
run has others that notice the same faults: `FrameCompleteEverywhere` and
`NoFrameSkipped` (`LockStepSpec`, `ShownOnlyWhenAllDrawn`), `NoSleeperForgotten`
(`EveryoneReturns`) and `NamesApart` (`LoadedIsCurrent`).

## 8. Disagreements between the code and what is said of it

Behaviour that the models have. A run shows only what holds; where a property is
named here, the module states it and it fails as described.

- `upheap` (`ve_timer.c:71-84`) lets a new entry rise by one level only. With four timers pending
  the earliest may not be the root and fires late (`ve_timer.h:18-19, 51`):
  `EarliestFirst` fails.
- `master_render_cback` takes an MP id for a row of `slaves[]` (`ve_mp_render.c:183, 192,
  206, 221`), and the loops that send again take a row for an MP id (510, 527). They agree
  while the renderer is the first user of the message layer. If an application
  has called `veMPGetSlave` in another order (`MpId` a permutation), the master credits
  one slave with what another has reported, and `RecordsAreReported` fails.
- `ve_mp.h:567-578` says that the frame counter may be re-initialised at any time. Both ends
  take any greater number for a newer frame (`ve_mp_render.c:206, 428`), and the slave
  also 0; a late datagram of the old count is taken for a new one, and with `LongMax`
  below `MaxFrame` `DrawnBeforeSwap` fails.
- `ve_core.h:424-426` says that handlers that are ready run before the next frame.
  `veLockFrameExcl` takes a lock it finds free (`ve_core.c:270, 279`), ahead of handlers that
  have been woken and do not hold the lock yet.
- `nthrs` (`ve_audio.c:449`) is per process, channel ids are not. A process whose first
  channel is not number 0 never counts it and gives up at its first sound (471-472), against
  the comment "all channels I am managing must be in the range 0..nthrs-1" (266-267). The last
  conjunct of `SlavesGiveUp` says that it does.
- `veAudioWait` locks `master.mutex` and never unlocks it (`ve_audio.c:902-919`). After the
  first wait every audio call, and the callback that receives M_CLEAN, blocks; with a
  waiter `AutoDispose` fails.
- `veAudioWait` keeps a pointer into a table (914) that `veAudioInst` may
  move with `veRealloc` (223).
- An M_UPDATE that is late is applied to the next instance in the row (`ve_audio.c:518-527`);
  one that overtakes M_CHANNEL makes the slave give up (515-516), which `SlavesGiveUp` allows.
- `veDeviceProcessQueue` and `veDeviceProcessEvent` process events while they are blocked
  (`ve_dev_event.c:344-363`; `ve_device.h:1689-1691`).
- `veDevicePushEvent` on an empty queue loses the disposition, so that VE_FILT_DELIVER
  does not skip the filters, and leaks an entry (`ve_dev_event.c:218-220`).
- `veDeviceInsertEvent` processes its event ahead of the queue (`ve_dev_event.c:384-388`;
  `ve_device.h:1669-1671`).
- A filter for one valuator is given the vector's event, and its result may end the
  vector's processing (`ve_dev_filter.c:90, 142-146`; `ve_device.h:1653-1656`).
- A filter that discards one valuator of a vector has its event destroyed twice
  (`ve_dev_filter.c:123-134`): with DISCARD for a valuator, `EventsKept` fails.
- `veDeviceRemoveCallback` takes the successor of what it has just removed, and skips
  neighbours or steps past the end when it removes the last callback
  (`ve_dev_event.c:106`). The lists do not change in the model.
- A controller destroys an event that its caller destroys again (`ve_dev_ctrl.c:171`,
  `ve_dev_event.c:340, 385`): with a device in `Controlled`, `EventsKept` fails.

- A key or check of the hand-shake that is lost is not sent again (`ve_mp_posix.c`). Without the key
  the master waits in `veMPGetSlave` for ever. Without the check the slave's message
  thread waits, or takes the next datagram for it; it then does not listen to
  datagrams, which slaves without windows notice only by missing state.
- `txmDelTexture` passes an index where `txmReloadTexture` takes an id (`txm.c:562`): the
  texture before the deleted one is marked as not loaded, where the comment above
  (559-561) says "this texture". The model follows the code, and the deleted slot
  stays in `changed`. The deletion of id 1 writes `loaded[-1]`, which the model leaves out.
- With shared ids, two threads that look for the name of one texture at once both find none, and each
  counts one (`txm.c:235-246`): `SharedIdsAgree` fails for just such a texture, `{i}` in `raced`,
  which it therefore leaves out; `txm.h:28` does not. And `cnt++; return cnt` (205-209), run by two threads at
  once, may give the same name to two textures: after that each overwrites
  the other under the name, and `LoadedIsCurrent`, `BindShowsTexture` and `NamesApart` fail. They are stated
  with `~NamesRaced` in front.
- `txmBoundTexture` returns an index where `txm.h:137` promises an id; `ogl_load` in
  `txmPreloadContext` binds other names than `ctx->bound` says; a texture that was added twice without
  TXM_UNIQUE goes with the first deletion; `cksumtex` (`txm.c:341-350`) never moves on from the first
  byte. No property is about these.

- While a call waits for its answer, `nidReceiveRawPacket` throws all packets with
  other numbers away, events too (`nid.c:189-197`). `nid_snoop` asks about a second device
  when the first already sends events, and loses some, where `tools/README:5`
  says it "returns events as they occur": with `Snoop` for `Programs`, `NothingSkipped`
  fails. The driver asks for events last and is safe.
- `proc_pkt` puts a state into the answer at the element's place in its device
  (`nid_server.c:247`; `ve_nid_server.c:399` too), not at the next place in the answer. Only a query
  for all elements of one device in order is answered as `nid.h:651-652` says: with
  `QueryOne`, `AnswersWhatIsAsked` fails.
- DUMP_EVENTS is not answered when there are no events (`nid_server.c:129, 376-380`), and
  `nidDumpEvents` waits for ever, where `nid.h:874-875` promises NULL: with `DumpAtOnce`,
  `DumpReturns` fails. The driver asks only after a notice.
- What changes between the driver's query and its request for events, and the states
  that a joystick reports at first (`nid_server_linux.c:60, 76`), the driver does not learn
  until the element changes again. `ViewGoesForward` says that it never goes back.

## 9. What is not modelled, and why

- The contents of messages, events, sounds and frames: no property tells them apart.
- Breaking connections and dying slaves: the end of a reliable stream is a fatal error
  for whoever reads it. Likewise messages of a wrong size.
- Application threads that push state during start-up, and slaves that are connected
  after the gate has been opened: only the delayed threads push in `VeRun`.
- The fall-back of the fast channel to the reliable one when datagrams cannot be
  had: its behaviours are among those of the datagrams, without loss.
- What a rendering driver does when its window is closed by the message thread while a
  render thread is still swapping (`ve_mp_render.c:346`, the model has `life` closed and
  `thr` at flip together).
- With shared ids a thread also reads the tables of other contexts while these grow (`txm.c:44-100,
  235-238`; `realloc`). In the model the tables have their size from the start.
- Memory: the heap of the timers is allocated in bytes where entries are meant
  (`ve_timer.c:62`); in the model it is a sequence.
- Drivers' registration and dependencies (`ve_driver.c`): a recursive search, done by one
  thread.
- Of NID, the hand-shake that opens a connection, the change of transport (a lost datagram
  of it leaves the client waiting, `nid_unix.c:239`), events in datagrams (a packet goes as
  two, which nothing tells apart, `nid_unix.c:53-60, 77-102`), packets that arrive in
  pieces, FIND_DEVICE, values and device functions, clock synchronisation, the wire format,
  and the server that is a program of the library: its thread sends and resets
  the buffer of events without the lock under which they are added (`ve_nid_server.c:204-241`).
- Start-up options, configuration files, device specifications beyond matching, the
  BlueScript interpreter, mathematics, sound files: sequential, without protocol.
- Other device, rendering and audio drivers, tools and applications: outside the
  library's core. What they call, or what it expects of them, is in the models.

Most of the repository's lines are of these kinds, or duplicates: two releases of VE and
installed copies of it, vendored libraries, applications. The models cover the
concurrent core of the current release, so that they stand for a small share of all lines.
