# Formal model of AutoBleem's console side

AutoBleem is a launcher for the PlayStation Classic: a C++/SDL2 program on a
USB stick, the shell scripts that give it the console, and `apps/abpad`, which
gives homebrew programs ("Apps") the console's pads. This directory holds TLA+
specifications of the parts of it whose correctness depends on the order of
events, the TLC configurations that check them on small instances, and proofs
of the most important results for every instance (TLAPS).

File names below are relative to the repository.

1. [Inventory](#1-inventory)
2. [How the parts meet](#2-how-the-parts-meet)
3. [Modules](#3-modules)
4. [Runs, bounds and what they show](#4-runs-bounds-and-what-they-show)
5. [Fairness](#5-fairness)
6. [What is proved](#6-what-is-proved)
7. [Where code and text disagree](#7-where-code-and-text-disagree)
8. [What is not modelled](#8-what-is-not-modelled)
9. [Plan](#9-plan)

## 1. Inventory

| component | state | operations | what is hard | what makes it correct |
|---|---|---|---|---|
| **Shared block** `apps/abpad/src/core/shared_state.*` | one sequence number, a few words per pad, `quitRequests`, in shared memory | `initSharedState`, `publishPads`, `setSharedPad`, `requestQuit`, `readSnapshot` | lock-free; a daemon killed inside a write; the sequence wraps; an ARM processor | a snapshot is what the block held at one instant, or none |
| **ExitHold** and its users `core/hold.*`, `daemon/abpadd.cpp` (`QuitWatch`, `ResetWatch`, `exitOnly`, `exitWatch`), `shim/shim_state.cpp` (`update`) | when the combo went down, whether SIGTERM and SIGKILL were sent; cycles since Reset | one sample per daemon cycle, one per SDL call of the App | three clocks; two watches that signal one process; samples that miss releases | no kill without grace, no quit from short presses, a stuck program always ends |
| **Kernel pads** `daemon/abpadd.cpp` (`Slots`, `Kernel`), `daemon/kernel_pad_linux.cpp` | a slot per player, the grabbed event node, the virtual devices, which instance ids are our own | `addPad`, `removePad`, `ensure`, `isOwn`, `takeOverForKernel`, the event loop | SDL announces our own devices as pads; ids are not unique; indices move | our own device is never a player; one node, one player |
| **App runner** `payload/Autobleem/rc/app_env.sh`, `app_run.sh` | `AB_APP_PID`, `ab_mode`, `ab_left`, `AB_APP_STOPPED`, a trap | `ab_app_start`, `ab_app_wait`, `ab_app_stop`, `ab_app_on_term` | processes fork and re-parent during a listing; traps nest | nothing of the App outlives it; a SIGTERM ends it |
| **RetroArch job** `src/code/evoui/ra_job.h`, `ra_job_service.cpp`, the progress screen | the job, the child's pid, the signature of the progress file | `install`, `remove`, `poll`, `stop`, `reset` | a file replaced by rename, read by signature; the exit races the last line; crashes | a job ends as its own runner ended, and it ends |
| **Cover loader** `src/code/evoui/cover_loader.*` | queue, ready images, one in flight | `want`, `take`, `clear`, the worker, the destructor | two threads, a condition variable, a decode that outlives a `clear` | nothing stale, nothing twice, nothing forgotten |
| **Shim** `apps/abpad/src/shim/*`, `core/keyboard_mode.*` | what the App was told, a queue of 256 events, keys held | the SDL entry points | a bounded queue that drops its oldest, SDL 1.2 and SDL 2 views, events switched off | an App sees a release for each press |
| **Pads as data** `core/mapping.cpp`, `profile.cpp`, `pad_list.cpp`, `virtual_pad.cpp`, `key_names.cpp`, `kernel_pad.cpp` | none | parse, format, look up | nothing that depends on order | unit tests |
| **The stick's session** `rc/boot.sh`, `selection.sh`, `checkstick.sh`, `ab_stickwatch.sh`, `ab_fsck.sh` | `/media`, the volume's dirty flag, `System/.session`, the selection file, `/tmp/ab_stick_owned`, `.abnostick`, the launcher's crash count | the boot's check, the loop's round, selections, standby, the wait for a stick, the power off; the watch's half second | the stick is pulled, or the power goes, between any two commands; the kernel holds writes back; two shells share files and signals | a volume that was lost in a session is checked before anything writes to it again, and never says it is clean meanwhile; a pulled stick never leaves a dead screen |
| **Other runners** `rc/pe_env.sh`, `pe_run.sh`, `retroarch.sh`, `launch.sh`, `pad_seat.sh` | an environment | prepare and run | as the App runner | as the App runner |
| **abfetch** `src/tools/abfetch/*` | the output file, the range asked for, redirects followed, how the body's end is told | `fetch()`: connect, answer, body, close, discard | servers that ignore ranges, or have another release meanwhile; a cut connection; a full disk; SIGKILL | "Ok" is the server's whole file; a failure loses nothing that was kept and leaves no part without `--continue` |
| **abupdate**, absplash, abfatflag `src/tools/*` | the `Updates` directory | drives an installer of `autobleem-core` | its failure paths are in the submodule | - |
| **Launcher** `src/code/*.cpp`, `evoui/*`, `gui/*` | what is on the screen | draw, read buttons | one thread; its data is in `autobleem-core`, an absent submodule | - |
| padtest, abdialog, the example extension, build scripts | - | - | - | - |

## 2. How the parts meet

    pads --SDL--> abpadd (daemon) --shared block--> shim in the App --SDL events--> App
                    |   |                              ^
                    |   `--uinput--> virtual pads -----+--(kernel mode: App's own SDL)
                    |                     `--SDL-----> abpadd, which must know its own
                    |
                    `--SIGTERM / SIGKILL--> runner (app_run.sh) --signals--> the App's processes

    launcher --fork--> RetroArch's runner --rename--> progress file --poll--> launcher
    launcher (screen's thread) <--mutex, condition variable--> cover worker

`ExitWatch` models the daemon's side of a signal to "the program"; for an App
that program is the shell modelled in `AppRunner`, whose `Term` and
`KillRunner` are the two signals of `ExitWatch`. What the shim reads
(`block` of `ExitWatch`) is one atomic variable: `SharedState` is what
justifies that, by implementing `PadRegister`.

    boot.sh's loop --runs--> launcher --selection file--> selection.sh --standby--> boot.sh
          |                                                    |
          `--starts--> ab_stickwatch.sh --SIGSTOP, selection file, SIGKILL, umount -l--'
    all of them --> the volume: its dirty flag, System/.session

`StickSession` is the composition of the loop, the watch, the kernel's mount and
the hand that pulls the stick; the launcher is one place in it. `Fetch` is run
by whoever wants a file; it shares nothing with the others.

## 3. Modules

| module | models | role |
|---|---|---|
| `PadBlock` | `SharedState`'s words, what each writer leaves in them | data of the next two |
| `PadRegister` | what the block promises: a register whose reads are atomic or refused | abstract specification |
| `SharedState` | the seqlock word by word, three memory orders | implements `PadRegister` |
| `SharedState_proof` | - | proofs |
| `ExitHold` | `ExitHold::update` | pure operators |
| `ExitWatch` | `QuitWatch`, `ResetWatch`, the shim's quit | composes two `ExitHold`s and the published block |
| `KernelPads` | `Slots`, `Kernel`, SDL's list and queue as the code meets them | one module |
| `AppRunner` | `app_run.sh` and the App's processes | one module |
| `RaJob` | `RaJobService`, `JobState`, the progress screen's polling, the runner | one module |
| `CoverLoader` | `CoverLoader` | one module |
| `StickSession` | `boot.sh`'s loop, `checkstick.sh`, `selection.sh`, `ab_stickwatch.sh`, `abfatflag` and the kernel's mount | one module |
| `Fetch` | `fetch()` of abfetch, tried again and again | one module |
| `ExitWatch_proof`, `KernelPads_proof`, `AppRunner_proof`, `Launcher_proof` (`RaJob` and `CoverLoader`), `ShimEvents_proof`, `StickSession_proof`, `Fetch_proof` | - | proofs |
| `ShimEvents` | `ShimState::update`, `KeyboardMode`, the queue, `SDL_PollEvent` | one module |
| `MCSharedState`, `MCKernelPads`, `MCShimEvents`, `MCFetch` | - | values of constants for TLC |

### SharedState

A write is begun by one of the daemon's three writers (`publishPads`,
`requestQuit`, `publishPadIdentity`), stores the odd sequence, its words one at
a time and the even sequence; `Die` may come between any two of these and
leaves the block as it is (a daemon started again is given a new block, since
`app_env.sh` removes the old one). A reader is `readSnapshot`: up to
`MaxReadAttempts` times, first load, words, second load, and accept or go round.

`Memory` names what the machine may do. `"inOrder"` performs every store
and load in the order of the source, `"fenced"` any order that keeps plain words
between the accesses of the sequence. `"relaxed"` allows exactly what the
C++ memory orders of the source leave open: a store of a word before the
(release) store of the odd sequence, since release orders only what is
*earlier*; and a load of a word after the second (acquire) load, since acquire
orders only what is *later*. `after` is the second load performed early.

Words that no reader copies (a pad's name and GUID) are not words of the model.
A pad's axes and buttons are one word each whose value is drawn from two, so
that torn reads are visible.

### ExitWatch

A tick is half a second. `held` is the combo at the device; `quitHold` and
`shimHold` are `ExitHold`s of the daemon and the shim. The code keeps instants
(`since_`, `terminatedAt_`); the model keeps their ages, which stop growing at
the limit they are compared with. `Tick` lets time pass, up to `MaxElapsed`
between two cycles (SDL_Delay may overrun); `Cycle` is the whole body of the
loop: the block is published, both watches are checked, and the watched process
is looked for. `ShimUpdate` is one SDL call of the App.
`mode` is how `abpadd` was started; with `--exit-only` alone no pad is open.

`rest` and `span` are history: the length of the last release, and the time
since the end of the last release that a cycle cannot have missed.

### KernelPads

A pad is a device with a vendor and product (`Ids`); `Lookalikes` are the real
pads whose ids are those of the virtual ones (`VirtualIds`), as a console pad's
are, on purpose. SDL reads the pads of `Hidapi` through hidapi and the others
through evdev, and keeps the former first in its list (`PlaceFor`), so a new
hidapi pad moves every index behind it.

`notices` is what the kernel has queued and SDL has not been told. SDL pumps when
it has no event to hand out, and then takes notice after notice before the
daemon sees an event: `Pump` is one of them, and `pumping` keeps the daemon's
handlers away until all are taken. So the index an event carries may be old when
it is handled.

`HandleAdded` is the whole of `addPad` with `takeOverForKernel` and
`Kernel::ensure` (`Ignore`, `ClaimOwn`, `NoSlotFor` and `TakeSlot` are its
outcomes), `HandleRemoved` of `removePad`; `StartScan`, `Scan` and `EndScan` are
the first look at the list. `grab` is who holds each event node: `HoldsNode` is
`GrabbedPad`, one node and its path in the slot, for an evdev pad; `HoldsSiblings`
is `Siblings`, every node of the kind, for a hidapi pad. `Leaves` lets go of both.

Four variables are history: `lateLookalike` (a lookalike was plugged in after
the daemon's start), `misdirected` (an index had moved when its event was
handled), `turnedAway` (pads that came when every player had one) and `letGo`
(pads whose node was another player's hold, which ended). The properties that
mention them say where the code's own promise stops; section 7 says what happens
beyond.

### AppRunner

A process of the App has a mark in its environment and a parent; the listing is
"marked, or below one that is listed". Processes fork, lose their parents and
drop the mark. `calls` is the stack of `ab_app_stop` calls, since a trap can
run inside one and shares `ab_left` and `ab_mode` with it. Listing `/proc` is
one step; waiting is "all gone" or "not all gone when time is over".

### RaJob

The progress file holds one line or none; the runner replaces it by a rename.
`ReadFile` and `Reap` are the two halves of `poll()`, which other processes run
between. `ReadFile` may miss a line that has the signature (time, inode
number, size) of the one before. A runner may end with no end line, a wrong
exit code, or a signal. `Crash` is the launcher's: the child lives on, unknown
to the launcher started next. `ForeignFile` is a line that cannot be parsed.
`alone` is history: no runner of an earlier launcher was at work when the job
started. What the properties say of a job they say of one that started alone,
before and after a launcher's death; what happens otherwise is in section 7.

### CoverLoader

A step is a critical section, or what a thread does between two. An image is
represented by the number of `clear()`s before its decode began, so "stale" is
a comparison. `want` orders its queue declaratively (`InOrderOf`), which is
also what lets it be proved about. Waking up without a notification is allowed.

### ShimEvents

`pads` is what the block says, `shim` is `ShimState`, and `appDown` is what an
App takes to be down by the events it was given, in each of the three views
(joystick, controller, key) it may read. `Filled` is the body of `update` up to
the queue's limit: pads in order, in each the joystick events, the controller
events, then the keys element by element, as `KeyboardMode` does. It is a set of
the one state this ends in. A call that could not read the block
(`PollEventBlind`) works on what is queued. `Look` is every other call that
looks at a pad, and a poll that finds an event of the App's own. Elements are
buttons: an axis speaks again at its next motion. The joystick view has a button
for the elements in `Laid` only. A mod's remap, which renames buttons, is left
out, and so are two threads of one App.

### StickSession

`pc` is where the console is, from Sony's boot to the power off; the launcher,
a game and what `selection.sh` runs are each one place, in which anything may
write to the stick. Each script step between two effects on the volume is an
action, in the order of the script: `NeedsCheck` to `CheckstickEnds` are
`checkstick.sh`, `RoundStarts` and `CrashHandled` are the loop and what
`selection.sh` does without a selection, `StandbyStarts` to `StandbyClearsFlag`
`standby()`, `FindsStick` to `StickMounted` the two waits for a stick,
`SuspendRefused` to `PowerOffClearsFlag` `poweroff_instead`. The four actions of
`Watch` are `ab_stickwatch.sh`: it sees the dead mount, stops what runs below
the loop's shell, writes the selection that nobody can write over, kills, and
lets the mount go. A step of the scripts that the watch may stop has the guard
`NotStopped`.

The kernel's side: a read-write mount sets the volume's dirty flag, and the
unmount clears it again unless the flag was set at the mount (`gate`).
`cached` is `System/.session` as the console sees it and `marker` what is on the
stick; `Writeback` may come at any time, and a stick that goes takes with it
either of the two (`Lost`). `Pulled` and `PowerCut` may come between any two
steps, `PcChecks` and `PcDirties` are what another machine does to the stick.

Two variables are history, which no script can see and no step of a script
renames. `hurt` is how the volume lost writes since its last repair: with the
marker on it (`"marked"`), so in a standby (`"standby"`), in a session whose
marker was not written back yet (`"bare"`), or in a standby that had removed it
(`"unmarked"`). Only a repair (`Repaired`) empties it. `passed` is how a volume
that was lost with its marker got by unrepaired since the latest such loss:
`"failed"`, a check failed or could not be made (the scripts then let the stick
through, as they say); `"wait"`, the wait after a wake mounted an exFAT or ext
unchecked; `"poweroff"`, `poweroff_instead` cleared its flag. `CleanIsSound` and
`HarmIsChecked` say of `"marked"` losses (and of `"standby"` ones of a FAT, whose
flag every look at it reads) that *these* are the only ways past a check, and
name the ways in the formula. The way past the wait happens in the run
`stick_pulled`; the way past `poweroff_instead` and the two losses that leave no
marker have formulas that do not hold (`LostKeepsFlag`, `WokenKeepsFlag`,
`CutKeepsFlag`, section 7).

`checked` is the device that a wait has looked at already: a stick that does not
mount is tried again, but checked once.

### Fetch

One attempt is `Start`, `Connect`, an answer (`NoBody`, `Redirected`,
`NothingLeft` for 416, `RestAnswered` for 206, `WholeAnswered` for 200), `Take` for
each piece, and an end. The file is a sequence of pieces that remember the
release and the place they are from; no pieces stand for a missing and for an
empty file, which `fetch()` treats alike. `Discard` is `~Sink`; `SomeIsLost` is
what stdio had not flushed, or could not. A chunked body may lack only its last,
empty chunk: it is then not complete although every piece is there
(`MayBeComplete`, `MayWaitForMore`). The server may be given another release at any
time (`Replaced`), and a kill runs no destructor (`Killed`). `framing` is how
the body's end is told, which decides what a closed connection means.
Bytes beyond the announced length, 1xx answers, `--head`, output to stdout, URL
and header parsing and TLS are left out.

## 4. Runs, bounds and what they show

| run | bounds | shows |
|---|---|---|
| `seqlock` | 2 pads of 2 words, sequence mod 4, 2 attempts, 1 write per attempt of lag | in order, `readSnapshot` is one atomic read or none (`IsARegister`, a refinement of `PadRegister`); what a dead daemon left half written is never accepted (`TornBlockRefused`). Neither is claimed of the console's ARM |
| `seqlock_relaxed` | as above with a heartbeat of one value, `relaxed` | what is left on the console's ARM: of a block that the daemon died in the middle of writing no attempt begun since is accepted (`DeadBlockRefused`); that a read no write overlaps is exact (`QuietReadIsExact`) is proved, and not run |
| `seqlock_arm` | 2 pads, `relaxed` | **violation** of `OneInstant` |
| `exit_watch` | hold 2 s, grace 3 s, Reset at 1.5 s and 3 s, cycles up to 1 s late | `HoldWasUnbroken`, `KillAfterGrace`, `HoldingEnds`, `ResetEnds` in the three modes |
| `kernel_pads` | 2 console pads (lookalikes) and 2 hidapi pads of one kind, 3 players, 3 changes | `OwnToldApart` while no lookalike comes late, `NoSharedNode`, `PlayersAreThere`, `RealPadsAreSilent` |
| `app_runner` | 3 processes, 2 SIGTERMs, 1 SIGKILL | `LeavesNothing`, `TermEndsIt` |
| `ra_job` | 2 jobs, 2 phases, 1 crash | `OutcomeIsTheRunners`, `ProgressGoesForward`, `JobEnds`, no deadlock |
| `cover_loader` | 3 files, wants of up to 3, 4 wants, 2 clears | `NothingStale`, `NoDoubleWork`, `WantedComes`, `LeavesInTheEnd` |
| `shim_events` | 2 pads of 2 elements, all four on one key, one of the two in the layout, queue of 5, 3 presses and releases | `LastWordIsRight`, `NoRepeats`, `KeysComeUp`, `QuitIsHeard` in every mode and both SDLs |
| `stick_session` | FAT, exFAT and ext; reboot at the 3rd crash | `CleanIsSound`, `HarmIsChecked`, `LauncherIsMarked`, `StandbyIsLeftAlone`, `PulledIsAnswered` |
| `stick_pulled` | exFAT | **violation** of `PulledIsChecked` |
| `fetch` | releases of 3 and 2 pieces, 1 redirect | `OkIsWhole`, `FailureLeaves` |

Why these bounds are enough for what they are asked:

- *seqlock*: a torn read needs two words and one overlapping write; a wrap needs
  a sequence of two values more than `MaxLag` writes can cover. `MaxLag` is an
  assumption about the world (a reader is not asleep for 2^31 writes), named
  as such: without it no seqlock is correct. Two readers never meet, so one is
  enough; the proofs are for any number.
- *exit_watch*: the two holds and the two Reset counts keep the code's ratios,
  and every count stops at the value it is compared with, so no behaviour is
  cut; only the resolution of time is coarse.
- *kernel_pads*: the cases need two pads of one kind under each driver (evdev
  pads share candidates for a node, hidapi pads share siblings), one pad more
  than players (`turnedAway`), and a pad that leaves while another comes, or comes
  back: three changes.
- *app_runner*: a program, its child, and a child of the child with no parent.
- *ra_job*: a second job over the file of the first, and a runner of each.
- *cover_loader*: one in flight, one ready, one queued; one `clear` before and
  one after.
- *shim_events*: a key shared inside a pad and across pads needs two of each; a
  press and a release in two views and a key already overflow a queue of five,
  which also holds every prefix and suffix of them. An element without a key is
  left out of the run (a third element triples it): `press` leaves it alone, and
  the three safety properties are proved for every binding.
- *stick_session*: nothing but the crash count is bounded, at the code's own 3;
  pulls, power cuts, standbys and boots may come any number of times.
- *fetch*: the rest of one release is as long as the rest of the other, one is
  complete, or too long, for the other, and a redirect may be one too many.
  Attempts are not bounded.

Deadlock is checked where the modelled system always has something to do
(`seqlock*`, `ra_job`, `shim_events`, `fetch`). Elsewhere the system really stops (the daemon or the
runner has ended, the loader is destroyed, the console waits for a hand) or the
bound on changes is used up.

## 5. Fairness

- `ExitWatch.FairSpec`: the clock, the daemon's loop, and that a process does
  not survive SIGKILL. The program itself need never answer SIGTERM, and the App
  need never call SDL.
- `RaJob.FairSpec`: the screen polls every frame; a runner works until it ends.
- `AppRunner.FairSpec`: the shell runs and SIGKILL ends a process; the App's
  processes may ignore SIGTERM and fork as they like (within the bound).
- `ShimEvents.FairSpec`: the App reads its events for ever, and not every one of
  its calls meets a torn block. Whether it has events on is its own business:
  where a property needs that, it says so.
- `StickSession.Spec`: the scripts go on (`Loop`), and the watch does (`Watch`): two
  shells, each with its own steps. Nothing is asked of the user, the kernel's
  writeback, the stick or the power, and the launcher need never leave by
  itself, except without a stick, or on a dead mount that no watch is there to
  see (one that could not start from it), where it dies at its first file.
- `CoverLoader.CLFairSpec`: `notify_one` is reached, a *notified* worker wakes, a
  decode ends, the destructor's join goes on once it can. A wake-up that nobody
  notified is allowed but never relied on.

## 6. What is proved

Each theorem is about every value of the constants the module's assumptions
allow: every number of pads, players, readers, runs, paths and releases, and
behaviours of any length. An invariant that a run checks is seldom inductive;
`IInv` of each proof module is the strengthening, and `Inductive` says that it is
one. The proofs follow the actions: one lemma or step per action, and under it
one per part of the invariant that the action can disturb.

**SharedState_proof.** `TypeCorrect`, under every memory order.
`SnapshotIsConsistent` (every accepted snapshot is one that was settled),
`TornIsRefused` (a block abandoned half written is never accepted) and
`ImplementsRegister` (`Spec => PadRegister!Spec` under the refinement mapping)
assume `Memory # "relaxed"`: they hold where the words stay on their side of the
sequence, which the code's memory orders do not ask of the console's ARM. There
the register is refuted by `seqlock_arm`. `IInv` adds, of the writer, which words the write under way still has
to store and that an idle writer leaves memory equal to `settled`; and of each
reader that *would* be accepted by its second load, that every word it has so
far is a word of `settled`, as long as no write began since its first load. The
lemma `AcceptedIsSettled` joins them: two equal even loads, at most `MaxLag`
writes apart on a modulus above `2 * MaxLag`, mean that no write began between.
Two theorems are about *every* memory order, and so about the console, both from
`QuietInv` (`InductiveQuiet`): `QuietReads`, a snapshot that no write overlapped is
the contents; and `DeadBlockIsRefused`, of a block whose daemon died inside a
write no attempt begun since the odd sequence is accepted, since such an attempt
would have begun under an even one.

**KernelPads_proof.** `TypeCorrect`; `NodesAreUnshared`; `OursAreTold`, from
`IInv`. The argument counts: the virtual devices that SDL has listed and the
daemon has not claimed, and those SDL has yet to be told of, are together no more
than `pendingOwn`; and as long as no lookalike comes late, every listed lookalike
is in `seenBefore` and no virtual device is, so what `isOwn` takes for ours is
ours, and `pendingOwn` has not run out when it comes. So the pads that
`Kernel::ensure` notes before it makes the first virtual device carry the whole
guarantee. (`IdsInv`: an id is given once, to one device of the list.)
`PadsHavePlayers` and `RealPadsAreHeld` speak of a quiet moment only, so `PlayInv`
has to say what everything still on its way will do: the last word of the kernel
about a device agrees with its node, and SDL's list does where no word waits
(`WordInv`, `ListInv`); a player's joystick is in the list, or an event says that it
has gone (`SlotInv`, `QueueInv`); a real pad in the list plays, or the scan or an
event will come to it, or it was one too many (`HandledInv`); and a player's pad is
held, or about to go, or was let go of by another of its make (`SilentInv`). Only
`HandledInv` needs that no pad was taken for ours and no event misdirected: that
nobody plays with a pad that has gone holds without it, and so does the silence.
`RealPadsAreHeld` is about what was taken over staying held. It excuses a pad that
was let go of with a sibling, and an evdev pad whose node was not found or could
not be opened (`held = NoNode`): the App hears these beside the virtual pad, and the
daemon only logs it (section 7).

**AppRunner_proof.** `TypeCorrect`: the stops never nest deeper than SIGTERMs were
sent (`DepthInv`). `NothingIsLeft`: a trap's stop may overwrite `ab_left` and
`ab_mode` of the stop it interrupts, between that one's listing and its SIGKILL.
It does no harm, since an inner stop returns only when every marked process is
gone, held in the kernel with its SIGKILL, or forked since the last listing,
which is all that the outer one was after (`StopInv`).

**Launcher_proof**, of two services of the launcher. Of `RaJob`: `TypeCorrect`;
`OutcomeIsItsRunners` and `ProgressIsForward`, both from `IInv`: the launcher
has a child exactly while the job says that it is running, and it is the latest
runner (`ChildInv`); a run that is not started has left nothing (`FreshInv`); of
a job that started alone no other runner is at work, so what is in the file, and
in the job, is what *this* runner wrote, and no further than it has come
(`OwnInv`). Of `CoverLoader` (whose `Init`, `Next` and `TypeOK` carry a `CL`, as
one module proves about both): `CLTypeCorrect`, `ClearForgets` (no image begun
before the last `clear()` is handed out) and `DecodesOnce`. The strengthening,
`FlightInv`: an image that the worker will be allowed to keep was begun after
the last `clear()`.

**ShimEvents_proof.** `TypeCorrect` (with the queue's limit), `NothingTwice`,
`LastWordStands`: for any number of pads, elements and keys, any layout and
bindings, and any limit. The two properties are about what the App will have heard
at the end; `QueueIsRight` says it of the whole queue. Of every thing whose changes
are followed up, the queue is *steady*: its first event changes what the App takes to
be so, each changes what the one before it said, and the last says what the shim has
accounted for; without an event of it, the App and the shim agree. When events were
dropped only the first part is lost. Steadiness is kept by appending an event of a
thing that changed, or of another thing (`SteadyTold`, `SteadyLonger`), by dropping
the oldest (`SteadyTrimmed`) and by giving the App the first (`SteadyGiven`), which
is where `NothingTwice` comes from. That `update` appends just such events is
proved along its loops: the elements of `diff` and of `KeyboardMode::update`
(`TellSteady`, `DiffSteady`, `PressSteady`, `KeyboardFits`), and the pads
(`LookAtFits`, `FilledFits`). A key that several elements or players hold is the
point of `PressSteady`: it changes in what is accounted for exactly when
`heldElsewhere` is false.

The loops are recursive functions. That such a function exists and what all its
values have in common are lemmas (`Recursion`; `Induct` and `Walk`) about sets
of natural numbers, proved from the least counterexample
(`NatLessThanWellFounded`), since the provers cannot use the induction theorems
of the library.

**StickSession_proof.** `TypeCorrect`; `CleanVolumesAreSound`, `HarmIsSeen`,
`SessionsAreMarked`, `StandbyUndisturbed`. `IInv` ties what no script can see to
what one can: a loss that is owed a check and has not got by (`Pending`) still has
its marker on the volume, and its flag unless `poweroff_instead` has cleared it,
or the script is at the check it owes (`HarmIsKnown`); a volume mounted for
writing is flagged dirty (`MountedIsDirty`); where the script is says what is
mounted (`MountIsWhere`) and what the watch can be doing (`WatchIsWhere`).
`CleanVolumesAreSound` and `HarmIsSeen` carry the exemptions of their properties: a
flag that `poweroff_instead` cleared, a stick that the wait after a wake mounted,
and, outside of `Owed`, losses that left no marker and checks that failed.

**Fetch_proof.** `TypeCorrect`; `OkMeansWhole` (an attempt that ends in Ok over
pieces of one release has left the server's whole file, unless the body had no
announced end), `StoppedIsHarmless` (with `--continue` a stopped attempt keeps
what was there unless the server starts over, without it it leaves no part).
`IInv`: every piece is where it was in its release, whichever that was
(`InPlace`), and while a body arrives the file ends where its next piece belongs
(`Arriving`), which is what makes a 206 fit.

**ExitWatch_proof.** For every hold, grace and pair of Reset counts, and however
late the daemon's cycles are: `TypeCorrect`, and `KillLeavesGrace`
(`Spec => KillAfterGrace`). The property compares two clocks, so `GraceInv` ties
both to the time since the first SIGTERM: once the hotkey has asked, its own
count is no further than that time; and once Reset has asked, neither are the
cycles since, each of which has at least one tick, counted from the current
cycle's first tick on (`CyclesSinceTerm`).
`HoldIsUnbroken` (`Spec => HoldWasUnbroken`): a release that outlasts a cycle was
seen by one (`SpanInv`), so a count is never longer than the time since.

Every invariant and every safety property that a passing run checks is proved, and
`QuietReadIsExact` besides.
Only model-checked: the liveness properties, which are out of the prover's reach, as
ENABLED is: `HoldingEnds`, `ResetEnds`, `TermEndsIt`, `JobEnds`, `WantedComes`,
`LeavesInTheEnd`, `KeysComeUp`, `QuitIsHeard`, `PulledIsAnswered`.

## 7. Where code and text disagree

Two findings have a run that shows them.

1. **Torn snapshots on ARM** (`seqlock_arm`). `shared_state.h:59` promises "all
   pads at one instant"; the release store at `shared_state.cpp:77` does not
   keep the plain stores after it in place, nor the acquire load at `:134` the
   plain loads before it. A release fence behind the one and an acquire fence
   before the other close it: that is `Memory = "fenced"`, for which the
   theorems hold.
2. **A pulled stick that is not checked** (`stick_pulled`). `selection.sh:739-742`
   says that after five minutes with nobody there the console stands by and that
   "the same wait" follows every wake. It does not: `stick_after_wake` (`:563`) has
   forgotten that the stick was pulled, and an exFAT or ext stick is mounted
   unchecked. The standby after that removes the marker, and the next boot takes
   the flag for Sony's and clears it.

Eight more are stated by a formula of a module that no run checks, since it does
not hold; put it into the cfg of the run to see TLC break it (with one kind of
stick for those of `stick_session`, and the others of the cfg taken out).

- *A pulled stick whose flag the power off clears* (`LostKeepsFlag`, run
  `stick_session`, FAT). This one and the next are about `checkstick.sh:8-10`: a session
  that ended in any other way than through the standby "leaves the marker, the
  flag stays, and Windows gets to check the stick". `/tmp/ab_stick_owned` is made for
  the stick of the boot (`checkstick.sh:81`) and outlives a pull. A FAT pulled in use
  that comes back only once the console sleeps again, while that suspend is
  refused, is mounted for the log by `poweroff_instead`, and its flag cleared
  (`selection.sh:198`).
- *A wake's marker is not synced* (`WokenKeepsFlag`, same run, exFAT). `stick_mounted`
  touches it (`selection.sh:526`) without the `sync` of `checkstick.sh:91`: a stick
  lost before the kernel writes it back has no marker, and the next boot clears
  its flag.
- *A standby that still writes* (`CutKeepsFlag`, same run, FAT). "the session ended
  cleanly - checkstick.sh may clear the flag next boot" (`selection.sh:608`), but the
  log, `poweroff_reason` and the marks are written behind the removal of the
  marker: a power cut there looks like a clean end.
- *Our own device as a player* (`OwnNeverAPlayer`, run `kernel_pads`).
  "our own virtual pads ... never one of the players" (`abpadd.cpp:411`); a console
  pad plugged in between the creation of a virtual device and its notice is
  taken for it (`:181`), and the virtual one then for a player's.
- *A pad heard twice* (`RealPadsAreSilent` without its first disjunct, or without
  `held = NoNode`, same run).
  `Siblings::grab` takes every node of a vendor and product, another present pad's
  too; when the first player's pad is unplugged the destructor frees them all,
  while the other plays on (`kernel_pad_linux.cpp:373`): the App hears that pad
  and its virtual one. The evdev half has a relative: two pads of one kind are
  "the same pad to everything after this" (`abpadd.cpp:310`), but once opening a
  node has failed for the first, the second holds the first one's node, and the
  grab goes when the first pad does.
- *An old run's last line* (`OkMeansDone`, run `ra_job`). "an old run's last
  line must not read as this run's" (`ra_job_service.cpp:121`); a runner that
  outlived its launcher ends the next job with its own line.
- *The shim quits for two short presses* (`ShimHoldWasUnbroken`, run
  `exit_watch`). "Releasing before that starts the count over" (`hold.h:36-37`)
  holds for the daemon, which samples on time; the shim samples only when the
  App calls SDL (`shim_state.cpp:311`).
- *Every App hears the quit* (`QuitIsHeard` without `wants`, run `shim_events`).
  `docs/virtual-gamepad-plan.md:165-169` says that in "*either mode*" the hotkey
  "pushes `SDL_QUIT`", that `SDL_Init` is intercepted, and that "a keyboard-only app
  must not be able to leave the joystick machinery switched off"; no `SDL_Init`
  is interposed, and an App that calls `SDL_JoystickEventState(SDL_IGNORE)`
  hears neither keys nor the quit (`abpad_shim.cpp:708`).

Remarks from reading, each about a step that the models do have, or that section
8 lists:

- For an SDL 1.2 App each controller event ends its poll loop with 0
  (`abpad_shim.cpp:716-717`, `writeSdl1`): two moving sticks queue more of them in
  a frame than one frame's loop takes away, so the queue can reach its limit and
  lose a release under an App that reads its events (`LastWordIsRight` is about
  what is left).
- `ra_job_service.h:25` says that at the end "a job still running is stopped
  (SIGTERM) and reaped"; the destructor (`ra_job_service.cpp:68-73`) does not reap.
- `app_env.sh:276-277` says that `ab_app_stop` "never comes back while any of it
  runs"; a process forked between the last listing and the KILL, or one that
  dropped the mark and lost its parent, is left (`LeavesNothing` names these).
- `app_env.sh` waits for the block (`:246` on: the wait ends when it exists), which
  the daemon creates before its three seconds of `settle` and before
  `writeMappings` (`abpadd.cpp:1153-1187`). So `/tmp/abpad.state.mappings` is not
  there yet and `SDL_GAMECONTROLLERCONFIG_FILE` is hardly ever exported, contrary
  to `abpadd.cpp:486-493`.
- `checkstick.sh:23` says "before anything of ours writes to it"; a volume whose
  check *failed* keeps its flag only until a clean standby has removed the marker,
  after which the next boot clears it (`"failed" \in passed`). A volume that a PC
  left dirty is cleared unseen for the same reason.
- `poweroff_instead` clears the flag when `/tmp/ab_stick_owned` is there, even if
  the unmount failed five times (`abfatflag.cpp:12`: "Use it on an unmounted or
  read-only-mounted volume only").
- `checkstick.sh:80` writes to its log on the stick that `:75` has just mounted
  read-only.
- The watch's `umount -l` (`ab_stickwatch.sh:116`) would detach a stick that the
  loop has mounted meanwhile. The model leaves this out: `FindsStick` and
  `WaitGivesUp` wait until the watch is done (`watch # "killed"`), since the wait
  for a stick takes longer than the watch's last two commands.
- `fetch.h:16` counts "the connection dropped" as `NetworkError`; a reset of a
  body without an announced length is `Ok`, which is why `OkIsWhole` leaves such
  bodies out.

## 8. What is not modelled

*Whole parts.* Pure data (mappings, profiles, layouts, key names, evdev tables):
no order or time in it, and unit tests of its own. padtest, abdialog, absplash,
the example, build scripts: nothing to go wrong that TLC would reach. abupdate
and the launcher's screens: their state is in the submodule `autobleem-core`,
which is not in this tree. The carousel, the menus and the screens that are here
run in one thread, draw, and call that library.

*In what is modelled.*

- `KernelPads`: the hide list, the hold of touchpads and motion sensors, button
  values (`GrabbedPad::poll`, `UinputPad::update`), and SDL's way of giving a hidapi
  pad another instance when it changes its shape.
- `RaJob`: free space, wording, and the runner's own work.
- `AppRunner`: times of waits, the preparation of the environment and the start
  of the daemon (the first half of `app_env.sh`).
- `ExitWatch`: the text of hotkeys (a combo is one bit).
- `ShimEvents`: axes, hats, a mod's remap, and two threads of one App.
- `StickSession`: the watch's exit when somebody else has let the stick go,
  `AB_MARK_REMOUNT`, the update of the scripts themselves, device names, the bus
  reset and WiFi of a resume. "Ten minutes" and "five minutes" are a choice that
  may fall either way. An exFAT's flag is set and cleared by its driver as a
  FAT's is; an ext has none. The watch's listing of the processes and its SIGSTOPs
  are one step (`WatchStops`): a process forked between the two escapes in the code,
  and could mount a second stick over the dead one, which the one mount of the
  model cannot say.
- `Fetch`: `Content-Range` is believed and no `If-Range` is sent, as in the code.
  Bytes beyond the announced length, 1xx answers, `--head`, output to stdout,
  URLs and headers as text, and TLS are left out.

The share of the tree's lines that the modules stand for is small for two
reasons. About 60,000 of its 93,751 lines of implementation are headers of SDL
that the toolchain directory carries; and most of what is left is screens and
tables. The parts with order, time, failure or concurrency in them are those
above.

## 9. Plan

Written in this order, the most important behaviour first: `PadBlock`,
`PadRegister`, `SharedState`; `ExitHold`, `ExitWatch`; `RaJob`, `KernelPads`,
`AppRunner`, `CoverLoader`, `ShimEvents`; `StickSession`, `Fetch`. All of these are
done, with the theorems of section 6. What would come next:

1. `AppStart`: the first half of `app_env.sh` and the daemon's start (the block
   that is removed and made again, the lock of a daemon that lingers, the wait,
   the mappings), composed with `AppRunner` and `ExitWatch`.
2. Two threads of one App over `ShimEvents`.
