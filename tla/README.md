# PENTA in TLA+

PENTA turns a PC into a console: a root daemon (`daemon/pentad`), a full-screen
Godot menu (`menu`), an image with its first-boot scripts (`image`), and tools
that put the image on a disk (`tools`). These modules model the parts whose
correctness depends on the order in which things happen. Paths below are
relative to `src/`.

## Inventory

| Component | State | Operations | Hard behaviour |
|---|---|---|---|
| session manager, `daemon/pentad/session.py` | `_proc`, `_running_uid`, the processes | launch, close, `_reap` | check before an await; the reaper and close() waiting for the same process; kill after 8 s; systemd restarts the daemon |
| IPC, `daemon/pentad/server.py`, `menu/core/ipc_client.gd` | connections, pending callbacks, next id | request, dispatch, emit, hang-up, reconnect | events between request and reply; one slow command holds up the connection; a connection that drops with requests pending |
| library, `daemon/pentad/titles.py` | titles by uid, play time | refresh, touch, sorted | rebuilt from disk while the menu shows an older list; providers that fail |
| command table, `daemon/pentad/__main__.py` | the services | one handler per command, `emit_tracked`, `hardware_loop` | which event is sent before which reply |
| installer, `daemon/pentad/installer.py` | `_running`, dd | list_targets, install, `_clone` | check before an await; disks that change between the listing and dd; dd and its pipe beside the task; failures half-way, also of the daemon |
| install screen, `menu/screens/installer.gd` | phase, targets, focus, hold | open, close, move, hold Cross, events | a list that arrives late; requests repeated in each frame; the daemon dying |
| home, `menu/screens/home.gd` | cards, `_running_uid`, veil, overlays | confirm, events, hand-offs between overlays | launches that are refused while another title runs; restart of the daemon |
| Control Center, power menu, settings, library, store, profile (`menu/screens`) | open, visible | open, close, tiles | fades: close() ends after the open() of another |
| router, `menu/core/input_router.gd`; PS watcher, `daemon/pentad/inputs.py` | `_consumed`, `confirm_is_south`; `_tasks`, `pressed_at` | Cross, Circle, PS, repeat; rescan, watch | one flag for all overlays; PS delivered twice; presses timed on a loop that others keep busy |
| network, `menu/screens/network.gd`, `daemon/pentad/network.py` | list, phase, password | scan, choose, type, connect | a scan answered while a password is typed; a closed screen; the daemon dying |
| cover art, `menu/core/art.gd` | memory, queue, active, failed, files | get_art, fetch, done | requests for what is in flight; transient failures |
| controllers, `daemon/pentad/dualsense.py` | devices, last battery | refresh, poll, set the lights | none that is reached: see "Where the code and its documents disagree" |
| flashing, `tools/flash-resume.sh` | raw image, progress file, stick | decompress, write segments, verify | drops, interruption, another stick |
| downloads, `tools/pget.sh`, `zipget.py`, `zipfinish.py`; `lanserve.py` with `curl -C -` in `setup-windows.ps1` | parts; the copy of the client | split, fetch, top up, join; answer a range, resume | interrupted parts, boundaries, numbers that outgrow their field |
| stick installer, `image/installer/.../penta-install`; first boot, `image/mkosi/.../penta-mount-data` | disks, mounts | choose, confirm, write; subvolumes, mounts, links | the wrong disk; mounts that are not there yet |
| power, storage, self-test, beacon, session script | - | one command each | none to speak of |

They meet in four places: the TCP connection of the menu (one request loop per
connection in the daemon, one callback per request in the menu), the events
that the daemon pushes to every connection, the router's one flag, and the
processes and disks that the daemon shares with the rest of the machine.

What makes each correct is listed below with its runs; the hazards the
properties are aimed at are in `PROJECT.json`.

## Modules

Every module is plain TLA+, one action per handler, callback or step between
two awaits. A module `X` is checked through `X.cfg`, on `MCX` where the instance
needs definitions of its own. The theorems are in modules of their own, `X_proofs`;
`Installers_proofs` holds those of both programs that write disks, `Screens_proofs`
those of three parts of the menu, and `Delivery_proofs` those of what it composes.
Where one of these extends several components their definitions have distinct
names (`CourierSpec`, `NetworkSpec`, `ArtSpec`). Definitions named
`Mutant: ...` in their comment are the bugs that the properties are tested
against: they are not part of any `Next`.

| Module | Models | State and its counterpart |
|---|---|---|
| `OneTitle` | what the session manager promises: at most one title holds the console, announced before it can be released | `claim` (someone launches or runs), `playing` (a process lives), `shown` (`running_uid`) |
| `TitleSession` | `session.py` with the handlers of `__main__.py` on any number of connections | `proc`, `uid` are `_proc`, `_uid`; `pc`, `arg` say where a handler is suspended and with which process; `reaper`, `waits` are the `_reap` tasks; `st` is what the operating system knows |
| `Ipc` | `server.py` and `ipc_client.gd` | `pending`, `nextId`, `up` of the client; `srv`, `cur`, `inbox`, `outbox` per connection of the server; `ran`, `calls`, `answer` record what happened to a request |
| `LaunchFlow` | `home.gd` from the card to the title and back, with the library | `veil`, `consumed`, `running`, `shown` of the screen; `handler`, `proc`, `known` of the daemon; `disk`, `broken` of the world |
| `OneInstall` | what the installer promises the screen: installs run one at a time, and how the last one ended is known | `writing` (the device of the clone that runs), `last` (its outcome) |
| `DiskInstaller` | `installer.py` | `running` is `_running`; `pc`, `dev`, `listed` are the suspended `install()`; `stage`, `target` are the `_clone` tasks; `dd`, `copied`, `lines` are the dd of each, what it has written and what of its progress waits in the pipe; `at` says which disk has which name now, `since` since which swap; `looked`, `saw`, `meant` which disk the user saw, and `opened`, `relabelled` which one dd and sgdisk opened |
| `InstallFlow` | `installer.gd` with the service behind it | `phase`, `list`, `index`, `hold` are the screen's; `steady`, `held` measure how long Cross really was down on one disk |
| `ModalInput` | router, home and the eight overlays as takers of buttons | `open`, `visible`, `fades` (a `close()` that waits for its tween), `consumed` (`Router._consumed`), `armed` (`_confirming`), `installing` (the install screen's phase) and `install` (what the installer behind it does), `veil`, `asked`, `runs` (the title as home, the wire and the daemon know it), `ps`, `events` |
| `NetworkFlow` | `network.gd` and `network.py` | `phase`, `list`, `index`, `typed` (whose password is in `_password`), `prompt`; `saved`, `air` of the service |
| `ArtCache` | `art.gd` | `memory`, `failed`, `queue`, `active` as in the code; `jobs` the downloads under way; `file` what is on disk; `waiting` the cards with a placeholder |
| `Controllers` | `inputs.py`, and what makes it look again in `__main__.py` | `tasks` the watchers with what the kernel holds for them and their `pressed_at`; `plugged`, `held` the world; `length`, `told` what a press was and what was said of it; `heard`, `late`, `lost` what the properties excuse |
| `RangeFetch` | `zipget.py`, `zipfinish.py` | `part`, `more` are the files `p<i>` and `p<i>.part`; `job` the futures of the pools; `out` the output; bytes are named by their offsets in the archive |
| `FlashResume` | `tools/flash-resume.sh` | `raw`, `saved` the two files; `offset`, `retries` the variables; `on` what each stick holds |
| `LanServe` | `lanserve.py`, and the client's curl | `copy` is the client's file, `resumed` the offset it asked from; `position`, `left` the handler's |
| `Delivery` | the way of an image to a machine: a download, then a stick or the LAN | `RangeFetch` by EXTENDS, `FlashResume` and `LanServe` by INSTANCE; neither starts before the download has said that it is done |
| `ImageInstall` | `penta-install` of the courier stick | `mnt` what is on `PAYLOAD_MNT`; `offered`, `seen` the list; `chosen` the target; `step` where the script is; `name` what the kernel calls each medium; `entries` the media the firmware has a PENTA entry for, any at the start; `late` the media plugged in since the list was made |

How they fit together: `TitleSession` implements `OneTitle` (refinement through
`INSTANCE ... WITH`, the property `ImplementsOneTitle`), and so does the small daemon
inside `LaunchFlow` (`ServesOneTitle`). `DiskInstaller` implements `OneInstall`
(`ImplementsOneInstall`), and so does the small installer inside `InstallFlow`
(`ServesOneInstall`). The menu's modules thus assume of the services what the services'
own modules deliver; where that needs a condition (no two launches, or installs,
suspended at once) the condition is stated there. `LaunchFlow`, `InstallFlow` and
`NetworkFlow` contain the two ends of a conversation and the wire between them,
with the guarantees of `Ipc` built in: answers in the order of the requests, each
callback called once, all of them failing when the connection drops. These are
theorems about `Ipc` (`AnswersComeInTurn`, `NobodyWaitsInVain`, `EachAnsweredOnce`).
`LaunchFlow` has one client and therefore leaves out the interleavings of `TitleSession`;
`InstallFlow` likewise reduces `DiskInstaller` to accept, refuse, progress, done.
`Delivery` composes three modules that share no
variable but the image itself: what comes out of the first is what the others
begin with. What a press of the PS button does once `Controllers` has reported it
is in `ModalInput`. `ModalInput` leaves out what the screens ask
the daemon and keeps only that answers come at any time.

What is abstracted throughout: titles, disks, networks and pictures are model
values; the text of replies, progress figures, animation values, colours, log
lines and the parsing of `lsblk`, `nmcli`, `dd` and manifests are reduced to
the outcomes the code tells apart.

## Runs

| Run | Question | Bounds, and why they are enough |
|---|---|---|
| `title_session` | One title at a time, tracked, its exit reported once and truly; a close is final; the manager implements `OneTitle` | two connections, one of which launches; two launchable titles of three; as many processes as it takes for one to be reaped while the next starts |
| `ipc` | Each request is settled once, with its own answer, in order; what is waited for is with the daemon or on its way back, and none waits for ever | two boots of the menu (ids start over), two requests each, three connections (old, new and one that hangs up), one event that can fall before, between or after the replies |
| `launch` | Home and daemon agree on what runs; home is covered while it does; the veil lifts; the library follows the disks | two titles of two providers, so that one can fail; two launches, so that an exit meets the next launch; two requests in flight; one death of the daemon |
| `launch_restart` | violation: the veil after a restart of the daemon | as `launch`, without the Control Center |
| `disk` | The boot disk is never written; one clone at a time, that ends and is whole when it is called done; only what was confirmed, unless its name has changed hands | one connection, two names, four disks of four sizes (one too small for a target, one smaller than the source), three swaps: enough for a disk to be replaced between any two of list, probe and dd and to come back; a pipe of one line, so that dd must wait for its reader; two clones; one death of the daemon |
| `install` | Cross was held three seconds on the disk that is erased; "installed" and "do not power off" are true | two disks; a hold of two frames, so that it can be interrupted; two requests in flight, so that the request of the next frame exists; two clones; two of opening, plugging and dying |
| `modal` | The input is never dead; one overlay at a time owns it; under the veil of a title home is inert | all overlays but the store and the profile, which are closed like the library and lead nowhere, both buttons, both lengths of the PS button, the daemon quiet or not; one fade at a time. With two, other interleavings of fades exist, which only the busy daemon can cause; all three properties are proved for any number |
| `controllers` | A press is reported once at most, as what it was; it is not swallowed | two gamepads, so that one is pressed while the other comes, goes or cannot be opened; three presses, so that one can be lost or late and the next told; one stall of the loop, one pull, one restart, any number of rescans |
| `network` | A password goes to its network and is not kept; connecting ends | two networks, one secured: enough for a scan to put another one in the row; two requests in flight |
| `art` | The slots are full while anything is queued; every card settles; a cached picture stays | three pictures, one that cannot even be requested; two slots; two copies of a request; one death of the menu |
| `delivery` | What is put together is the member asked for; what the progress file counts is written; the client of the LAN ends with the image; the tools get to their end | four members of an archive whose numbers fit the directory's fields all, partly or not, one of them empty; up to four connections, so that ranges are of different lengths and some are empty; two workers, two failures. An image of nine units with two to the megabyte and two megabytes to the segment, so that the last segment is short and the image is not a multiple of a megabyte; three sticks, one too small; three drops, two stops; two cuts of the LAN |
| `image` | Neither the stick nor the medium of the image is written, nor a disk not confirmed; what is entered in the firmware was written | the stick and two media under three names, each with or without an image, a label, a partition table, an old boot entry and enough room; one pull, power cuts at will. The two media and the names are symmetric, and no liveness is checked |

A property that holds only under a condition states the condition: `~ busy` (the
daemon reports no PS button and Settings starts no Steam), `patient` (the user
waits for a scan before choosing), `opens = 1`, `deaths = 0`. Where an
exception can be made for the one disk or press it is about, the condition is not on the
whole behaviour: `Moved` (the name of this disk has changed hands since the user looked),
`late` of `ImageInstall` (this medium was plugged in after the list was made), `late` and
`lost` of `Controllers` (this press had to wait for a busy loop; its watcher was replaced
or its gamepad gone in the middle of it). What happens otherwise is told below, under "Where the code and its
documents disagree". `CHECK_DEADLOCK FALSE` stands in the two configurations
whose system may stop: the cache with everything settled, and the delivery when it
is done.

## Fairness

- Handlers, callbacks and tasks that are ready run: asyncio's loop and the
  menu's frames are fair (`LaunchDone`, `ReapStarts`, `Deliver`, `Hear`, ...).
- What the code bounds ends: `close()` after eight seconds, HTTP requests after
  `TIMEOUT`, `nmcli` through its own timeout, a tween after its duration, a
  process that got SIGKILL.
- dd runs: each of its writes to a disk ends or fails, though it waits as long as nobody
  reads its progress; `CloneEnds` rests on that and on the task's being served.
- For `Delivery` only: the user calls the tools again, plugs a stick in again and
  runs the client's script again, which is what they ask for when they fail. What
  fails is bounded (`MaxTroubles`, `MaxDrops`, `MaxStops`, `MaxCuts`): none of the
  tools ends on a line that fails for ever.
- `Controllers` states none: what it says is about what has been reported, and a
  press may get lost.
- Nothing is asked of the user otherwise, of titles (they may run for ever and
  ignore SIGTERM), of the network, or of the daemon's staying alive.

## Proofs

The proofs hold for every value of the constants that satisfies the named
assumptions, one per module (`SessionAssumption`, `IpcAssumption`, `FlowAssumption` of
`LaunchFlow` and of `InstallFlow`, `DiskAssumption`, `InstallAssumption`,
`ModalAssumption`, `NetworkAssumption`, `ArtAssumption`, `ControllersAssumption`,
`FetchAssumption`, `DeliveryAssumption`): any number of connections, requests, titles,
disks, names, devices, networks, pictures, slots, presses, members of an archive,
and any sizes of image, megabyte and segment. The bounds of the runs (`MaxPlays`,
`MaxId`, ...) are constants like the others, so that the theorems hold for any of them.

| Module | Theorem | Why it holds |
|---|---|---|
| `TitleSession_proofs` | `TypeCorrect` | inductive as it stands, with any number of launchers |
| | `OverlapIsTheOnlyWay` | of every behaviour in which no two launches are suspended at once (`OneLaunching`), whoever launches. `SerialInv` adds to the properties: a suspended launch is the only thing going on (`LaunchAlone`: nothing is tracked, its process has no reaper yet); the reaper in flight is that of the tracked process (`ReaperOfProc`); what is tracked was really started and is reaped (`Tracked`); each exit is reported by its own reaper (`ReportedOnce`). Without them the invariant is not inductive: a second reaper could clear `_proc` under a live title |
| | `SerialOneAtATime`, `SerialLiveIsTracked`, `SerialReports`, `SerialImplementsOneTitle` | with all launches from one connection (`SerialClients`, what the run has) every behaviour is one of those: a suspended handler keeps its connection |
| | `ExitsAreReal` | with any number of launchers: what was reported as gone has gone, since no process comes back. Reported twice it may be, when launches overlap |
| | `OneLaunchingImplements` | the same invariant; each step maps to the step of `OneTitle` of the same name or to a stutter, which needs the lemmas that `Claim` and `Playing`, defined by CHOOSE, have one candidate |
| `Ipc_proofs` | `EachAnsweredOnce` | `IpcInv`: what the server still holds was asked by this boot and is in one place only (`Serving`); a reply that is under way belongs to a request that waits and carries its outcome (`Replying`); whoever was called back was answered, by this very request, or failed with the connection (`Answering`); whoever is not called back is pending, or the menu of that boot is gone (`Calling`) |
| | `NobodyWaitsInVain`, `AnswersComeInTurn` | `Awaiting`, a part of `IpcInv`: who waits has its answer under way, or comes after all answers under way and is then with the server task unless that has died; what is under way or with the task is waited for. With the rising ids of `Replying` the answers that have not arrived are those to the requests that have waited longest |
| | `OrderIsKept` | `Chained`: each line in the outbox carries the number of events before it, one more than the line before if it is an event itself, so that the menu will have seen them; by `Replying` and `Answering` replies come in the order of the ids |
| `LaunchFlow_proofs` | `MenuAgrees` | `FlowInv`. The queue of messages mixes replies with `title.exited`, so `Paired` says that there is a map `f` from the requests without an answer to the replies, in order (`Pairs`), that the reply to a launch says what runs (`Launched`), and that the exit of a title comes after the reply to its launch (`Ending`). `LastAsked`: a launch in flight is of the title on the veil. Taking a reply shifts the map, sending one extends it; both are lemmas |
| | `CoveredMeanwhile` | `Couch`, also across deaths of the daemon: without the Control Center there is one launch at a time, and the veil is on and the router off from the confirmation until the exit is heard or the launch has failed |
| | `SessionServed` | `Serves`, a part of `FlowInv`, says that nothing is tracked while a launch is suspended; then each step of the daemon is the step of `OneTitle` of the same meaning, and no step of the menu is one |
| | `PromiseMeans`, `NoTitleIsLost` | that whatever implements `OneTitle` has no title alive but the one that holds the console is proved of the abstract specification, and carried over by the refinement |
| `Installers_proofs` (`DiskInstaller`) | `TypeCorrect`, `BootDiskSafe` | any number of connections: the boot disk keeps its name while it is mounted, `list_targets` leaves that name out, and a clone is only created for a name that was listed |
| | `DoneIsSaidForTrue` | `DdTrue`: what a dd has copied fits the disk it opened, a dd that exited well has copied all of the source, and a task that is past dd has seen it exit well; a dd that runs has a task that reads from it, also across a death of the daemon, which takes both. The sizes `install()` compared, or could not read, are not needed: dd that runs out of room fails |
| | `OverlapIsTheOnlyWay`, `SerialOneClone` | as long as no two calls of `install()` are suspended at once (`OneCall`; with one connection, always): while the call is suspended `_running` is false and no clone exists |
| | `OneCallImplements`, `SerialImplementsOneInstall` | under the same conditions: clones come one after the other (`Successive`), so that the last one that is over says how the last install ended |
| | `OnlyMeantIsWiped` | `NamesStand`: for each name by itself, unless it has changed hands since: what the user saw under it is what has it (`LookTrue`), and so are the disk a call was confirmed for, the one `list_targets` measured and the one a clone is meant for |
| `Installers_proofs` (`ImageInstall`) | `StickSafe`, `SourceSafe` | `Guarded`: what is mounted has a name and keeps it, it is where the image is from the search to the write, and dd is not started for a disk that is mounted. The list is not needed for this: the guard that counts is the last one |
| | `OnlyTheMeantIsWritten` | `MeantInv`: a name has one medium at most (`OneEach`); the list is right about every medium that was not plugged in since (`SeenTrue`), and the choice and the confirmation go back to it (`Standing`). An old entry that could not be deleted is no new one, so that any entries at the start will do |
| `InstallFlow_proofs` | `InstalledIsTrue`, `SomethingToWaitFor` | `FlowInv`, with a map from requests to replies as in `LaunchFlow_proofs`: a start that was accepted is followed by its `install.done`, or its clone runs (`Paired`, `Ended`), so that the working phase has something to wait for (`Waiting`) as long as the daemon lives |
| | `ErasedWasHeld` | `Held`, for one opening of the screen: the hold counts no more frames than Cross was down on the disk in focus (`Steady`), the list does not change under it (`ListedOnce`), and a request in flight names the disk that was held (`Meant`) |
| | `InstallServed` | a start is accepted only when no clone runs, and a daemon that dies ends the clone as a failure |
| `Screens_proofs` (`ModalInput`) | `NeverGoesDead` | inductive with `fades` a sequence: whoever turns the router off leaves an overlay or the veil, whoever closes an overlay leaves a fade, and whoever ends a fade or lifts the veil turns the router on |
| | `ModalOwnsTheInput`, `TitleOwnsTheInput` | `OneOwner`: with a quiet daemon the menu is always at home, in one overlay, in one fade or behind one title, and each of the four says what is open, what fades and what the router's flag is |
| `Screens_proofs` (`NetworkFlow`) | `SentToItsOwn`, `NotKept` | `NetworkInv`: no more answers than requests, each with a list that the air once held (`OnTheWire`); while a password is typed or used the screen is in the phase for it (`Typing`), and with a patient user no scan is in flight then, so that the row is still that of its network (`ForOne`) |
| `Screens_proofs` (`ArtCache`) | `SlotsAreFull`, `FetchedOnce` | `Pumping`. The pump takes the longest stretch of the queue that fits the slots: that there is one is `Greatest` (by the well-foundedness of the naturals), that one request more takes at most one slot more is `OneSlot`; together they give that all slots are taken or the queue is empty (`Pumped`), and that a picture which is not in the queue is left alone. That `active` is the number of downloads under way is counted twice for each request the pump takes: the downloads grow by one (`TakeOne`), the tally of the pump grows by one (`TallyOne`); that they agree after all of them is shown by the least stretch for which they would not (`AllTallied`). An answer takes one off both (`Pictures`) |
| `Controllers_proofs` | `PressesAreTrue` | `PressInv`: a press is under way, has one unread end, or has been told of, and only one of the three (`Counted`); what was told of a press was told once and, unless it was late, is what it was (`Told`); for that the timer of a watcher is right when it reads the end of a press none of whose events waited (`Timed`) |
| | `PressesAreHeard` | `HeardInv`: who was heard at the last look has a watcher; while a press that is not lost is under way its begin is in the queue or the timer runs, and the end of one is read by a running timer (`Heard`); a press that has ended is told, lost or still in the queue with its end (`Pending`) |
| `Delivery_proofs` (`RangeFetch`) | `MemberFetched` | `FetchInv`: the member was located (`Located`, from `FoundIt`: the moved numbers are read in the order in which they were written); each part is the beginning of its range (`PartsGood`), also after an append that was cut short; a download that is called good is whole (`Fetching`); what a top-up brings goes on where its part ends (`ToppingUp`); whoever joins has whole parts and has joined the first `next` of them (`Joining`). It rests on arithmetic for every size and number of connections: the ranges are adjacent, cover the span and end with it (`Ranges`, `AllCovered`) |
| | `PartsAreGood`, `TopUpsLoseNothing` | consequences of the same invariant, worth stating by themselves: the directory can be handed to `zipfinish` at any time, and `zipfinish` only adds to it |
| `Delivery_proofs` | `FetchedIsMember` | the invariant above: what comes later leaves the output alone |
| | `CountedIsWritten` | `FlashInv`: progress is counted in whole megabytes until the end of RAW (`Counted`), and the sticks written to hold, together, the whole megabytes of what was counted, and of the next segment once dd has ended (`Held`). It rests on `Segment` and `DdKeeps`: rounding to megabytes loses nothing between two segments |
| | `LanIsImage` | `LanInv`: what the client has is the beginning of the file, also after an answer that was cut, and the server goes on where it ends |

The invariant of `LaunchFlow`, the largest, was checked with TLC, written with bounded
quantifiers, before it was proved. Several of the invariants quantify over all indices
of a queue or over maps between queues; they are written for the prover and are not
among the runs.

Only model-checked: all liveness (`ExitReported`, `CloseIsFinal`,
`EventuallyAnswered`, `VeilLiftsWhileUp`, `InstalledShowsUp`, `CloneEnds`,
`ConnectingEnds`, `CardSettles`, `Arrives`), for which the prover has no rules
for fairness. Every other property of the runs is stated by a theorem.

The refinements `ServesOneTitle`, `ImplementsOneInstall` and `ServesOneInstall` and
the invariant `InTurn` are proved and stand in no run; to see TLC check them, name
them as a PROPERTY in `LaunchFlow.cfg`, `DiskInstaller.cfg` and `InstallFlow.cfg`, and
as an INVARIANT in `Ipc.cfg`.

## Where the code and its documents disagree

One run ends in a violation:

- `launch_restart`. `menu/screens/home.gd:196`: after a restart of the daemon
  only the library is asked for again. `_running_uid`, the veil and the router's
  flag stay, and the new daemon sends no `title.exited` for a title it did not
  start, so the veil never lifts. `menu/core/ipc_client.gd:4-5` promises that the
  menu can "survive a daemon restart without the user seeing anything".

The others were met the same way, by weakening the condition of a property or
adding one for a while, and are kept as conditions and prose:

- `daemon/pentad/session.py:144`: two connections that launch at the same time
  both pass the check of `_proc`, which is set only after an await. Give
  `Launchers` both connections in `TitleSession.cfg` to see it. "Games run
  *inside* gamescope, one at a time" (line 3) holds until two launches overlap, and
  by no other way (`OverlapIsTheOnlyWay`). Likewise
  `daemon/pentad/installer.py:167`: two connections can start two clones in spite
  of "an install is already running".
- `daemon/pentad/installer.py:178`: the token names the device only. A disk that
  takes the name of the one confirmed before dd opens it is erased in its place,
  though lines 161-162 say that a stale confirmation cannot destroy a disk "the
  user was not looking at". `OnlyTheDiskMeant` excuses the name that has changed
  hands (`Moved`). `penta-install` has the same window (`late`).
- `daemon/pentad/installer.py:195`: when the size of the source cannot be read
  (line 355 answers 0) nothing is compared, although lines 188-193 want to "Refuse
  before touching anything". The clone then fails when the disk is full, which is
  what `DoneIsWhole` can still say.
- `menu/screens/installer.gd:238`: `_hold` is not reset when a list that arrives
  late moves the focus, so a disk can be erased on which Cross was held for less
  than three seconds (condition `opens = 1`). The request is repeated in every
  frame until an event sets the phase; the refusal of the second one returns to
  the list, and the screen can be left while dd runs. And the working phase never
  ends when the daemon is restarted (line 116, condition `deaths = 0`).
- `menu/screens/installer.gd:266-268`: the answer to `install.start` sets the working
  phase without looking whether the screen is open. Circle between the request and
  its answer closes it, and home launches titles while dd runs, though lines 114-115
  say that this is what refusing to close prevents. No property of `ModalInput` says
  that none is launched: the code does not keep it.
- `menu/screens/control_center.gd:140-141`: `close()` clears the router's flag
  whoever had set it, so that over a running title, or over another overlay, home
  takes the buttons again; and `open()` during the fade of `close()` leaves an
  overlay that is open and cannot be seen (condition `~ busy`).
- `menu/screens/control_center.gd:141`: opened and closed over the install screen
  by the PS button, the Control Center frees the router; the working install screen
  lets Cross through, and home launches a title while dd runs, again against
  `menu/screens/installer.gd:114-115`.
- `menu/core/input_router.gd:74`, `daemon/pentad/inputs.py:8`: a press of the PS
  button reaches home from Godot as it goes down and from the daemon as it comes
  up; the second undoes the first.
- `menu/screens/power_menu.gd:151`: `_confirming` stays set after a command that
  worked, so that after a suspend one press is enough; line 144 says "Two presses,
  always."
- `menu/screens/settings.gd:193`: overlays read `penta_south` and `penta_east`
  themselves, so that the swap of Cross and Circle reaches only the home screen;
  `menu/core/input_router.gd:4-6` calls the swap a one-line change.
- `daemon/pentad/titles.py:439`: `refresh()` replaces every title by a new one with
  playtime 0, and home refreshes when it hears `title.exited`: the time played
  does not survive (`daemon/pentad/__main__.py:46-47`).
- `menu/screens/network.gd:319`: the network is read from the list when R1 is
  pressed; a scan that is answered while a password is typed has replaced the list
  (condition `patient`). Line 258: leaving the keyboard does not show the rows
  again that `_choose` hid.
- `menu/core/art.gd:64`: only the queue is searched, so a picture can be fetched
  while it is being fetched; a second answer that is no picture removes the file
  and remembers a failure though the first one was good. `CachedForever` therefore
  speaks of pictures nobody is fetching. Line 96 remembers timeouts as well, though
  line 20 speaks of "404s".
- `menu/screens/home.gd:224`: every library that arrives sets the focus back to the
  first card, also the one asked for because a title has exited; a Cross pressed at
  that moment launches another title than the one that was in focus.
- `daemon/pentad/__main__.py:241`: what the loop compares is the number of entries
  that the last `refresh()` made, which nothing else changes; so a controller that
  comes or goes is noticed only on `controller.rescan`, which the menu sends when
  asked (`menu/screens/control_center.gd:205`, `menu/screens/settings.gd:241`),
  though lines 230-235 say that presence is polled. In `Controllers` nobody
  therefore watches a gamepad that was plugged in since the last rescan.
- `daemon/pentad/inputs.py:8`: a press is measured when its events are read. While
  `storage.usage` walks `/games` on the same loop, a long press is read at once and
  becomes a short one (`late` in `PressTrue`).
- `daemon/pentad/dualsense.py:56`: the uevent is searched for `054C:0CE6`, and the
  kernel writes eight digits, `HID_ID=0003:0000054C:00000CE6`, so that no controller is
  ever found and lights and battery stay as they are; what `_devices` would do with
  the node of a controller that has gone is therefore not modelled. The count in
  `hardware_loop` is then always 0.
- `tools/zipget.py:170`: an empty member asks for a pool of no workers, which Python
  refuses, and the tool ends with a traceback; `zipfinish.py` handles it, so that the
  file arrives. `tools/pget.sh:11-12` says that it resumes; its parts are in a new
  directory, which it removes when it ends (lines 60-61).
- `tools/setup-windows.ps1`: an image that was replaced by another between two runs
  is taken for complete as soon as the old part is as long as the new file, for
  the server's 416 is not an error to the script; `LanServe` has one image.
  `tools/serve-image.sh` serves without ranges, so that its clients start over.
- `penta-mount-data:63,87`: `/games` is mounted with `systemctl start --no-block`, and
  soon after the script asks whether it is a mount point. If it is not yet, Steam is
  not linked to the data volume at the first boot, and once Steam has made a directory
  of its own it never will be, though lines 85-86 say "Point Steam at it before Steam
  ever runs"; and lines 76-79 make and chown the directories under the mount.
- `tools/flash-resume.sh`: an image whose decompression was cut short is used by
  the next run (line 32); the stick is found again by its size alone, so another one
  may get the rest (line 53); the bytes after the last whole megabyte are counted
  and not written (line 86). `MegabytesWritten` says what is left: each whole
  megabyte of RAW, as it is, is on one stick or another. A verification that fails
  is followed by "done" and the removal of the progress file (line 135).
- `penta-install:58-67`: "which device are we running from" is answered with the
  disk the image was found on. With the image elsewhere the stick itself is
  offered as a target; the test of what is mounted then refuses it, which is what
  `StickSafe` proves.
- `penta-install:236-240`: old entries are dropped "so reinstalling does not accumulate
  duplicates", but a deletion that fails is passed over (`|| true`), and the new entry
  comes beside the old one.

## Not modelled

`power.py`, the read-only commands, the self-test and the beacon keep no state and
wait for nothing; of `storage.py` only that it keeps the loop busy is modelled. The
theme and widgets are look and motion. Build configuration, CI and the scripts that
are run by hand from top to bottom (`flash.sh`, `flash-usb.sh`,
`make-installer-stick.sh`, `devsync.sh`, ...) stop at the first error and keep
nothing to resume from. Nor does `pget.sh`; it splits a file as `zipget.py` does.
`penta-mount-data` is one pass at boot; the race in it is told above. Reading
manifests, shortcuts, `lsblk` and `nmcli`, inflating, and the bytes of reports are
conversions whose results are the inputs of the models. `dualsense.py` finds nothing
(see above), and its lights and battery have no other effect. Requests without a
callback (`menu/core/ipc_client.gd:64`) leave nothing to settle and are left out of
`Ipc`; `inputs.py` without python-evdev (lines 49-51) does nothing at all.

## Plan

Done, in the order in which it mattered: the session and the wire
(`OneTitle`, `TitleSession`, `Ipc`), the launch from end to end (`LaunchFlow`),
installing from the menu (`DiskInstaller`, `InstallFlow`), who gets the button
(`ModalInput`), the network (`NetworkFlow`), the cache (`ArtCache`), bytes on
media (`FlashResume`, `ImageInstall`), the PS button (`Controllers`), and the
way of an image from a remote archive to a machine (`RangeFetch`, `LanServe`,
`Delivery`), the last two with proofs of their safety.

All safety properties that the runs check are proved; the wire is proved to be the
queue that the modules of the screens take it for; the services inside
`LaunchFlow` and `InstallFlow` are related to `TitleSession` and `DiskInstaller` by
refinement of a common specification; and what was proved for one client is proved
for any number, with an overlap of two calls as the only exception. Next:

1. `FirstBoot`: `penta-mount-data`, run again after it failed half-way.
2. The wire as a module of its own, which `LaunchFlow`, `InstallFlow` and `NetworkFlow`
   then instantiate instead of each writing down the queue that `Ipc` is proved to be.
