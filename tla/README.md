# A TLA+ model of rendermatic

rendermatic is a digital-signage player: one process that shows a texture, a
video or an NDI source on a display and is controlled over a WebSocket. It has
no unit tests. This directory models its threads and what they share, what it keeps
across starts, and its update script in TLA+, checks the models with TLC on small
instances and proves their safety with TLAPS.

## 1. The system

### Threads

| thread | started by | what it does |
|---|---|---|
| main / render loop | `main.cpp:197-310` | starts everything, then picks video, NDI or texture at every tick |
| WebSocket (asio) | `websocket_server.cpp:73-82` | runs every command handler to its end, one at a time |
| video reader | `VideoDecoder::start` | demuxes packets into the packet queue, rewinds looping files, calls the end-of-video callback |
| video decoder | `VideoDecoder::start` | decodes packets into the frame queue |
| NDI receiver | `NDIReceiver::start` | finds the wanted source, receives its frames |
| Avahi poll | `MDNSAdvertiser::start` | publishes the service, retries with other names |

They share plain atomics, a few mutexes that each guard one field, and two
queues. No lock covers two components, with one exception: the playlist keeps
its mutex while it calls into the video decoder.

### Components

| component | state | operations | called by | what makes it hard | what makes it correct |
|---|---|---|---|---|---|
| Video decoder | FFmpeg context, `m_running`, `m_active`, packet queue, frame queue, playback time | open, close, start, stop, both loops | WebSocket, playlist, main | five joins and wake-ups, queues that survive sessions, looping, back-pressure | no thread outlives the context; sessions do not mix; order of frames; stop returns |
| Frame queue | ring of frames, index, count, DMA-BUF descriptors | push, getFrameForTime, getNext | decoder thread, main | overwrites when full, drops several at once, indices wrap | a lossy FIFO; descriptors go with their frames |
| Playlist | list, index, active, loop, mutex | set, start, next, prev, stop, onVideoEnd | WebSocket, reader thread | callback on the thread that stop joins; mutex held over a join | plays in order; skips what does not open; answers |
| Authentication | key hash, connection table, rate limits | open, close, authenticate, set/clear key | WebSocket | time, counters at their limit, open mode | rate limit; nobody who is in is thrown out |
| NDI receiver | atomics, source name, receiver, frame | setSource, start, requestStop, stop, receiverLoop | WebSocket, main | stop does not wait; name and flag are separate | shows what was asked for last; stopping stops |
| Texture manager | cache, current texture, last use | load, set, clean up, copy | WebSocket, main | file read without the mutex; name and copy fetched apart | no dangling texture; what is displayed is current |
| Identify overlay | active, expiry | trigger, isActive | WebSocket, main | check-then-clear without a lock | ends; (is shown) |
| Configuration | memory, config.json, playlist.m3u | load, change, save | main, WebSocket | the save truncates in place; answers before or without it | what was saved is read again |
| DRM/EGL renderer | buffers, framebuffers, pending flip | render, present | main, kernel events | flips that are late or refused, early returns | no buffer leaks; what is displayed is not removed; frames in order |
| mDNS | Avahi client and group, three copies of the name | publish, rename, callbacks, retries | main, WebSocket, poll thread | three threads, retries, collisions | registered under the configured name, or about to be; what fails is retried |
| A/B update scripts | slots, labels, boot files | check, write, switch | systemd | power cuts between steps | always one bootable slot |
| Boot scripts | markers on the data partition | mount, expand, provision | systemd | power cuts, failed downloads | idempotent |
| Splash rasteriser, GLFW and DirectFB renderers | pixels | draw | main | - | - |

`PROJECT.json` has the same list with the state of each part, and the hazards of
the code, each with its line and the properties aimed at it.

## 2. Modules

| module | models | instance |
|---|---|---|
| `LossyFifo` | what `FrameQueue` promises, as operators: a bounded sequence that loses its oldest frame | used by `VideoDecoder` |
| `LossyQueue` | the same as a specification of two variables, what was queued and what was handed out | refined by `FrameRing` |
| `FrameRing` | `FrameQueue` as written: slots, index, count, descriptors; and the copies of `Texture` | part of `FramePath` |
| `DecoderSession` | what `VideoDecoder` promises those who command it, about `m_running`, `m_active`, `m_loop` and its reader | refined by `VideoDecoder` and `Playlist` |
| `PageFlip` | `DrmEglRenderer::present` with the kernel's CRTC | part of `FramePath` |
| `FramePath` | composition: decoder thread, ring, render loop, renderer, kernel | `MCFramePath` |
| `VideoDecoder` | `VideoDecoder`, its packet queue and two threads, the video branch of the render loop, the caller | `MCVideoDecoder` |
| `Playlist` | `PlaylistController`, the WebSocket commands on playlist and video, the reader thread that calls back | `MCPlaylist` |
| `NdiReceiver` | `NDIReceiver`, its thread, the two commands, the NDI branch of the render loop | `MCNdiReceiver` |
| `Display` | `TextureManager`, `SplashController`, start-up of the texture, the texture branch of the render loop | `MCDisplay` |
| `OtaUpdate` | `ota-update.sh`, the images it installs, boot selection, power | `MCOtaUpdate` |
| `AuthManager` | `AuthManager` and the gate in `WebSocketServer::onMessage` | `MCAuthManager` |
| `ConfigStore` | the configuration in memory and in `config.json`, load, save and their failures | part of `Device` |
| `MdnsAdvertiser` | `MDNSAdvertiser` on Avahi | part of `Device` |
| `Device` | composition: main's start, WebSocket thread, Avahi's poll thread, kill, power cut, restart | `MCDevice` |
| `VideoDecoderProofs`, `PlaylistProofs`, `NdiReceiverProofs`, `DisplayProofs`, `AuthManagerProofs`, `OtaUpdateProofs`, `FramePathProofs`, `DeviceProofs` | theorems about the module they are named after | |

How the models read the code:

* An action is what one thread does between two accesses that another thread can
  come between. A section under a mutex is one action; two accesses to atomics
  are two. Only the test of `m_running` at the head of the decoder's two loops is taken
  together with the thread's previous step, where nothing can tell the two
  apart except that the thread may learn of a stop one step later.
* A thread is a record whose `pc` names what it does next. `none` means that the
  `std::thread` object is empty or joined, `done` that its function has returned
  and a join would succeed.
* A thread object that is assigned while joinable, or joined by its own thread,
  and a call of an empty `std::function`, terminate the program: `up` becomes
  `FALSE` and nothing happens any more.
* Libraries are modelled by their outcomes: an FFmpeg or NDI call, or a file read,
  that can fail may fail, at any time.
* Media time is counted in frames, other time in seconds (`Tick`).
* Frames and packets carry, beyond what the code stores, the session, pass and
  position they came from: this is how properties tell old ones from new ones.
  `recent` and `setter` (AuthManager), `slipped` (Display), `fault` (PageFlip),
  `asked` and `harm` (ConfigStore), `overlapped`, `raced` and `refused` (Device), `damaged`,
  `broken` and `exposed` (OtaUpdate) are history variables, no action reads them but to carry
  them on.

### VideoDecoder

`caller` is the WebSocket thread inside `play_video` (stop, setLoop, open, start)
or `stop_video` (stop, close); `open` begins with a close and close with a stop,
so that one command passes through `stop` twice. `context` is `m_ff`, numbered
by session. The reader goes read → push → read, with flush for the rewind of a
looping file; `push(nullptr)` neither waits nor looks whether the queue is
stopped, which is why a flush signal can be left in a stopped queue. The decoder
goes pop → decode → throttle; frames from VA-API (`kind = "hwFile"`) leave the
loop body before the throttle. `render` is the video branch of `main`: the media
clock, `getFrameForTime`, `getNext`. Abstracted: pixels, audio (absent in the
code), the choice of an HLS variant, the pre-buffering count of streams, wall
clock times of sleeps.

### FrameRing, PageFlip and FramePath

Every method of `FrameQueue` holds its mutex from the first line to the last, so that
`RingPush`, `RingNext` and `RingTake` are one action each. Slots are a function on
`0..Capacity-1` as in the code, `Nth(k)` is the code's index arithmetic, `Contents` the
sequence a user sees: with it `Abstract == INSTANCE LossyQueue` is what the ring must
implement. `LossyFifo`, whose operators `LossyQueue` is made of, is also what
`VideoDecoder` uses for the frame queue, so that the decoder's runs and the ring's agree
on what a queue is. A texture is what its hand-written copies and moves tell apart: the
picture, numbered in decode order, whether it is on the GPU, and its descriptor.

`PageFlip` follows `present()` call by call, with `at` for the place in it and each early
return an action (`SwapFails`, `AddFbFails`, a flip or mode set that is refused). The
kernel is external: a CRTC that is on takes one flip at a time, ends it at a vertical
blank with an event, and is turned off when the framebuffer it shows is removed. `fault`
remembers that a flip outlasted the wait of 200 ms or was refused although it could have
been taken.

`FramePath` puts both around the render loop: a frame that was taken is drawn
(`TakeDue`, `TakeNext`), otherwise the last one again or the texture (`Repeat`).
Presentation times and readings of the clock are any at all, since files and passes start
over. A video is active throughout; what else the loop may show is in the modules of those components.

### Playlist

The decoder is reduced to what a playlist can meet: `m_running`, `m_active`,
`m_loop` and the reader, from `start()` to the end of its function. That this little is the
decoder's is `PromiseKept`, which both modules have: each implements `DecoderSession`,
with `Promise` mapping its variables to the four the users of a decoder see. `mutex` is
the playlist's `m_mutex`; the reader's uses of it are single steps, so it
is only ever held over time by the WebSocket thread, inside `playIndex`. `tries` counts the recursion of
`playIndex` over entries that do not open.

### NdiReceiver

Each access to an atomic, to `m_ndiRecv`, to `m_sourceName` or to `m_currentFrame` is a step,
in the order of the code: a switch is `Begin` (the change flag), `Release`,
`ReleaseConnection` and `DropFrame`, a lost connection `Lose`, `LoseConnection`, `Forget` and
`ForgetFrame`, so that others see a connection without a receiver, or a frame without either.
`Capture` and `Store` are separate, for the frame is copied between them. `screen` is what the
render loop shows, given that no video is active.

### Display

`cache` maps a texture to the seconds since its last use. `setCurrentTexture`
drops the mutex while it reads a file (`SetTexture`, `SetTextureLoaded`). The
render loop compares the name (`ReadName`) and copies (`Copy`) under two
acquisitions of the mutex; `display` is the copy, `shown` the name it is remembered under,
and `slipped` says that the two differ. The overlay's `isActive` is `Overlay` and, when it has
expired, `Expire`.

### AuthManager

`limits` is the rate-limit table with the age of the last attempt in place of
its time; `recent` keeps, per endpoint, the ages of its last failures since the
last success, and is what the rate limit is stated with. An endpoint is what `get_remote_endpoint` returns, address and port, so that a client
that connects again comes from another one. The library's connection handle is a member of
`Conns`.

### ConfigStore, MdnsAdvertiser and Device

`config` is main's `Configuration`, `file` what `config.json` would be read as: a
configuration or `Torn`, which `loadFromFile` takes for an empty one. A save is two steps,
for `std::ofstream` empties the file when it is opened; either may fail, and only the
first failure is noticed. `synced` tells a file on the disk from one in the page cache.
Settings behave in two ways: `name` for `set_device_name`, whose answer tells whether the
file could be opened, and `setting` for those whose commands answer success whatever came
of the save.

The name has three copies after the configuration: `ownName`, `ctxName` and the one in
Avahi's group (`groupName`). main copies the first to the second in two unlocked halves
(`PublishReads`, `PublishWrites`) while the WebSocket thread, started before, may rename
(`Rename`). The rename takes the poll's lock if `RenameTests` finds a poll: then the rest is
one step (`RenameLocked`), otherwise context and group are changed beside the poll thread
(`RenameUnlocked`, `RenameEnds`). What the poll thread calls back, and what others do with its
lock held, is one step. `create_services` is called from three places, `CreateServices`
takes the group and the number of timers it finds there. A service the daemon took and then
rejects, for a collision of names or a failure of its group, leaves the group `rejected`
(`Reject`), which the code only logs. The daemon is external. That `publish()` may free
the poll whose lock a rename holds (`PublishFails`) is undefined; of its outcomes the model has the
end of the process (`Kill`) and a rename that goes on.

`Device` is the order in which main starts them, and the world: the service is killed,
the power goes, systemd starts it again. `refused`, `overlapped` and `raced` remember the three gaps
that `AdvertisedIsConfigured` names.

### OtaUpdate

One action per command of the script that changes a disk, two (`WriteBegins`,
`WriteEnds`) where it can be caught half-way, and one per way to fail: `Exit` where
`set -e` ends the script, none where the script goes on (`SkipBoot`, `CopyFails`,
`CopyNothing`). The switch may end at each of its commands: `slot.conf` not written or empty
(`SwitchFails`), `grub-slot.cfg` empty or `cmdline.txt` as it was (`SelectFails`), the Pi's kernel
half copied (`ActivateFails`), everything switched but `/boot` busy (`RebootFails`). `GunzipFails` goes on as well, because the status of a pipeline is
that of its last command. `parts` are the two root partitions, found by
label as `blkid -L` and the initramfs do; with two that match, either may be
found. `selected` is what boots: `grub-slot.cfg`, or `cmdline.txt` with the copies
`vmlinuz` and `initrd.img` (`active`). `conf` is `slot.conf`, which nothing reads unless
the root has no slot label; no state of the model has such a root. `mounted` says that the partition
under update is still mounted at `/tmp/ota-fixup`, as `FixupFails` may leave it when `sed` fails, and
`Fixup` when `umount` does: then no later run gets beyond its own mount until a reboot, and what `dd` writes may be
written over (`WriteEnds`). `damaged`, `broken` and `exposed` are history: half-written things the
script takes no notice of, updates that were cut or failed while they wrote, and a run that
writes over the slot an earlier one selected. Abstracted: the edit of `fstab` to
whether it succeeds, the comparison of versions to that of the releases' numbers,
kernel and initrd to one file, the lock to one run at a time. Writes reach the disk in program order.

## 3. What is checked

Runs that pass:

| run | question | properties |
|---|---|---|
| `video_decoder` | Can sessions be replaced or stopped at any point? | `ContextOutlivesThreads` (no thread touches a released context), `PacketsOfLiveSession` (no packet or flush signal reaches another session), `PacketQueueBounded`, `NeverShowsOlderFrame` (the picture only moves forward), `OnlyLateFramesLost` (a full frame queue loses only what playback has passed), `CallReturns` (no join hangs), `StopShowsTexture`, `PromiseKept` (the refinement of `DecoderSession`) |
| `playlist` | What do the commands and broken entries do to each other? | `SkippingEnds`, `NoWrapWithoutLoop`, `PromiseKept` (no reader is started over another, or outlives its session), `StopReturns` |
| `ndi_receiver` | Does what is shown and reported belong to the receiver in use? | `ChangeIsNoticed`, `FrameOfReceiver`, `ConnectedMeansReceiver`, `StopEndsThread`, `StopRevertsDisplay` |
| `display` | Do cache, loop and overlay stay consistent? | `CurrentIsLoaded`, `PictureKeepsUp` (the picture follows the current texture, but for a slip between name and copy), `OverlayEnds` |
| `ota_update` | What does an update leave behind, wherever it is cut or fails? | `RunningSlotUntouched` (never the mounted root), `SwitchIsSafe` (the slot it reboots into starts), `CutIsHarmless` (a power cut, but for four windows), `UpdateArrives` (retries succeed, unless one left a partition mounted) |
| `auth_manager` | Does the limit of a connection hold, and end? | `FailuresPerLockout`, `SetterKeepsAccess`, `LockoutEnds` |
| `frame_path` | Is the ring the queue its users take it for, and what reaches the display? | `QueueRefined` (the refinement), `FlipsForward` (no frame is overtaken), `StaysLit` (what is displayed is not removed), `OnlyTwoHeld` (no buffer leaks) |
| `device` | What of names and settings survives failing saves, kills, power cuts and Avahi? | `SettingsSurvive` (what was saved is read again), `AdvertisedIsConfigured` (but for three gaps), `RetryArmed` (no request to register that fails is forgotten) |

`auth_manager` also checks `TypeOK`; the types of the other modules are proved, not run
(section 4). Each property has a mutant of the code's model that it catches.

Runs that find a disagreement between the code and what is written about it:

| run | property | what happens |
|---|---|---|
| `playlist_advance` | `PlaysInOrder` | `onVideoEnd` runs on the reader thread and stops the decoder, which joins the reader: the program terminates when a playlist moves on |
| `playlist_answer` | `RequestAnswered` | next, prev or start holds the playlist mutex and joins the reader, which waits for that mutex in `onVideoEnd` |
| `ndi_restart` | `StartsAgain` | `stop_ndi` leaves the thread joinable; the next `set_ndi_source` assigns over it and the program terminates |
| `hw_frames` | `DescriptorsCarried` | no copy or move of a `Texture` takes the descriptor along: a hardware-decoded frame is queued without it, drawn without pixels, and its descriptor stays open |

Seen while modelling, without a run of their own. Where a document or a comment says otherwise it is
named; but for the addresses of clients, the models have the behaviour:

* The limit of failed attempts is kept under `get_remote_endpoint()` (`websocket_server.cpp:111`),
  address and port: every connection has an entry of its own, and who is locked out connects again and goes
  on. `WEBSOCKET-API.md:151` says "per IP address (not per connection)". `FailuresPerLockout` is about
  endpoints, and so about connections.
* When a lockout is over the counter is still at its limit, until 300 s after the last failure
  (`auth_manager.cpp:106`): the next failure alone locks out again. `WEBSOCKET-API.md:158` says that it
  resets "on successful authentication or after the lockout expires".
* At the end of a list that does not loop the reader clears `m_active`, and the texture takes the
  place of the last frame (`main.cpp:278`); frames that are still queued are never shown.
  `WEBSOCKET-API.md:677` and `playlist_controller.cpp:185` say that the last frame remains.
* The NDI thread writes the name it connected to over `m_sourceName` (`ndireceiver.cpp:266`): a source
  that was requested meanwhile is lost, and the pending change reconnects to the old one.
  `WEBSOCKET-API.md:868` says of `set_ndi_source` "Connects to a specific NDI source by name."
* The NDI thread may report a connection after `stop_ndi` cleared the flag
  (`ndireceiver.cpp:268`). The next `set_ndi_source` takes the receiver to be running
  (`websocket_server.cpp:585`) and starts nothing, against "Starts the receiver if not already running."
  (`WEBSOCKET-API.md:868`). `ConnectedMeansReceiver` holds all the same: the receiver of a thread that ended is
  not destroyed.
* The render loop reads the name of the texture and copies it under two acquisitions of
  the mutex (`main.cpp:204`): two changes around one copy leave another texture displayed
  under the right name until the name changes again, against "Sets which texture is currently
  displayed on screen" (`WEBSOCKET-API.md:483`). `PictureKeepsUp` excludes just this, with `slipped`.
* An identify request may show nothing: `isActive` compares the expiry and then clears
  `m_active` (`splash_controller.cpp:28`), which a trigger may have set in between.
  `WEBSOCKET-API.md:395` says how long the overlay is shown.
* `image/AB_OTA_PLAN.md` has GRUB (`:30`), the script (`:70`) and a rollback by hand (`:112`) read the slot from
  `slot.conf`. The code goes by labels, `grub-slot.cfg` (`mkimage.sh:182`) and `cmdline.txt`; a change of `slot.conf`
  alone has no effect, and an update that ends after writing it leaves it apart from what boots.
* A rename between the two halves of `publish()`'s copy (`mdns_advertiser.cpp:162`) is answered, saved and
  overwritten, against "the mDNS advertisement is updated immediately" (`WEBSOCKET-API.md:349`).
* Frames decoded by VA-API leave the loop body before the wait of
  `video_decoder.cpp:603` ("don't decode more than 1s ahead of playback"), so that the
  frame queue overwrites frames that are not due yet. `OnlyLateFramesLost` is therefore
  stated for software decoding, and for the first pass of the first file: later passes
  and sessions begin with the playback time of the one before.
* The wait holds a decoder back, but nothing holds the clock back: a decoder that is
  slower than playback, and then catches up, overruns a full queue. What it loses then are
  frames whose successor is due as well, which `getFrameForTime` would not have shown.
* Every update image is labelled `root-a` (`build.sh:165`) until `e2label` runs. If slot a
  runs and power is cut before, two partitions are `root-a`, one of them incomplete, and
  none is `root-b`: the next boot may find the wrong one, and no later update finds its
  target. For the Raspberry Pi the image is built for a boot partition of 384 MB
  (`build.sh:162`) where the disk has 512 (`mkimage.sh:32`), so that `dd` runs out of
  space and leaves just that state. In the model these are the behaviours with
  `broken`, and the reason why `UpdateArrives` excludes them.
* `CutIsHarmless` says when a cut leaves a device that boots what it ran before: always, but
  after damage that the script takes no notice of (`damaged`), in this window and in three others:
  `grub-slot.cfg` empty, because it is rewritten or its writing failed; the time from the copy over the Pi's kernel to its success,
  which lasts until the next update if the copy failed; and a run that writes over the slot
  selected, which happens after one that selected it and ended before its reboot, because
  `remount,ro` (`ota-update.sh:193`) or a copy failed or somebody stopped it (`exposed`). Without its
  conjunct for one of them TLC finds a cut that the device does not survive, so each is real.
* If `sed` fails on the new root (`ota-update.sh:141`) the partition stays mounted, and every later update
  downloads and writes the image, over the mounted file system, and ends at the mount of line 140, until
  somebody reboots the device. `UpdateArrives` excludes it with `mounted`.
* When `gunzip` rejects a download at once (`ota-update.sh:131`), nothing is written, the
  status is `dd`'s, and the script relabels, selects and reboots into the older release on
  the inactive partition, against "Don't downgrade" (`ota-update.sh:117`).
* A flip that outlasts 200 ms, or that the kernel refuses, does not keep `present()` from
  removing the framebuffer on display (`drm_egl_renderer.cpp:556`). The kernel then turns
  the CRTC off, and `drmModeSetCrtc` is only ever called for the first frame: the display
  stays dark. `StaysLit` excludes it with `fault`. The buffer before is
  also released when the flip is queued, not when it is done, so that it may be drawn to
  while it is still scanned out.
* A save that is cut leaves a `config.json` that does not parse; the next start takes
  the defaults, makes up a name and writes both over it at once. The authentication key goes with them:
  the device is in open mode. `SettingsSurvive` excludes it with `harm`.
* `set_device_name` leaves a refused name in memory (`websocket_server.cpp:96`): the next
  command that saves makes it the configured one, while the old one is advertised. An empty
  name is accepted, and the service is then not registered until it is renamed.
* The copy of the name that `publish()` makes without a lock (`mdns_advertiser.cpp:162`) is a
  data race as well, and so are two tests of `threadedPoll` in a rename (`mdns_advertiser.cpp:268`,
  `:279`) against its assignments in `publish()`: a rename may go without the lock, unlock what it has not
  locked, or hold the lock of a poll that `publish()` frees because there is no client (`:193`).
* A collision of names and a failure of the group are logged and not resolved
  (`mdns_advertiser.cpp:54`, `:57`), and a client that has failed is never
  made anew (`:74`): the service stays away until a rename, or a restart of the daemon or the program.
* `play_video` changes the configuration but does not save it (`websocket_server.cpp:427`,
  against `WEBSOCKET-API.md:1085`); the playlist is saved to `playlist.m3u`, not to
  `config.json` (`WEBSOCKET-API.md:683`); `stop_ndi` keeps `ndiSourceName`
  (`WEBSOCKET-API.md:926` says it is cleared).
* With the GLFW and DirectFB renderers, whose loop ends, main joins the NDI and video threads at
  exit (`main.cpp:312`) before it stops the WebSocket server, whose commands may start and join the same ones.
* If no entry of a looping playlist opens, `playIndex` recurses without end
  (`playlist_controller.cpp:169`).
* `.ota-boot-version` is written when the copies failed (`ota-update.sh:163`); a kernel
  cut or failed half-way is never looked at again (`damaged`), and `SwitchIsSafe` excludes it.

### Bounds, and why they are enough

* `video_decoder`: two sessions, since every cross-session property relates a
  session to its successor; sources of five packets, the first of which yields no frame (so that the first
  pts is not the first position), and two passes; one packet and two frames of queue, so
  that both are full and empty at every point of both threads; no lookahead, so that the
  throttle always bites; a clock that saturates at 2, one short of the largest pts. Four
  frames are needed for the decoder to fall behind and overrun the queue: with one packet
  less no frame of the first pass is lost and `OnlyLateFramesLost` would be met by nothing. It states
  its own condition, that the queue holds more than the lookahead.
* `playlist`: every list of up to three entries over one source that opens and
  one that does not; recursion up to one more than a list is long. A looping list
  of broken entries would recurse without end: the guard in `OpenEntryFails`
  cuts it at `MaxTries`, the only behaviours the bound removes.
* `ndi_receiver`: two sources, so that a switch has somewhere to go. No counter
  needs a bound.
* `display`: three textures, so that one can be set between two sets of another
  while the default ages; retention and overlay of one second, so that both expire. Ages saturate past the retention.
* `auth_manager`: two connections, keys and endpoints; a limit of three, a lockout
  of two ticks and a clean-up at three, in the order of the code's 5, 60, 300.
* `ota_update`: two releases: the one in use and a newer one. After the update the inactive slot holds
  something older, which forced updates write over, so that every order of releases in the two slots occurs.
  Power cuts, failures and manual runs are unbounded.
* `frame_path`: a ring of two slots, so that it wraps, overwrites and drops two at once;
  four frames (`MaxPicture`), twice the ring; presentation times and clock readings 0 and
  1 (`MaxPts`), earlier, equal and later; three buffers: one displayed, one in flight, one drawn to. The buffers are
  alike, and symmetry is sound for they are in no liveness property.
* `device`: two names beside the empty and the generated one, two settings; two retries of the code's five
  (`MaxRetries`), so that the limit is reached, and two pending at once (`MaxTimers`), the only
  bound that removes behaviours: in them a third timer would only repeat what the two
  do. Kills, power cuts, failures, renames and starts are unbounded.

A behaviour may stop where the program terminated or deadlocked: the
configurations of `NdiReceiver`, `Playlist` and `OtaUpdate` (a device that does not boot) turn the deadlock check off for
that reason, the others have it on.

### Fairness

`FramePath` and `Device` state safety and a refinement and need no fairness. In the others:
weak fairness of each thread's own steps: the operating system schedules it, its
joins and waits are woken, and library calls return. For FFmpeg this needs a
source that delivers or fails, which is what `av_read_frame` promises for files
and what the read timeouts of streams give. Time passes. There is none on commands: no client need call. In
`Playlist` there is none on the end of a video either, for a video may be as
long as one likes. In `OtaUpdate` the timer fires and the script runs (weak
fairness); for the steps that are retried after a failure without damage
(`Download`, `Fixup`, `SwitchConf`, `Select`, `ActivateBegins`, `Reboot`) strong fairness says that
they do not fail for ever while they can succeed, which is all that a retry can hope for. `Fixup` cannot while the
partition is mounted already, so that nothing is asked of it then. Nothing is assumed of power.

## 4. What is proved

Every theorem holds for any values of the module's constants that satisfy its
assumption; the runs of section 3 check the same properties on small instances.
In each proof module an inductive invariant `IInv` is proved by one lemma per thread
or per group of actions (`AlwaysIInv`), and the theorems are its consequences.
Invariants were model-checked before they were proved.

The liveness theorems read `FairSpec /\ []NobodyStuck => ...`. The prover has no rules for
ENABLED, so that weak fairness of a step says nothing to it until something else says
when the step is enabled. `NobodyStuck` says that, and only that: each conjunct is `guard =>
ENABLED <<Step>>_vars`, and the guard is the action's own. It says nothing about the code that the
actions do not, and is no property of the runs; it is how the theorems are told what ENABLED of a
guarded action comes to. What follows from it and the fairness assumed is proved.

| theorem | statement |
|---|---|
| `VideoDecoderProofs!ContextIsSafe` | `Spec => []ContextOutlivesThreads` |
| `VideoDecoderProofs!SessionsAreSeparate` | `Spec => []PacketsOfLiveSession` |
| `VideoDecoderProofs!QueueIsBounded` | `Spec => []PacketQueueBounded` |
| `VideoDecoderProofs!ShownInOrder` | `Spec => NeverShowsOlderFrame` |
| `VideoDecoderProofs!LosesOnlyLateFrames` | `Spec => OnlyLateFramesLost` |
| `VideoDecoderProofs!CommandsReturn` | `FairSpec /\ []NobodyStuck => CallReturns` |
| `VideoDecoderProofs!StopReverts` | `FairSpec /\ []NobodyStuck => StopShowsTexture` |
| `VideoDecoderProofs!DecoderKept` | `Spec => PromiseKept`, the refinement of `DecoderSession` |
| `VideoDecoderProofs!StopIsHeeded` | `FairSpec /\ []NobodyStuck => Promise!ReaderHeedsStop` |
| `VideoDecoderProofs!FramesAreQueued` | `Spec => Abstract!Spec`, the refinement of `LossyQueue` |
| `PlaylistProofs!DecoderKept` | `Spec => PromiseKept`, the refinement of `DecoderSession` |
| `PlaylistProofs!ReaderIsAlone` | `Spec => [][reader' = "play" => reader = "none"]_reader` |
| `PlaylistProofs!NeverWraps` | `Spec => NoWrapWithoutLoop` |
| `PlaylistProofs!SkippingIsBounded` | `Spec => []SkippingEnds` |
| `PlaylistProofs!StopsReturn` | `FairSpec /\ []NobodyStuck => StopReturns` |
| `NdiReceiverProofs!ChangesAreNoticed` | `Spec => []ChangeIsNoticed` |
| `NdiReceiverProofs!FramesAreCurrent` | `Spec => []FrameOfReceiver` |
| `NdiReceiverProofs!ConnectionIsReal` | `Spec => []ConnectedMeansReceiver` |
| `NdiReceiverProofs!StopIsFinal` | `FairSpec /\ []NobodyStuck => StopEndsThread` |
| `NdiReceiverProofs!StopReverts` | `FairSpec /\ []NobodyStuck => StopRevertsDisplay` |
| `DisplayProofs!CurrentStaysLoaded` | `Spec => []CurrentIsLoaded` |
| `DisplayProofs!OverlayIsBounded` | `FairSpec /\ []NobodyStuck => OverlayEnds` |
| `DisplayProofs!LoopKeepsUp` | `FairSpec /\ []NobodyStuck => PictureKeepsUp` |
| `AuthManagerProofs!LimitHolds` | `Spec => []FailuresPerLockout` |
| `AuthManagerProofs!SetterIsIn` | `Spec => []SetterKeepsAccess` |
| `AuthManagerProofs!AuthenticationIsForLife` | `Spec => AuthenticationLasts` |
| `AuthManagerProofs!LockoutCountsDown` | `Spec => LockoutCounts` |
| `OtaUpdateProofs!UpdateSparesRunningSlot` | `Spec => RunningSlotUntouched` |
| `OtaUpdateProofs!SwitchSafe` | `Spec => []SwitchIsSafe` |
| `OtaUpdateProofs!CutsAreHarmless` | `Spec => []CutIsHarmless` |
| `OtaUpdateProofs!ScriptEnds` | `FairSpec /\ []NobodyStuck => (script.pc # "idle" ~> script.pc = "idle")` |
| `OtaUpdateProofs!LatestArrives` | `FairSpec /\ []NobodyStuck => UpdateArrives` |
| `FramePathProofs!RingIsQueue` | `Spec => QueueRefined` |
| `FramePathProofs!NeverBackwards` | `Spec => FlipsForward` |
| `FramePathProofs!Lit` | `Spec => []StaysLit` |
| `FramePathProofs!TwoHeld` | `Spec => []OnlyTwoHeld` |
| `FramePathProofs!FramePathSafe`, `DeviceProofs!DeviceSafe` | `Spec => []IInv`, the invariants below |
| `DeviceProofs!SavedSurvives` | `Spec => []SettingsSurvive` |
| `DeviceProofs!NameAdvertised` | `Spec => []AdvertisedIsConfigured` |
| `DeviceProofs!RetriesArmed` | `Spec => []RetryArmed` |
| `TypeCorrect` of seven modules, `FramePathProofs!TypeSafe` | `Spec => []TypeOK` |

**VideoDecoder.** `ContextOutlivesThreads` is not inductive: that `Free` releases
`m_ff` with no thread alive follows from where the caller is in a command.
`CallerInv` says it: `stop` has joined the reader from `joinDecoder` on, and both
threads from `free` on, and anything after the first `stop` of a command finds
`m_running` down. `PacketsOfLiveSession` rests on the same facts and on
`start` emptying the queue with no thread alive. `PacketQueueBounded` needs
`ReaderInv`: the reader comes to a flush only after a push of its own, for which
there was room, so a flush cannot follow another one. `Ordered` relates the
positions in the decoder, the queue and the reader; it types what the decoder computes from them (`decoder.first`).
`TypeCorrect` also needs that `getFrameForTime` picks a member of the queue; as
`Best` is a `CHOOSE`, that is proved with the well-foundedness of the naturals.
`NeverShowsOlderFrame` is the end of one order (`OrderInv`) that runs from the reader
through the packet queue, the decoder and the frame queue to the frame shown, flush
signals apart; a new session fits in because no frame of its number exists before its
`start` (`SessionInv`). `OnlyLateFramesLost` needs, on top of that order, that the frames
of the first pass lie at least one apart and end where the wait holds the decoder
(`FirstFrames`), that the end of the pass is known by its flush signal (`FlushSplits`), and
that the playback time of the first session never falls (`Clock`, `Unstarted`). Of a full
queue the second frame is then at least `Capacity - 2` behind the newest, which is at most
`Lookahead` ahead of playback.

`CommandsReturn` goes through the two `stop`s of a command stage by stage. A thread that is
joined finds `m_running` down, and one whose queue was stopped finds it so until the
join is over (`StopInv`), because only `start` resets the queue and follows both joins. From there
the reader has at most a push and a flush before it ends, the decoder a pop, the frame at hand
and the wait, which `m_running` ends. `StopReverts` is one turn of the render loop: without a
context nothing is active.

`FramesAreQueued` shows that decoder, sessions and render loop together do to the frame queue
only what `LossyQueue` allows, with the queue mapped to `frames` and what was taken last to
`render.frame`. `RingIsQueue` shows of `FrameQueue` as written that it is a `LossyQueue`. The two
meet in that specification: it is what justifies that `VideoDecoder` has `LossyFifo`'s operators where the code
has a ring.

`DecoderKept` maps two threads, queues and a command in progress to four variables: most
steps stutter, `CallerInv` has what the others need. `StopIsHeeded` adds to it that a reader
which was told to end is being joined by a command (`AtRest`), so that it has ended when the
command returns. This is the part of the promise that a playlist may break, whose reader can wait for
the mutex of its joiner: the run `playlist_answer` shows it.

**Playlist.** The invariant is `ws.pc = "open" => reader = "none"`: `open` follows
the join, and the only step that launches a reader follows `open`. For `DecoderKept` it is joined by
`SessionInv`: `m_running` is down until the start, and a reader that calls back has
ended its file. The callback itself gets no further than to clear `m_running` before the
program ends, and so keeps the promise. `SkippingEnds` needs
`SkipInv`: while a command looks for an entry, the ones it has tried are broken, and they
are those just before the present one (`BehindFailed`) or, once the search has gone
around the end, those before it and the last ones of the list (`WrappedFailed`). When
their number reaches the length of the list, all are. That list and index stay meanwhile
is due to the mutex. `StopsReturn` has the reader come to its end from wherever the join
finds it: `m_running` is down and stays so, and the mutex it may want is free, since the joiner
does not hold it (`JoinInv`). If the reader finds its callback gone, the program terminates, which the
property admits.

**NdiReceiver.** `ConnectedMeansReceiver` and `FrameOfReceiver` need to know at
which points of the loop there is a receiver, and which (`ReceiverInv`).
`ChangeIsNoticed` needs `NamedInv`: a receiver that does not carry the present name
has the change announced, or about to be; and `RunningInv`: `m_running`
never rises again without terminating the program, so that an old thread cannot be
revived between two steps of `requestStop`. A name that the thread writes over a request is the one of
its receiver, which is why the invariant does not show that the request is lost. `StopIsFinal` follows the thread from each
point of its loop to the next test of `m_running`; `StopReverts` is a step of the render loop.

**Display.** `CurrentIsLoaded` with types is inductive except for the
unlocked read of `setCurrentTexture`, which `WsInv` says is for a texture. The
clean-up comes after the new texture is stamped and spares it; ageing (`Tick`)
loads and unloads nothing. `OverlayIsBounded` and `LoopKeepsUp` take the main thread around
its loop: to the test that finds the overlay expired, and to the comparison of names. A name that was
read before the texture became current is displayed once (`Behind`, "stale") and replaced in the
next turn; from then on the names agree as long as the texture stays current (`Kept`), and where the names
agree the picture is the one of that name, or it slipped.

**AuthManager.** `AuthAssumption` has `Lockout <= Cleanup`, which the
code's 60 and 300 satisfy. The inductive invariant is `TypeOK /\ LimitsRemember /\ SetterKeepsAccess`.
`FailuresPerLockout` alone is not inductive: it speaks of `recent`, what really
happened, while `Limited` reads `limits`, what the code remembers.
`LimitsRemember` relates the two: no remembered failure count understates the
recent failures, and none of them is younger than the entry's last attempt. The
clean-up is where the assumption is needed: it forgets an entry only when all its
failures are older than a lockout. `LockoutCounts` says that a limited endpoint's entry
changes with the seconds alone, whatever any connection sends. This is what takes
`LockoutEnds` from each second to the next.

**OtaUpdate.** While a run is under way, its partition is not the mounted one and
its slot not that of the mounted root's label (`ScriptInv`); the check establishes this by
looking up the other label, and nothing but the run itself relabels a partition.
Two partitions with one label do not break it: then the check finds no target.
`SwitchIsSafe` is about other partitions and kernels than the running ones and needs what
each line has made true so far (`SwitchInv`): after `dd` the partition is whole unless the
damage went unnoticed, after `e2label` it has the label selected, after the copies the kernel
is whole, and what is selected is the inactive slot.

`CutsAreHarmless` needs of the running system that its partition can be the root, and that the slot
selected is the running one or one that an earlier run made ready and did not reboot into, unless a run writes
over it (`CutInv`, `OtherReady`); past the switch, `SwitchInv` has what a cut
boots into. From its first write to its own switch a run whose slot is selected exposes it
(`ExposeInv`). With different labels nothing else can be found. Of earlier cuts and failures it only
excludes those that left damage the script takes no notice of (`damaged`).

`ScriptEnds` counts down the lines of the script. `LatestArrives` needs more of the state between runs:
unless an update was broken, the partitions carry different labels whenever the script is not
between writing and labelling (`LabelInv`), so that the timer's check finds a target; what was written
is whole unless the partition was mounted, and such a run does not get beyond its mount (`RootInv`); and what an
interrupted device boots is whole (`RestartInv`), so that it comes up. Every run ends, and the timer
starts another as long as the release on the server is newer than the one that runs. The steps that fail without damage are
reached again and again, and strong fairness takes each of them in the end; past the last of them
the script reboots into the partition it wrote, which holds the last release (`Latest`).

**FramePath.** That the ring refines the queue is proved from what the index arithmetic
comes to: the slots of the `count` oldest frames are distinct, and a push, or the drop of
the first `n`, moves them as `Append`, `Tail` and `SubSeq` move `Contents` (`PushSlots`,
`DropSlots`); the invariant says that just those slots are valid, and in decode order.
For `FlipsForward` that order goes on: everything in the ring is newer than the frame the
loop has, and nothing drawn is newer than that. `StaysLit` needs to know, while there was no fault,
that the framebuffer committed last is the one the program takes for it
(`Flipping`): a flip under way is always awaited. `OnlyTwoHeld` is inductive with the exact
framebuffers at each place of `present()` (`Holding`).

**Device.** `SettingsSurvive` is inductive with `asked` and `config` agreeing on what is
saved (`StoreInv`). `AdvertisedIsConfigured` follows the name through its copies
(`NamesInv`): each agrees with the one it was taken from, except while a rename is between
them or one of the three gaps has happened; a rename that holds the lock ends by writing the last of them.
`RetryArmed` is inductive by itself, given that there is a client only while main runs
(`MainInv`).

Only proved: `AuthenticationLasts` of `AuthManager`, which says that no step ends an
authentication, `LockoutCounts`, `ReaderIsAlone`, `StopIsHeeded`, `ScriptEnds`, `FramesAreQueued`, and the types
of all modules but `AuthManager`.

Only model-checked: `LockoutEnds`: that each
second of the countdown counts is proved (`LockoutCounts`), that it therefore ends, after however many, needs an
induction over the naturals, which these provers cannot instantiate.
Only assumed: `NobodyStuck`, for the reason above.
The violations are counterexamples and need no proof.

## 5. What is not modelled

Most of the repository's lines are no behaviour of its own: of 49,000 lines, 40,000 are
the embedded font, `stb_image.h`, `stb_truetype.h`, `picosha2.h` and the NDI headers.
Of the rest:

* Pixels, shaders, the set-up and tear-down of EGL, the drawing of the splash screen: data
  without control. The GLFW and DirectFB renderers: sequential calls into graphics
  libraries, without state of their own.
* JSON, log lines, directory scans, and commands that only read: their answers change no
  state.
* What nobody calls: `unloadTexture`, `dismiss`, `getLatest`, the blocking push,
  `waitForSpace` and `stop` of the frame queue.
* The end of the process. With the DRM renderer the loop does not end, so that the joins
  of `main.cpp:312` are not reached; `NDIReceiver::stop` is called nowhere else.
* `playlist.m3u`: read before the threads start, written by one command whose answer does
  not depend on it. Videos the configuration starts (`main.cpp:142`): the same `open` and
  `start` as `play_video`'s, before any other thread.
* The mDNS advertiser as built with Bonjour, a sequential registration.
* Two runs of `ota-update.sh` at once, which its lock file does not exclude, disk writes out of program order, the edit of `fstab`.
* The scripts of the boot and of provisioning: each runs once, alone, before the program,
  and tests at the next boot what it left; none states what a cut run must leave. One
  thing was seen there: `data-mount.sh:46` removes the list of users although their keys
  could not be fetched, so that they are not fetched later.
* Build, flashing and installation: tools run by a developer.

## 6. What could be taken further

A document that says what must be shown of the tail of a clip before its last frame, what becomes of a service whose name
collides, and what of two updates at once would give those behaviours, which the models have or could
have, a property to be checked against.
