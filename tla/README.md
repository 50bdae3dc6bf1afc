# Keysas in TLA+

Keysas is a decontamination station: files come in from a USB key or the
network, are checked, and leave with a report or are refused. This directory
models the parts of it whose correctness depends on the order of things:
processes that crash and restart, descriptors in flight, files that change
while they are checked. `PROJECT.json` maps every definition to the lines it
models and lists components, runs, hazards and theorems.

## The system

| Component | State | Operations | Talks to |
|---|---|---|---|
| `keysas-in` | listing of `sas_in`, the file at hand, a socket | list, open and hash, `.ioerror` handling, send, unlink | `keysas-transit`, by descriptor |
| `keysas-transit` | the file at hand, a connection, a socket | receive, seven checks, send | `keysas-in`, `keysas-out`, clamd, `keysas-analyze`, `keysas-virustotal` |
| `keysas-out` | the file at hand, a connection, `sas_out` | hash again, report, decide, create, copy | `keysas-transit` |
| `keysas-analyze` | the request it treats | choose an analyser by category, walk archives and images, answer | `keysas-transit` |
| `keysas-virustotal` | cache of answers | look up a digest, answer | `keysas-transit`, a web service |
| `keysas-io` | per page: udev queue, lists of products, a mount; lock and busy files | read a signature, copy in, move out | pages (websocket), udev, `sas_in`, `sas_out`, `keysas-backend` (busy files) |
| `keysas-backend` | none (reads directories and files) | list, parse reports, report the status | front end, over a websocket |
| progress files | queue, counters, current file | enqueue, start, step, complete | written by `keysas-in`, read by the backend |
| firewall daemon (Linux) | policy, devices and their authorisation, marks, sentinels | authorise, override, filter opens, remove, recover | udev, fanotify, D-Bus, dialogs |
| firewall drivers, tray, mailslots | per device authorisation | filter, display | firewall daemon |
| `keysas-admin` | the PKI and the table that names it | generate, restore, enrol a station, sign and revoke a key, as concurrent tasks | stations over ssh, USB keys |
| `keysas-sign` | the station's keys and certificates | generate, load | run by `keysas-admin`, read by `keysas-out`, `keysas-io` |
| `keysas-fido` | enrolled Yubikeys | one command | a Yubikey |
| `keysas_lib` cryptography, sandboxes, front ends | none of interest here | | |

What is hard, and what makes each part correct:

* **The pipeline** (`keysas-in`, `-transit`, `-out`). Three processes, each
  restarted by systemd, each blocked on its neighbours; a file is opened by path,
  travels as a descriptor and is unlinked by path, so after the unlink the sockets
  hold the only copy; every check reads the file anew while a copy may still be
  writing it. It is correct if nothing reaches `sas_out` that a mandatory check
  refuses, no file is lost or goes through twice without a cause, reports and
  files of a name match, and the line never blocks for good.
* **keysas-io**: a thread per page, each with a copy of every udev event; one worker
  per file, with temporary names all of them share; removal or unmounting of a key
  under a copy; keys found by a device node another key may have got meanwhile; `keysas-out`
  writing what is being moved out; flags and a lock two threads write. Correct if what
  appears in `sas_in` is complete, no file vanishes without a trace, a signed key is never
  read, a file leaves `sas_out` only for a signed key, and every unsigned key is copied:
  each with the exceptions the code makes, which the properties name.
* **The two analysis services**: one request at a time, requests of a caller that died
  still queued, a failure that lets the file pass. Correct if an answer is about the
  file that was asked for, the walk of an archive or image misses nothing within its
  bounds, and an answer of the cache is not older than the cache allows.
* **Administration**: commands at work together, each step of which may fail, on files of
  which none is replaced together with another. Correct if an enrolled station's keys, the
  certificates it holds and those in its reports belong together, and if it refuses the
  USB keys that were revoked or signed by another PKI.
* **Firewall daemon**: insertion, removal, dialog, D-Bus and file events
  interleave around one lock; device nodes are given again; crash between a sentinel
  and a mount. Correct if a refused key ends up disconnected, an override stays with
  its key, tracked mounts are filtered, and every opening is answered.
* **Progress and backend**: counters that agree with the queue whatever is queued again,
  no file waited for in vain, a display that agrees with the directory it is read from
  entry by entry, and never shows a refused file as valid.

The 40 hazards in `PROJECT.json` go through these one line of code at a time.

## Modules

| Module | Models |
|---|---|
| `KeysasVerdict` | The checks and the decisions, no state: `parse_messages` defaults, `check_files`, `generate_report_metadata`, `output_files`' condition, `KrpMode::should_write` |
| `FdChannel` | An abstract unix stream socket carrying descriptors, as a record and its operations (the kernel's part, external) |
| `KeysasPipeline` | The three daemons, `sas_in`, `sas_out`, and those who deposit and collect; extends the two above |
| `KeysasGate` | What the pipeline promises, without daemons: a shelf of acceptable files where deposits arrive in order |
| `MCPipeline` | The contents of the small instances |
| `UsbFirewall` | The firewall daemon on Linux: controller, udev monitor, D-Bus, fanotify loop, death and recovery; keys, kernel and desktop around it |
| `MCUsb` | The signatures of the keys of the small instances |
| `KeysasIo` | `keysas-io`: its threads, udev, keys and mounts, copying in and moving out, flags and lock |
| `MCIo` | The keys of the small instance |
| `ServiceCall` | One connection, request and answer of transit to a service, as a record and its operations |
| `KeysasAnalyze` | `keysas-analyze` and transit's calls of it; extends `ServiceCall` |
| `KeysasVirusTotal` | `keysas-virustotal`, its cache and the web service, transit's calls of it; extends `ServiceCall` |
| `KeysasProgress` | The progress tracker of `keysas-in`, driven by its loop, and `progress.json` |
| `KeysasDisplay` | `list_files_out` and `parse_krp` of the backend against `keysas-out` and `keysas-io`; extends `KeysasVerdict` |
| `KeysasAdmin` | `keysas-admin`, `keysas-sign`, the PKI directories, the certificates of a station, signed USB keys |
| `MCStation` | The five modules above on small instances, in one run |
| `KeysasPipelineProofs` | Type correctness and `ReleasedIsAcceptable`, proved |
| `KeysasGateProofs` | The refinement of the gate, proved |
| `KeysasPassageProofs` | `AtMostOnce`, `ReportPrecedesFile` and `NoSilentLoss`, proved; extends `KeysasGateProofs` |
| `KeysasServicesProofs` | Of both services: type correctness, `VerdictIsFresh`, what `walk_dir` finds, and `AnalysisIsKept`, proved |
| `UsbFirewallProofs` | Type correctness, `MountedIsMarked`, and `QuietIsClean` and `QuietIsTracked` without overrides or with a single port, proved |
| `KeysasIoProofs` | Type correctness and the five safety properties of `KeysasIo`, proved |
| `KeysasShownProofs` | Type correctness and the safety properties of `KeysasDisplay` and of `KeysasProgress`, proved |
| `KeysasAdminProofs` | Type correctness, `EnrolledSignsWell` and `StationsFollow`, proved |

### The pipeline and the code

Each daemon has a program counter whose values are the points where another process
can interfere: around system calls that read or change shared state.

* `keysas-in`: `accept` (blocked in `sock.accept`), `batch` (walking the last
  listing; with an empty `batch` it lists again), `opened` (opened and hashed),
  `marked` (`is_corrupted` looked at, `.ioerror` removed, message encoded), `sent`
  (message sent, not yet unlinked). `batch` is a set: `readdir` promises no
  order. `BATCH_SIZE` is 1 in the code.
* `keysas-transit`: `accept` (its connection to `keysas-in` is made before, once),
  `recv`, `check` with `trCheck` counting the checks, `send`. An end of file from
  `keysas-in` makes the code go round its loop with an empty message: it changes
  nothing and is no action, so a transit that does only this is stuck in the model
  as in the code.
* `keysas-out`: `connect`, `recv`, `digest`, `report` (the report is made, written
  or not according to the mode, and the decision taken), `copy` (the output is
  created and truncated), `copying`.
* A `?` in `output_files` abandons the file where it stands (`OutAbandon`); one
  between the opening and the writing of a report leaves it empty.
* A crash (`InCrash`, `TransitCrash`, `OutCrash`) takes the daemon's variables and
  the sockets it holds; the directories stay. It may happen between any two steps.
* Inodes are numbered in the order of their deposit, and `content` gives their bytes
  for as long as anyone holds a descriptor. A digest stands for the content it was
  computed from: collisions of SHA-256 are not considered.
* A path is a base name and a kind, `file` or `ioerror`: the only relation
  between names the code looks at is the suffix `.ioerror`.

The metadata of a file is a function from the names of the boolean fields of
`FileMetadata` to booleans. `CheckOutcomes` gives what a check leaves in its field:
its result, or, after an error, the value `parse_messages` put there, which fails
the five local checks and passes the two remote analyses.

History variables: `corrupt` (listed next to its `.ioerror`), `unlinked` (what
`unlinkat` removed), `judged` (a report was made), `newest` (last inode written at
each path). They are never read by an action.

### The firewall and the code

Three threads share the controller behind one mutex, which `authorize_file` keeps
while the user is asked (`asking`), and `init` until the recovery is over
(`daemon = "starting"`): `LockFree` is the guard of every step that takes it.

* The monitor (`monPc`) treats one event to its end. Its steps are cut where it
  holds no lock or where another process may interfere: the sentinel of a removed node
  (`MonitorRemove`) before `remove_usb` (`MonitorForget`); `extract_usb_info`
  (`MonitorRead`, `MonitorIgnore`) before `authorize_usb`; the write of 0; the sentinel
  and its `change` event; the mount; `update_usb`. It listens from a thread that
  does not wait for the lock (`Listen`).
* `unmounted_usb` and `mounted_usb` are functions from device nodes, as the code's
  maps are keyed by `device_id`. An entry keeps the port (`usb_syspath`), the
  authorisation, and the key it was made for, which only properties read.
  `Pending` never outlives the lock, and is not a value.
* A port is a USB parent in sysfs. A key has one partition and gets the first node that no
  key and no mount holds. Writing 0 to `authorized` takes the node away at once; after
  a 1 the kernel announces the partition later (`Enumerate`), as its scan of a
  disk is delayed.
* A signature is `valid` (for that key), `invalid`, `none` (a size above 7684),
  `malformed` (it does not decode, an empty one included: `authorize_usb` returns an
  error) or `unreadable` (`extract_usb_info` returns an error).
* Files are not told apart: `FilterAllow` stands for one with a report or a
  directory, `FilterAsk` for another. A mark is a member of `marked`; it goes with its
  mount, and all go when the daemon dies. A node has one mount.
* The fanotify thread ends at the first read error but `EINTR` (`FilterStops`), while the daemon
  lives and its marks stay: every later opening on a marked mount then waits for ever.
  The write of 0 may fail (`MonitorDeauthorizeFails`): the key stays, and only the log says so.
* A mark is asked for by a path (`FAN_MARK_MOUNT`): where the mount has gone it falls on
  the mount around it, `Host` (`MarksAfter`).
* The death of the daemon takes its tables, marks and unread events; ports, mounts
  and sentinels stay.

History variables: `watched` (ports announced since the daemon listens, less those of a key whose
disconnection failed, unless the event of the device now there is still to be read), `overridden`,
and `unfiltered` (mounts the user blocked, which removes their mark, or the desktop
made). No action's guard reads them.

### keysas-io and the code

* `main` spawns a thread for each websocket, which makes its own `MonitorBuilder`: the
  variables `queue`, `pc`, `job`, `keys_in`, `keys_out`, `mount`, `worker`, `todo` are
  functions from clients. An event is queued for every open page (`Notify`).
* `pc` goes from `idle` through what the handler of one event does: `busy` and
  `busyRemove` (the two calls of `busy_in`/`busy_out` other threads can come between),
  the challenge and the mount, `walk` (the scope of the workers) and `unlock`, or `next`, `copy` and
  `remove` for each file moved out, then `ready`. `dead` is a thread a `?` ended, `panic` one whose walk did.
* A worker per file: created, copying in `TMP_DIR` (`StartCopy`, `EndCopy`),
  `renaming`, or failing into a report and an unmounting of the key (`FailCopy`, `Report`,
  `EarlyUnmount`), in any interleaving with the others and with those of another page.
  Where the code swallows an error the file is `dropped`: an entry or a directory the
  walk cannot read (`WalkFails`), a path that is no text, a `TMP_DIR` that is a file, metadata
  that cannot be read, a rename that fails, a report that cannot be created (`Swallow`).
* An event names a device node, and a thread may read it long after: `device` says which
  key stands at each node, and a key is inserted at any free one, one it or another has just left too.
  The signature is read at the node (`is_signed`, `Readable`), behind the MBR of the disk: a partition's
  event reads that of its disk, the disk's own event looks where there is none.
  What is mounted is the key then at the node (`Mountable`), whose content the job goes on with.
* A file of `sas_out` is written on the key under its name without diacritics (`OutNameOf`),
  over what another name left there; a file of a key likewise in `TMP_DIR` (`NameOf`).

History variables: `shared`, `misread`, `mistaken`, `excused`, `made`, `spoiled`, `sent`. What
they exempt from the properties is what the code really gets wrong: names two workers write
at once in `TMP_DIR` (two files of one base name, or one key copied for two pages); signed keys
whose signature could not be read when their partition's event was treated (`misread`: an error, or
they were no longer at its node); keys mounted for the event of another that stood at their node before
(`mistaken`); files of `sas_out` that `keysas-out` was still writing when they were moved; and keys that an
error befell, that were pulled out while mounted, whose user was not found, or that
were erased with the temporary directory they were mounted on (`excused`). What the properties still
exclude is everything else: that one worker's failure, another page, a removal or the order of two
events takes a file from a key, or turns its side.

### The services and the code

A service is the record of `ServiceCall`: whether it listens, the requests of its
backlog, the one it treats, and whether transit waits. Transit calls with
one connection per file and reads one answer; it takes a connection it cannot make
and one that ends for a pass.

* `KeysasAnalyze` keeps of a file what the decisions tell apart: extension, the format
  of its bytes, whether transit's `file_type` told its category, whether it can be
  read, what a scan of its bytes would find, the members of an archive, the directories of
  an image, and whether the answer is longer than the 4096 bytes transit reads.
  `detect_category`, the eight analyzers and `walk_dir` are operators on that.
* `KeysasVirusTotal` has the time, and engines whose opinion of a digest changes
  (never back to unknown). A question and its answer are two steps, so that opinions,
  expiry and deaths come in between. The cache dies with the service; `held` and `asked`
  are history.

### Progress, display and the code

* `KeysasProgress` runs `keysas-in`'s loop with the calls of the tracker where the code makes them;
  the tracker's functions are operators on a record, the queue a bag of names. `published`
  is `progress.json`, written at every change, which a crash leaves as it is. A `keysas-in` that
  starts after another is `orphaned`: transit, which connected once, does not come back
  unless it is restarted too (`TransitRestarts`).
* `KeysasDisplay` has `keysas-out` write a report, create and copy a file (`outStep`),
  `keysas-io` remove, and one listing at a time: paths met in any order, each as it is
  when it is met, then one report read per name. Names the listing passes over (hidden, or ending in
  `.sha256`) are `Skipped`; their reports are not. Listings of several pages write
  nothing, and are alike.

### Administration and the code

* A task is one `#[command] async fn` at work, a record whose `at` is where it is.
  Tasks are alike, and a command becomes the first that is free. `del_pki` is one step.
* A PKI is the number of its generation, a file of a key pair that of the PKI it comes from:
  `pki[d][ca][f]`. `SaveKeys` writes the four files of a pair; a failure in it leaves the
  first ones only. `Restorable` is what `check_restore_pki` looks at: the
  certificates, not whether the private keys are theirs.
* `get_pki_dir` appends the directories of all rows of `ca_table`, so a second
  organisation without `del_pki` in between gives a path that is no directory: `NoDir`.
* `init_keysas` reads the directory, has the station's keys replaced, loads the CAs, and sends
  four certificates; after each one the station's daemons restart, and `keysas-out`
  (`signer`) loads what is there. The station keeps both halves of its key apart, as
  `keysas-sign` may fail between them.
* `sign_key` and `revoke_usb` wait for a partition to appear: `Plug` gives one key to
  all that wait. Size and text behind the MBR are two writes.

History variables: `enrolled` (the last complete, undisturbed `init_keysas` is the last to
have touched the station), `lastSaid` (what the last command that returned true wrote on
a key), `doubted` (keys being written to, or on which a command failed or two met).

## Runs

Deadlock is not checked: with every file through, or the connection to a crashed
`keysas-in` gone, the daemons do wait for ever; so does the firewall with no key.
So do a station with no page and no key, a service nobody calls, and an administration
that has had all its commands. The first six runs use `MCPipeline`, those whose names
begin with `usb` use `MCUsb`.

| Run | Shows | Bounds |
|---|---|---|
| `faults` | `TypeOK`, `ReleasedIsAcceptable`, `RefinesGate` under every kind of failure | 2 inodes at one base name, each first a `stub` (refused by type) that may become `good`, type check may err, 2 failures among the three crashes and I/O errors, reports `pass_only` |
| `taken` | `NoSilentLoss`, `TakenIsJudged` when only `keysas-in` crashes | 2 inodes (a file and its `.ioerror`, or twice the file), 2 crashes |
| `restart` | `AtMostOnce`, `EveryFileIsTaken`, `ReportPrecedesFile` when transit and out crash | 2 names, 2 inodes, 2 crashes |
| `loss` | **violated**: `NoSilentLoss` when a deposit replaces a file being sent | 2 inodes, no failure |
| `corrupt` | **violated**: `CorruptIsBlocked` | a file and its `.ioerror`, no failure |
| `stale` | **violated**: `RefusedHasNoFile` with `fail_only` | an accepted then a refused file, no failure |
| `usb_port` | `UsbTypeOK`, `QuietIsClean`, `QuietIsTracked`, `RefusedIsDisconnected`, `EveryOpenIsAnswered` | 1 port, 1 node, 3 keys (signed, unsigned, malformed), 2 insertions, overrides, 2 openings, 1 desktop mount, 1 death |
| `usb_nodes` | `QuietIsClean`, `QuietIsTracked`, `MountedIsMarked` between ports, without overrides | 2 ports, 2 nodes, a signed and an unsigned key, 3 insertions, 1 desktop mount, 1 death |
| `usb_override` | **violated**: `OverrideIsKept` | 1 port, 1 unsigned key |
| `usb_pass_on` | **violated**: `QuietIsClean` with overrides and two ports | 2 unsigned keys, 2 insertions, no death |
| `io` | `IoTypeOK`, `WholeUnlessShared`, `LossIsTraced`, `SidesAreKept`, `SentIsOnKey`, `MarksHaveOwners`, `KeyIsCopied` | 2 pages, 2 device nodes, 3 keys of one product (unsigned with 2 files, signed, without a partition), 2 names of `sas_out` that are written the same, the Yubikey challenge, 3 uses (pages opened or closed, keys inserted, files put in `sas_out`), 1 mishap (a key pulled out or an error) |
| `station`, part `analyze` | `AnalyzeTypeOK`, `AnalysisIsKept`, `AnalysisComes` | some 50 files, `MAX_DEPTH` 1, `MAX_FILES` 4, 1 death of transit or of the service |
| `station`, part `virustotal` | `VtTypeOK`, `VerdictIsFresh`, `LookupComes` | 2 digests, threshold 1, lifetime 2, clock to 3, 1 change of opinion, 1 death |
| `station`, part `progress` | `ProgressTypeOK`, `CountsAddUp`, `GhostsAreGone`, `WorkEnds` | `f`, `f.ioerror`, `g`; 4 deposits, 2 mishaps |
| `station`, part `display` | `DisplayTypeOK`, `NeverAcceptedNeverValid`, `ReasonIsTrue`, `ShownInTheEnd` | 2 names, one of them skipped, 2 passages of 3 kinds, `fail_only`, 1 failure |
| `station`, part `admin` | `AdminTypeOK`, `EnrolledSignsWell`, `StationsFollow` | 2 tasks, 3 commands after a first PKI, 2 organisations, 1 directory, 1 station, 1 USB key, 1 failure |

Two inodes are enough for the interesting cases: every conflict the code can have is
between two deposits at one name, or between a file and its `.ioerror`, or between
the two files that stand in the two sockets. Two failures let a daemon die, come
back to a connection that died with it, and die again or meet another's death, or
an I/O error meet a crash. The contents are those that tell the properties apart:
one accepted, one refused, and one that turns into the other while it is read.

For the firewall, one key followed by another at the same port or node is the
conflict the code has; in `usb_nodes` the second node serves a key that comes while the mount of the
first is still there. One death falls between any two steps of the work on a key, and
meets the openings in progress. `usb_port` has one port because with two the
overrides break `QuietIsClean` (`usb_pass_on`); `usb_nodes` shows that they are the
only cause. Its `FairSpec` is weak fairness of the monitor, of the fanotify thread while
it reads (the dialog ends after 30 seconds), and of start, listening and recovery
(`Restart=on-failure`; a death is a failure). The end of the fanotify thread is not fair, and
nothing brings it back but the death of the daemon: `EveryOpenIsAnswered` promises nothing after it.
The others wait only for the mutex, which a
dialog releases; the number of openings is bounded, so it is free in the end.

`station` checks five modules in one run. They share no variable, so the value
of `part`, chosen at the start, says which one moves; the interleavings of the five would show
nothing more of each.

For `keysas-io`, two pages are the conflict the code has (two threads serve the same
key, and two sides the same flags), two files of a key let two workers meet, a third use
closes a page, brings a second key or a file for `sas_out`, and the mishap falls on any step. A key
of the same product as another is told from it by nothing the lists keep; pulled out, it leaves its node to
another while its events wait behind a copy. `KeyIsCopied` speaks of keys with a
partition: one without, of a product that is listed, matches no branch (main.rs:906) and is never
copied, and the run has such a key. Fairness is
weak fairness of each thread's whole next step with its workers': nothing in the code
postpones them; pages, insertions and mishaps are not fair.

For the services, one death with its restart leaves requests of a dead transit before
the live one's, and one change of opinion with a clock of 3 and a lifetime of 2 makes an
entry be used, expire and be asked for again. Four files before the walk stops are enough for a
directory that holds itself, entered twice. For the tracker, a name queued twice needs one
cut pass, and its disappearance a second mishap. Two passages under one name are what a
listing can confuse. Fairness there is of the service's, the tracker's and the
listing's own loops, and of transit's wait for an answer. An analysis is one step, so that it ends is
assumed. For the tracker it includes transit's connection after transit died, which systemd
restarts; not `TransitRestarts`, since a transit that outlives `keysas-in` does not
die of it. `WorkEnds` therefore promises nothing of a `keysas-in` that is `orphaned`.

For the administration, three commands after a first PKI are an enrolment, a signature and
a revocation; or a generation that fails half way, a signature with what it left and
an enrolment before it; or a second organisation, which hides the PKI, and a restoration. The one failure
falls on any step of any of them. All its properties are safety.

In the pipeline, fairness (`FairSpec`) is weak fairness of each daemon's whole next step: each is a
process of its own, restarted by systemd (`Restart=always`, and `on-failure` for
`keysas-in`, whose every exit is a failure), and nothing in the code
postpones a step that stays possible. Crashes, I/O errors, deposits and collections
are not fair. A daemon that only retries (`connect_addr` refused, exit and restart
of a transit that finds no `keysas-in`) is one whose next step is not enabled.

`taken` and `restart` split the failures because the code does not survive their
union: if `keysas-in` crashes, transit reads an end of file for ever and no file is
taken until it is restarted too (main.rs:975 of keysas-transit logs a size of 0 and goes on), so
`EveryFileIsTaken` is stated for crashes of the other two; and a crash of transit or
out loses the file it holds and those queued for it, so `NoSilentLoss` is stated for crashes of
`keysas-in`.
`EveryFileIsTaken` speaks of the files `list_files` returns: names that start with a
dot stay in `sas_in`.

### Where the code and its documents disagree

1. *A report for every file* (`README.md`). `unlinkat` removes what the path names
   at that time, not what was sent: run `loss`.
2. *`.ioerror`: the file has been corrupted* (user documentation, and the unit test
   of `is_corrupted`). The mark is looked for file by file, and the `.ioerror`, itself
   a file of the listing, may have gone through first: run `corrupt`.
3. *KO file: only a .krp present, no data file* (comment in `keysas-backend`). The
   data file accepted earlier under that name stays: run `stale`.
4. *The udev monitor will then receive a new "add" event, see the pre-authorized
   entry, and proceed to mount it* (`override_blocked_usb`). Not when the override
   comes before the monitor has written its own 0, or has read the removal that
   follows (a dialog in progress delays both by up to 30 seconds): run `usb_override`.
5. *Uncertified key → daemon writes 0* (udev rules). Not when its node is that of a
   key the user has just allowed: run `usb_pass_on`.

Also read on the way, and settled by no run: the comment on `yara_clean` in
keysas-out (main.rs:142, "True if the file are allowed to pass even if yara failed")
says the opposite of the code (main.rs:286) and of the option's help; the model
follows the code.

## Proofs

Every theorem is for all values of the constants, under the named assumptions of the modules it is
about, which TLC evaluates on each run. They are of three sorts:

* the types of the constants (`PipelineAssumption`, `UsbAssumption`, `IoAssumption`,
  `SamplesAssumption`, ...), and that the names a directory may hold are finitely many (`ProgressAssumption`:
  they are byte strings of bounded length);
* that a value which stands for nothing is not one that stands for something
  (`NoDataAssumption`, `NothingAssumption`, `NoEntryAssumption`, `AbsentAssumption`,
  `NothingShownAssumption`, `NoStickAssumption`);
* one that says something of the world, `RewritesAssumption`: a copy in progress never brings
  back bytes a reader has already seen, so the contents an inode goes through are strictly
  ordered.

A theorem that needs more says so in its statement. The hypotheses are: `NoInFault`
and `NoReceiverFault` with `NoReplacement` (the pipeline), `BlockThreshold > 0` (VirusTotal),
and for the firewall either a policy or `OnePort`. The policy is that the user may not allow refused
keys, or `Strict`, which adds that keys without a signature are refused; both options are off in the
configuration `keysas-firewall` is delivered with (`keysas-firewall-conf.toml`). `OnePort` is
a station with a single port for keys, under any policy.

### The pipeline

* `PipelineTypeOK`: `Spec => []TypeOK`. `TypeOK` alone is not inductive: the digest
  of a file is a `Contents` only if the inode was deposited. `Known` adds that
  everything in `sas_in`, in a daemon's hands and in the sockets was.
* `PipelineReleasesAcceptable`: `Spec => []ReleasedIsAcceptable`. The difficulty is
  that no check sees the content whose digest is announced, only a content read
  later. `Vetting` says, of every file past a check, that a passed result vouches
  for a content between the announced digest and the present one in the order of
  the rewrites; when `keysas-out` finds the present content equal to the digest, the
  order closes on one content (`DigestDecides`) and all results speak of it
  (`PassedIsHarmless`). `IInv` is `TypeOK /\ Known /\ Vetting`.
* `PipelineImplementsGate`: `Spec => RefinesGate`. It needs that older files are always
  further along: `Order` compares the seven places of the line (last written, hands
  of out, second socket, hands of transit, first socket, hands of in, `sas_in`) pair by
  pair; `Copying` says what the path being written shows. A create is then a `Clear`,
  the end of a copy a `Place`, and a collection a `Withdraw`; every other step stutters.
* `EachFileGoesThroughOnce`: `Faults \subseteq {"transit", "out"}` and `Spec` give
  `[]AtMostOnce`. Once `keysas-in` has sent a file it may only unlink it; if it dies there, the
  next one finds the file and sends it again, so the hypothesis cannot go. The invariant is
  `Passage`: the files between the hands of in and those of out are all different (`Apart`, on the
  sequences of the two sockets), none of those in `sas_in` has been sent, but for the one that is
  about to be unlinked (`Fresh`), and none that is judged is before out (`Judged`).
* `ReportComesFirst`: with the same hypothesis, `ReportPrecedesFile`, from `Passage` and
  `Order`: no report is written where its own file, or one deposited later, already stands. It does
  not say that the two at a name belong together. A later passage writes its report while the earlier
  file stands (run `stale`), and a mode may withhold either report.
* `NothingIsLost`: `Faults \subseteq {"in"}`, `Replace = FALSE` and `Spec` give
  `[]NoSilentLoss`. `Kept` says that what `keysas-in` has in its hands is still at its path until it
  unlinks it, and that what is unlinked is inside or judged; `Linked` that the second socket
  cannot break and that the first, reset, is empty. The hypotheses are those of run `taken`,
  whose reasons are given under *Runs*: a transit or an out that dies takes files with
  it (run `faults` lets them die), and `loss` is the run with replacement.

### The services

* `VtTypeCorrect`: `VtSpec => []VtTypeOK`, from lemmas on the operations of `ServiceCall`.
* `VtVerdictIsFresh`: `BlockThreshold > 0` and `VtSpec` give `[]VerdictIsFresh`. The inductive invariant
  `VtIInv` adds to it `Pending` (while transit waits, the last request queued or served is
  the one it waits for, whatever requests of a dead transit stand before: so the answer it
  takes is about its file) and `Remembered` (an entry of the cache is what the engines said
  at or after its insertion). With a threshold of 0 it is false: an unknown
  file passes when it is asked for, and is blocked when it comes from the cache as one with
  0 detections.
* `AnalyzeTypeCorrect`: `AnalyzeSpec => []AnalyzeTypeOK`: every analyser, on every file of `Samples`,
  gives an answer of the declared kind. The lemmas on `ServiceCall` are the same as above.
* `AnalysisStaysKept`: `AnalyzeSpec => []AnalysisIsKept`. It has two halves. `Asked` and `Noted`, inductive,
  say that the last request queued or served is the one transit waits for and that what it
  noted is `analyze` of that very file. The rest is about the operators: for every readable
  file whose name says what it is, unless the walk is cut at `MAX_FILES` or an entry of a tar cannot be
  read (`Cut`), what `analyze` refuses is what `Dangerous` declares (`RefusedIsDangerous`), though the first follows the code's order (category by
  extension, then the analyser of that category, a walk with two limits) and the second
  only asks which files a chain of at most `MAX_DEPTH` directories leads to. The walk is a
  recursive function of the depth; as induction is out of reach, `WalkIsSound` and
  `WalkIsComplete` take the least depth at which it would be wrong, unfold it once there, and contradict it.

### The firewall

* `UsbTypeCorrect`: `Spec => []UsbTypeOK`. `UsbShape` adds what the monitor has at
  hand at each `monPc`: a step reads fields that exist only if the right kind of event
  was taken.
* `TrackedMountsAreFiltered`: `Spec => []MountedIsMarked`, over `UsbShape`. Every step that
  mounts, tracks or marks a node is one of the monitor or of the desktop, and the sets of
  exempted mounts (`unfiltered`) change with the mounts.
* `NoRefusedKeyStays`: `[]QuietIsClean` when the user may not override, and
  `TablesFollowDevices`: `[]QuietIsTracked` under `Strict`. Both speak of what holds once the monitor
  has caught up, so the invariant, `LogInv`, has to say what the rest of the queue will bring. Its
  terms are positions in the queue of udev events: a port is `Pulled` out after an event, a node
  `Goes` after it. `QueueInv` is about the events alone: an announced device is still there, or
  its going is in the queue (`Announced`); between two devices of one port, two places of one key
  or two devices of one node stands the event of the going of the first (`Separate`); what the
  daemon knows of a port is forgotten before the next device of that port is announced
  (`Forgotten`). `TableInv` is about the tables: an allowance is either for the key that is there or
  for one whose going is queued, and is forgotten before the next device of its node that stays
  is read (`Lapses`); a refused key is known to the monitor or will be (`Pursued`); the others
  say the same of the device in the monitor's hands. The hard step is `MonitorRead`
  (`BlockLog`): the device is described by its event and the signature is read from what answers at
  the node by then, perhaps the next key; that they agree proves that the device is still there
  or was pulled out of that port since, and that all later devices of the node come after.
  TLC had checked `LogInv` on instances with 2 ports, up to 3 nodes and up to 4 insertions, a death
  and a desktop mount before it was proved.
* `OverridesStayWithTheirKey` and `TablesFollowTheOnePort`: `[]QuietIsClean` and `[]QuietIsTracked`
  under `OnePort`, whatever the policy and whatever the user overrides, also while the monitor works, and
  after the key has gone. `LogInv` does not survive an override (an
  allowance may then be for a key that was disconnected), so the invariant is another, `EraInv`:
  from one pulling out of the port to the next, all that the queue announces, the tables hold and the
  monitor has at hand is of one key (`Era`). An entry found at a node is then of the key of the
  device that finds it (`Weighed`), an allowance was given to that key or goes with it
  (`Noticed`), and a refused key is on its way to the monitor (`Sought`). TLC had checked `EraInv`
  on the instance of `usb_port` with 3 insertions.
* A disconnection that fails takes its port out of `watched`, so both invariants (`FailsLog`,
  `FailsEra`) hold after it: the key that stays is one nothing is claimed of, unless its event is
  still in the queue.
* No hypothesis is idle. With overrides and two ports `QuietIsClean` is false (`usb_pass_on`): the
  node of a disconnected key may go to a key at the other port.
  When keys without a signature are let in (`disable_unsigned_usb`), a device is allowed although
  another key answers at its node by then, and `Lapses` is false: `QuietIsTracked` is
  not claimed there.

### keysas-io

The common invariant is `IoShape`: off its loop a thread has a key at hand, on the `in` side
while it reads; a worker lives while its thread reads the key of its file; the file a worker
has open exists. On it stand:

* `IoTypeCorrect`, of `IoTypeOK`, and `MarksAreOwned`, of `MarksHaveOwners`, which is inductive on
  `IoShape`: every removal or creation of a mark is a step of one thread, but what it
  is checked against are the program counters of all of them.
* `KeysKeepTheirSide`, of `SidesAreKept`. `Reads` carries it from the event to the file: a
  thread that treats a partition of a signed key on the `in` side is one that misread it, a mount is of the
  key of the event or of a mistaken one, and what is in `TMP_DIR` or in `sas_in` comes from keys that were
  unsigned, misread or mistaken.
* `SentStaysOnKey`, of `SentIsOnKey`. `Moves`: a thread that moves files has its own key
  mounted, or something happened to it, and what it is about to remove from `sas_out` was delivered. That
  two threads may move the same file, or two files of the same written name, is in it: `Delivered` survives the other's steps.
* `CopiesAreWhole`, of `WholeUnlessShared`. `Alone`: two workers with one name open in
  `TMP_DIR` share it, and a worker whose name is not shared has it there, alone wrote it, and
  wrote it whole if it is about to rename it.
* `LossesAreTraced`, of `LossIsTraced`. `Traces`: a key that is not mounted under a reading
  thread was pulled out, or unmounted by a worker that reported before, and a worker loses its file only if the key
  is gone or the name was shared, or is one that drops it. So the early unmounting, which takes
  their files from all the other workers, leaves an `.ioerror`; an error the code swallows does not.

### Progress and display

* `DisplayTypeCorrect`, `NeverShownValid`, `ReasonsAreTrue`: `DisplayTypeOK`,
  `NeverAcceptedNeverValid` and `ReasonIsTrue` hold of `DisplayInit /\ [][DisplayNext]_displayVars`,
  without fairness. The invariant is `Page`: the file `keysas-out` has at hand (`AtHand`),
  what a listing has met and is still about to meet (`Met`), and the three properties, since a
  line of the page made before is kept while the directory changes.
* `NoGhostStays`: `ProgressInit /\ [][ProgressNext]_progressVars` gives `[]GhostsAreGone`. `Found` says
  that all that is listed, queued or current is in `sas_in` or was taken away, and `AtWork` where
  the file at hand stands, which is what breaks first if the tracker completes it too late.
* `ProgressTypeCorrect` and `CountsStayTrue`: `[]ProgressTypeOK` and `[]CountsAddUp` of the same
  specification: the files done, the one at work and those queued are never more than the total, and
  exactly as many until a pass was cut short. What the code keeps is a number, what the model keeps a bag
  of names: `QueueLength`, a fold over the bag, is shown to be the number of its entries
  (`QueueLengthCounts`, by the smallest set of names on which it would not be), and `Counted` and `Queued` relate it to the tracker's counters.

### Administration

* `AdminTypeCorrect`: `AdminSpec => []AdminTypeOK`. `AdminShape` adds, for each kind of
  command, which of its fields are set at each step, and that the keys generated
  are no more than the calls.
* `EnrolledStationSigns`: `AdminSpec => []EnrolledSignsWell`. `Enrolment` follows a command from its
  first step: if it was alone at the station, no other works on it now, and what it
  has done so far (`Enrols`) is what an enrolled station has when it ends (`Ready`, which
  also says what `keysas-out` will find if it restarts).
* `StationsFollowSigning`: `AdminSpec => []StationsFollow`. `Signing`: a USB key that is written
  to is in doubt until a command that has it for itself is through; outside doubt, its text is
  the one the last command left and its size agrees with it.

### What only TLC checks

* Liveness under fairness, which is beyond the prover: `TakenIsJudged`, `EveryFileIsTaken`,
  `RefusedIsDisconnected`, `EveryOpenIsAnswered`, `KeyIsCopied`, `AnalysisComes`,
  `LookupComes`, `WorkEnds` and `ShownInTheEnd`.
* `QuietIsTracked` of the firewall with several ports, when the user overrides refusals or keys without
  a signature are let in: it is neither proved nor claimed.

## Left out of the pipeline

Names that do not decode or are hidden, message sizes (a report too long for the
buffer of 4128 bytes makes `keysas-out` exit: `OutCrash` after `OutRecv`), the
progress files, signatures, the tie between a report's text and its file, delays. The bytes
copied to `sas_out` after the second digest may differ from it while a copy
is in progress; the gate speaks of the digest the report binds.

## Left out of the firewall

Keys with several partitions, a second mount of one node, netlink events lost when the queue overflows, a
lock poisoned by a panic, failures to write a sentinel or a mark or the 1 of an override, a device without
a USB parent (usb_monitor.rs:471: it has no `authorized` file and stays), notifications, and
the Windows side. Keys plugged before the daemon listens are not `watched`: the code
looks at new events only. A key whose signature is `unreadable` is left as it is, by
the code and by `Unwanted`. A key that is mounted while another takes its place under
the monitor's hands is not judged by `QuietIsClean` before the monitor has caught up.

## Left out of the other parts

* `keysas-io`: the attributes of an event (one that is missing ends the thread), the layout and
  verification of a signature (a key is signed or not), the Yubikey protocol (a
  user is found or not), keys with several partitions, an unmounting that fails (logged;
  the key stays mounted).
* `keysas-analyze`: how a scanner finds its marks in bytes, decompression limits, the
  text of the summaries.
* `keysas-virustotal`: the suspicious count, never used in a decision; the summaries and the
  parsing of the answer, which is the number of engines that call a digest malicious.
* Tracker: steps and percentages within a file, and transit's tracker, which runs the
  same operations on one file after another without a queue.
* Backend: users' files whose names end in `.krp`, which it takes for reports;
  `list_files_in` (a name and its `.ioerror` suffix), the states of the daemons
  it asks of systemd, network addresses, the version.
* `keysas-admin`: the tables of stations and ssh keys, `update`, `reboot`, `shutdown`,
  `export_sshpubkey`, `is_alive` (single commands that change nothing the others read), passwords,
  `chown` on the station, and the certificates archived next to the PKI, which
  nothing reads. (Both archive files get the classic one: lib.rs:404.) The four files of a pair
  are written in one step unless that step fails, so a load that falls between two of
  them is not in the model; the mixture it would find is, after a failure.
  An enrolment during which another one touched the station, or whose
  CAs were loaded from a directory that held files of two PKIs, or one of whose certificates
  `keysas-sign` did not write without `init_keysas` knowing, does not count as `enrolled`:
  the station does not sign well after it, and nothing tells the administrator.

## Not modelled

* The Windows drivers and the eBPF filter, and the Windows half of the daemon: they
  take the same decisions from the same signatures, behind interfaces of their own.
  `lsm-file-ebpf/src/vmlinux.rs` alone is 46,498 of the 63,606 lines counted as implementation: bindings
  generated from kernel headers, without behaviour.
* The tray application and the mailslots: they display the daemon's lists and send
  choices, which are `Override` and `RequestUpdate` of `UsbFirewall`.
* The cryptography of `keysas_lib` (X.509 fields, PKCS8, signatures): a signature verifies
  with the key it was made with, a digest stands for its content. `save` and `load` of key
  pairs are in `KeysasAdmin`.
* `keysas-fido`: one command on a Yubikey, nothing concurrent.
* The sandboxes (Landlock, seccomp): static lists of rights.
* The web front ends: they show what the backend and the tray send.

## Plan

1. `UsbFirewall`, proofs: what `QuietIsTracked` becomes with several ports when keys without a signature
   are let in, which needs an invariant that tells an entry of the last key from one of the next.
2. `FdChannel`: state what the lemmas of the pipeline's proofs on the two sockets have in common
   once, as those on `ServiceCall` are in `KeysasServicesProofs`.
