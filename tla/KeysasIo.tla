------------------------------- MODULE KeysasIo -------------------------------
(***************************************************************************)
(* keysas-io, which carries files between USB keys and the two spools.     *)
(* Each page of the station that opens a websocket gets a thread of its    *)
(* own, with its own udev monitor and its own lists of keys: with no page  *)
(* no key is served, with two pages each key is served twice at the same   *)
(* time.  A thread copies the files of an unsigned key to sas_in, one      *)
(* worker thread per file, and moves the files of sas_out to a signed key. *)
(*                                                                         *)
(* A key carries a file system on its first partition or, outside          *)
(* Partitioned, on the whole disk.  The threads know it by the device node *)
(* of its event, where another one may stand when they come to it.  An     *)
(* open file is its content in the place where its name was last linked:   *)
(* "tmp", "in", or "gone" for one that lost its name.                      *)
(***************************************************************************)
EXTENDS Naturals, Sequences

CONSTANTS
  Clients,           \* pages that may open a websocket
  Keys, Nodes,       \* and the device nodes they take
  Signed,            \* keys with a valid signature for the out side
  Partitioned,
  Product,           \* vendor/model/revision of a key, no serial number
  Files, Holds,      \* the files of each key
  Names, NameOf,     \* their base names, diacritics and "?" taken out
  OutNames,          \* the names keysas-out writes in sas_out, and what
  OutNameOf,         \* is written on a key for them, diacritics taken out
  Waiting,           \* those that are there at the start
  Yubikey,           \* the option --yubikey
  NoKey, Gone,       \* no mount; a mount whose key was pulled out
  Absent, NoName, NoNode,
  MaxUses,           \* bound: pages opened and closed, keys inserted, files
                     \* put in sas_out
  MaxMishaps         \* bound: keys pulled out, errors of the devices

ASSUME IoAssumption ==
  /\ Signed \subseteq Partitioned /\ Partitioned \subseteq Keys
  /\ Holds \in [Keys -> SUBSET Files]
  /\ \A j, k \in Keys : j # k => Holds[j] \cap Holds[k] = {}
  /\ NameOf \in [Files -> Names] /\ OutNameOf \in [OutNames -> Names]
  /\ DOMAIN Product = Keys
  /\ Waiting \subseteq OutNames
  /\ Yubikey \in BOOLEAN
  /\ {NoKey, Gone} \cap Keys = {} /\ NoKey # Gone /\ NoName \notin OutNames
  /\ NoNode \notin Nodes
  /\ {MaxUses, MaxMishaps} \subseteq Nat

VARIABLES
  device,            \* the key at each device node
  page,              \* each client: "none", "open" or "closed"
  queue,             \* udev events its thread has not read
  pc, job,           \* what its thread does, and for which event
  keys_in, keys_out, \* products its thread knows
  mount,             \* the key on its temporary directory
  worker,            \* its worker thread for each file
  todo, moving,      \* names of sas_out it has still to move; the current one
  tmp, sas_in,       \* TMP_DIR and SAS_IN: a content by name
  reports,           \* names with an .ioerror file in sas_in
  sas_out,           \* each name: "absent", "writing" or "whole"
  onKey,             \* what keysas-io wrote on each key: a copy by name
  flags,             \* VAR_LOCK_DIR and the WORKING files in it
  lock,              \* LOCK
  uses, mishaps,
  shared,            \* history: names two workers had open together
  misread,           \* history: signed keys taken for unsigned ones
  mistaken,          \* history: keys mounted for the event of another
  excused,           \* history: keys an error befell, pulled while
                     \* mounted, erased, or whose user was not found
  made, spoiled,     \* history: names of sas_out; those moved while written
  sent               \* history: <<name, key>> taken from sas_out

spoolVars == <<tmp, sas_in, reports>>
outVars == <<sas_out, onKey, made, spoiled, sent>>
markVars == <<flags, lock>>
kernelVars == <<device, queue>>
historyVars == <<shared, misread, mistaken, excused>>
listVars == <<keys_in, keys_out>>
todoVars == <<todo, moving>>
vars == <<kernelVars, page, pc, job, listVars, mount, worker, todoVars,
          spoolVars, outVars, markVars, uses, mishaps, historyVars>>

------------------------------------------------------------------------------
Content == [by : SUBSET Files, whole : BOOLEAN]
Copies == [of : OutNames, whole : BOOLEAN]
ASSUME AbsentAssumption == Absent \notin Content \cup Copies

Events == [action : {"disk", "partition", "remove"}, key : Keys, node : Nodes]
Sides == {"in", "out"}
Jobs == [key : Keys \cup {NoKey}, node : Nodes \cup {NoNode}, side : Sides,
         kind : {"disk", "partition"}]
NoJob == [key |-> NoKey, node |-> NoNode, side |-> "in", kind |-> "disk"]

plugged == {device[n] : n \in Nodes} \ {NoKey}

Opposite(side) == IF side = "in" THEN "out" ELSE "in"

NotStarted == [at |-> "none", on |-> "gone"]
Finished == {"none", "moved", "lost", "failed", "dropped"}
WorkerStates == [at : {"walked", "copying", "broken", "renaming", "failing",
                         "unmounting"}
                        \cup Finished,
                 on : {"tmp", "in", "gone"}]

ThreadSteps == {"off", "idle", "busy", "busyRemove", "admit", "mount", "walk",
                "unlock", "removeLock", "next", "copy", "remove", "ready",
                "readyRemove", "panic", "dead"}

(* The workers that have open, or are about to rename, the file the name n  *)
(* stands for in TMP_DIR.                                                   *)
OnTmp(n) ==
  {w \in Clients \X Files :
     /\ NameOf[w[2]] = n
     /\ worker[w[1]][w[2]].at \in {"copying", "broken", "renaming"}
     /\ worker[w[1]][w[2]].on = "tmp"}

------------------------------------------------------------------------------
Init ==
  /\ device = [n \in Nodes |-> NoKey]
  /\ page = [c \in Clients |-> "none"]
  /\ queue = [c \in Clients |-> << >>]
  /\ pc = [c \in Clients |-> "off"]
  /\ job = [c \in Clients |-> NoJob]
  /\ keys_in = [c \in Clients |-> {}] /\ keys_out = [c \in Clients |-> {}]
  /\ mount = [c \in Clients |-> NoKey]
  /\ worker = [c \in Clients |-> [f \in Files |-> NotStarted]]
  /\ todo = [c \in Clients |-> {}] /\ moving = [c \in Clients |-> NoName]
  /\ tmp = [n \in Names |-> Absent] /\ sas_in = [n \in Names |-> Absent]
  /\ reports = {}
  /\ sas_out = [n \in OutNames |-> IF n \in Waiting THEN "whole" ELSE "absent"]
  /\ onKey = [k \in Keys |-> [n \in Names |-> Absent]]
  /\ flags = {} /\ lock = FALSE
  /\ uses = 0 /\ mishaps = 0
  /\ shared = {} /\ misread = {} /\ mistaken = {} /\ excused = {}
  /\ made = Waiting /\ spoiled = {} /\ sent = {}

------------------------------------------------------------------------------
(* The world: pages, keys, keysas-out.                                      *)

Open(c) ==
  /\ page[c] = "none" /\ uses < MaxUses
  /\ uses' = uses + 1
  /\ page' = [page EXCEPT ![c] = "open"]
  /\ pc' = [pc EXCEPT ![c] = "idle"]
  /\ UNCHANGED <<kernelVars, job, listVars, mount, worker, todoVars, spoolVars,
                 outVars, markVars, mishaps, historyVars>>

Close(c) ==
  /\ page[c] = "open" /\ uses < MaxUses
  /\ uses' = uses + 1
  /\ page' = [page EXCEPT ![c] = "closed"]
  /\ UNCHANGED <<kernelVars, pc, job, listVars, mount, worker, todoVars, spoolVars,
                 outVars, markVars, mishaps, historyVars>>

Notify(evts) ==
  queue' = [c \in Clients |->
              IF pc[c] \in {"off", "dead"} THEN queue[c] ELSE queue[c] \o evts]

(* A key takes any device node that is free, one another key left too.      *)
Insert(k, n) ==
  /\ k \notin plugged /\ device[n] = NoKey /\ uses < MaxUses
  /\ device' = [device EXCEPT ![n] = k]
  /\ Notify(<<[action |-> "disk", key |-> k, node |-> n]>>
            \o (IF k \in Partitioned
                THEN <<[action |-> "partition", key |-> k, node |-> n]>> ELSE << >>))
  /\ uses' = uses + 1
  /\ UNCHANGED <<page, pc, job, listVars, mount, worker, todoVars, spoolVars,
                 outVars, markVars, mishaps, historyVars>>

(* The events of the disk and of its partition have the same effect, and    *)
(* nothing comes between them: one stands for both.                         *)
Pull(n) ==
  LET k == device[n]
  IN /\ k # NoKey /\ mishaps < MaxMishaps
     /\ device' = [device EXCEPT ![n] = NoKey]
     /\ Notify(<<[action |-> "remove", key |-> k, node |-> n]>>)
     /\ mount' = [c \in Clients |-> IF mount[c] = k THEN Gone ELSE mount[c]]
     /\ worker' = [c \in Clients |-> [f \in Files |->
                     IF f \in Holds[k] /\ worker[c][f].at = "copying"
                     THEN [worker[c][f] EXCEPT !.at = "broken"] ELSE worker[c][f]]]
     /\ excused' = IF mount' # mount THEN excused \cup {k} ELSE excused
     /\ mishaps' = mishaps + 1
     /\ UNCHANGED <<page, pc, job, listVars, todoVars, spoolVars, outVars, markVars,
                    uses, shared, misread, mistaken>>

OutCreate(n) ==
  /\ n \notin made /\ uses < MaxUses
  /\ uses' = uses + 1
  /\ made' = made \cup {n}
  /\ sas_out' = [sas_out EXCEPT ![n] = "writing"]
  /\ UNCHANGED <<kernelVars, page, pc, job, listVars, mount, worker, todoVars,
                 spoolVars, onKey, spoiled, sent, markVars, mishaps, historyVars>>

OutFinish(n) ==
  /\ sas_out[n] = "writing"
  /\ sas_out' = [sas_out EXCEPT ![n] = "whole"]
  /\ UNCHANGED <<kernelVars, page, pc, job, listVars, mount, worker, todoVars,
                 spoolVars, onKey, made, spoiled, sent, markVars, uses,
                 mishaps, historyVars>>

------------------------------------------------------------------------------
(* The loop of a thread: one udev event at a time.                          *)

Goto(c, step) == pc' = [pc EXCEPT ![c] = step]

Handled(c, product) ==
  /\ job' = [job EXCEPT ![c] = product]
  /\ queue' = [queue EXCEPT ![c] = Tail(@)]

(* A page that was closed may or may not make the sending fail.             *)
SendFails(c) == page[c] = "closed" /\ Goto(c, "dead")

(* Mutant: the signature is looked for on the device that came up.          *)
is_signedOnDevice(e, readable) ==
  readable /\ e.action = "disk" /\ e.key \in Signed

(* What is_signed answers for a device: it reads the signature on the name  *)
(* less its last character, which is the disk for a partition and nothing   *)
(* for a disk, from whichever key stands there now; a signature of another  *)
(* key is not one of the attributes of the event.                           *)
is_signed(e, readable) ==
  readable /\ e.action = "partition" /\ e.key \in Signed

(* Whether the block with the signature of the event's key can be read now. *)
Readable(e) ==
  {device[e.node] = e.key} \cup
  {b \in {FALSE} : /\ e.action = "partition" /\ e.key \in Signed
                   /\ device[e.node] = e.key /\ mishaps < MaxMishaps}

(* Mutant: a second device of a known product is left alone.                *)
HandleAddOnce(c) ==
  /\ pc[c] = "idle" /\ queue[c] # << >>
  /\ LET e == Head(queue[c])
         signed == is_signed(e, device[e.node] = e.key)
     IN /\ e.action # "remove"
        /\ Handled(c, [key |-> e.key, node |-> e.node,
                       side |-> IF signed THEN "out" ELSE "in", kind |-> e.action])
        /\ Goto(c, IF Product[e.key] \in (IF signed THEN keys_out[c] ELSE keys_in[c])
                   THEN "idle" ELSE "busy")
  /\ UNCHANGED <<device, page, listVars, mount, worker, todoVars, spoolVars,
                 outVars, markVars, uses, mishaps, historyVars>>

(* The action of an "add" event: which branch treats the key.               *)
HandleAdd(c) ==
  /\ pc[c] = "idle" /\ queue[c] # << >>
  /\ LET e == Head(queue[c])
         product == Product[e.key]
     IN /\ e.action # "remove"
        /\ \/ /\ SendFails(c)
              /\ UNCHANGED <<queue, job, mishaps, misread>>
           \/ \E readable \in Readable(e) :
                LET signed == is_signed(e, readable)
                    treated == IF signed THEN product \notin keys_out[c]
                               ELSE product \notin keys_in[c]
                                    \/ e.action = "partition"
                IN /\ Handled(c, [key |-> e.key, node |-> e.node,
                                  side |-> IF signed THEN "out" ELSE "in",
                                  kind |-> e.action])
                   /\ Goto(c, IF treated THEN "busy" ELSE "idle")
                   /\ misread' = IF readable \/ e.action = "disk" THEN misread
                                 ELSE misread \cup ({e.key} \cap Signed)
                   /\ mishaps' = IF readable \/ device[e.node] # e.key
                                 THEN mishaps ELSE mishaps + 1
  /\ UNCHANGED <<device, page, listVars, mount, worker, todoVars, spoolVars,
                 outVars, markVars, uses, shared, mistaken, excused>>

(* A "remove" event: an unknown product empties the lists.                  *)
HandleRemove(c) ==
  /\ pc[c] = "idle" /\ queue[c] # << >>
  /\ LET e == Head(queue[c])
     IN /\ e.action = "remove"
        /\ \E gone \in {{Product[e.key]}, keys_in[c] \cup keys_out[c]} :
             /\ keys_in' = [keys_in EXCEPT ![c] = @ \ gone]
             /\ keys_out' = [keys_out EXCEPT ![c] = @ \ gone]
  /\ queue' = [queue EXCEPT ![c] = Tail(@)]
  /\ UNCHANGED pc \/ SendFails(c)
  /\ UNCHANGED <<device, page, job, mount, worker, todoVars, spoolVars, outVars,
                 markVars, uses, mishaps, historyVars>>

(* busy_in, busy_out: one of three things, in this order.  The file of the  *)
(* other side is removed in a second step, which fails when it is gone.     *)
Busy(c) ==
  /\ pc[c] = "busy"
  /\ LET side == job[c].side
     IN \/ /\ "dir" \notin flags
           /\ flags' = {"dir"} /\ Goto(c, "admit")
        \/ /\ "dir" \in flags /\ Opposite(side) \in flags
           /\ Goto(c, "busyRemove") /\ UNCHANGED flags
        \/ /\ "dir" \in flags /\ Opposite(side) \notin flags
           /\ flags' = flags \cup {side} /\ Goto(c, "admit")
  /\ UNCHANGED <<kernelVars, page, job, listVars, mount, worker, todoVars,
                 spoolVars, outVars, lock, uses, mishaps, historyVars>>

RemoveFlag(c, side, step) ==
  \/ /\ side \in flags
     /\ flags' = flags \ {side} /\ Goto(c, step)
  \/ /\ side \notin flags
     /\ Goto(c, "dead") /\ UNCHANGED flags

BusyRemove(c) ==
  /\ pc[c] = "busyRemove"
  /\ RemoveFlag(c, Opposite(job[c].side), "admit")
  /\ UNCHANGED <<kernelVars, page, job, listVars, mount, worker, todoVars,
                 spoolVars, outVars, lock, uses, mishaps, historyVars>>

(* The lists are sent to the page; on the in side a failure ends the thread.*)
(* A key whose product is new has its user challenged, a second device of   *)
(* a known one has not.                                                     *)
Admit(c) ==
  /\ pc[c] = "admit"
  /\ LET side == job[c].side
         product == Product[job[c].key]
         challenged == Yubikey /\ side = "in" /\ product \notin keys_in[c]
     IN /\ keys_in' = IF side = "in"
                      THEN [keys_in EXCEPT ![c] = @ \cup {product}] ELSE keys_in
        /\ keys_out' = IF side = "out"
                       THEN [keys_out EXCEPT ![c] = @ \cup {product}] ELSE keys_out
        /\ \/ side = "in" /\ SendFails(c) /\ UNCHANGED excused
           \/ Goto(c, "mount") /\ UNCHANGED excused
           \/ /\ challenged
              /\ Goto(c, "ready") /\ excused' = excused \cup {job[c].key}
  /\ UNCHANGED <<kernelVars, page, job, mount, worker, todoVars, spoolVars, outVars,
                 markVars, uses, mishaps, shared, misread, mistaken>>

(* The key that would be mounted: the one at the device node, if the device *)
(* has its file system.                                                     *)
Mountable(j) ==
  {k \in {device[j.node]} \ {NoKey} : (j.kind = "partition") = (k \in Partitioned)}

(* The mounting in copy_device_in and move_device_out; the job is then the  *)
(* key that was mounted.  A failure is only logged, whether there is        *)
(* nothing to mount or the device fails.                                    *)
MountDevice(c) ==
  /\ pc[c] = "mount"
  /\ \/ \E k \in Mountable(job[c]) :
          /\ mount' = [mount EXCEPT ![c] = k]
          /\ job' = [job EXCEPT ![c].key = k]
          /\ mistaken' = mistaken \cup ({k} \ {job[c].key})
          /\ \/ /\ job[c].side = "in"
                /\ Goto(c, "walk") /\ lock' = TRUE /\ UNCHANGED todo
             \/ /\ job[c].side = "out"
                /\ Goto(c, "next") /\ UNCHANGED lock
                /\ todo' = [todo EXCEPT ![c] =
                              {n \in OutNames : sas_out[n] # "absent"}]
          /\ UNCHANGED <<mishaps, excused>>
     \/ /\ \/ Mountable(job[c]) = {} /\ UNCHANGED <<mishaps, excused>>
           \/ /\ Mountable(job[c]) # {} /\ mishaps < MaxMishaps
              /\ mishaps' = mishaps + 1
              /\ excused' = excused \cup Mountable(job[c])
        /\ Goto(c, "ready") /\ UNCHANGED <<job, mount, mistaken, lock, todo>>
  /\ UNCHANGED <<kernelVars, page, listVars, worker, moving, spoolVars, outVars,
                 flags, uses, shared, misread>>

(* Mutant: the file of the other side is removed.                           *)
ReadyOther(c) ==
  /\ pc[c] = "ready"
  /\ Goto(c, IF Opposite(job[c].side) \in flags THEN "readyRemove" ELSE "idle")
  /\ UNCHANGED <<kernelVars, page, job, listVars, mount, worker, todoVars,
                 spoolVars, outVars, markVars, uses, mishaps, historyVars>>

(* ready_in, ready_out.                                                     *)
Ready(c) ==
  /\ pc[c] = "ready"
  /\ Goto(c, IF job[c].side \in flags THEN "readyRemove" ELSE "idle")
  /\ UNCHANGED <<kernelVars, page, job, listVars, mount, worker, todoVars,
                 spoolVars, outVars, markVars, uses, mishaps, historyVars>>

ReadyRemove(c) ==
  /\ pc[c] = "readyRemove"
  /\ RemoveFlag(c, job[c].side, "idle")
  /\ UNCHANGED <<kernelVars, page, job, listVars, mount, worker, todoVars,
                 spoolVars, outVars, lock, uses, mishaps, historyVars>>

------------------------------------------------------------------------------
(* copy_files_in: one worker for each file the walk finds.                  *)

At(c, f, step) == worker' = [worker EXCEPT ![c][f].at = step]

inFrame == <<kernelVars, page, job, listVars, todoVars, outVars, flags, uses,
             misread, mistaken>>

(* The walk meets a file.  On a mount that was taken away its metadata      *)
(* cannot be read, which panics, unless the directory itself could not be.  *)
Walk(c, f) ==
  /\ pc[c] = "walk" /\ f \in Holds[job[c].key] /\ worker[c][f].at = "none"
  /\ \/ mount[c] # NoKey /\ At(c, f, "walked") /\ UNCHANGED pc
     \/ mount[c] \notin Keys /\ At(c, f, "lost") /\ UNCHANGED pc
     \/ mount[c] \notin Keys /\ Goto(c, "panic") /\ UNCHANGED worker
  /\ UNCHANGED <<inFrame, mount, spoolVars, lock, mishaps, shared, excused>>

Mishap(c) ==
  /\ mishaps < MaxMishaps
  /\ mishaps' = mishaps + 1
  /\ excused' = excused \cup {job[c].key}

(* On a key that is there an entry the walk cannot read is passed over with *)
(* all that is under it; one whose metadata it cannot read ends it, and the *)
(* thread once its workers have ended.                                      *)
WalkFails(c) ==
  LET left == {f \in Holds[job[c].key] : worker[c][f].at = "none"}
      Drop(files) == worker' = [worker EXCEPT ![c] = [f \in Files |->
                       IF f \in files THEN [@[f] EXCEPT !.at = "dropped"] ELSE @[f]]]
  IN /\ pc[c] = "walk" /\ mount[c] \in Keys /\ Mishap(c)
     /\ \/ (\E files \in SUBSET left : files # {} /\ Drop(files)) /\ UNCHANGED pc
        \/ Drop(left) /\ Goto(c, "panic")
     /\ UNCHANGED <<inFrame, mount, spoolVars, lock, shared>>

(* A worker finds its file and opens it, and the one in TMP_DIR, which is   *)
(* cut to nothing if it is there; or else it ends without a word.           *)
StartCopy(c, f) ==
  LET n == NameOf[f]
      others == OnTmp(n)
  IN /\ worker[c][f].at = "walked"
     /\ \/ /\ mount[c] # NoKey
           /\ worker' = [worker EXCEPT ![c][f] =
                [at |-> IF mount[c] = Gone THEN "broken" ELSE "copying",
                 on |-> "tmp"]]
           /\ tmp' = [tmp EXCEPT ![n] =
                [by |-> {f} \cup {w[2] : w \in others}, whole |-> FALSE]]
           /\ shared' = IF others = {} THEN shared ELSE shared \cup {n}
        \/ /\ mount[c] \notin Keys
           /\ At(c, f, "lost") /\ UNCHANGED <<tmp, shared>>
     /\ UNCHANGED <<inFrame, pc, mount, sas_in, reports, lock, mishaps, excused>>

(* The copy ends well: what was opened is whole if this worker alone, or    *)
(* others with the same file that have ended, wrote it.                     *)
EndCopy(c, f) ==
  LET n == NameOf[f]
      place == worker[c][f].on
      together == \E w \in Clients \X Files :
                    /\ w # <<c, f>> /\ NameOf[w[2]] = n
                    /\ worker[w[1]][w[2]].at \in {"copying", "broken"}
                    /\ worker[w[1]][w[2]].on = place
      Written(content) == [content EXCEPT !.whole = ~together /\ content.by = {f}]
  IN /\ worker[c][f].at = "copying"
     /\ At(c, f, "renaming")
     /\ tmp' = IF place = "tmp" THEN [tmp EXCEPT ![n] = Written(@)] ELSE tmp
     /\ sas_in' = IF place = "in" THEN [sas_in EXCEPT ![n] = Written(@)] ELSE sas_in
     /\ UNCHANGED <<inFrame, pc, mount, reports, lock, mishaps, shared, excused>>

(* Mutant: the file is renamed though its copy failed.                      *)
FailCopyIgnored(c, f) ==
  /\ worker[c][f].at = "broken"
  /\ At(c, f, "renaming")
  /\ excused' = excused \cup {job[c].key}
  /\ UNCHANGED <<inFrame, pc, mount, spoolVars, lock, mishaps, shared>>

FailCopy(c, f) ==
  /\ \/ worker[c][f].at = "broken" /\ UNCHANGED mishaps
     \/ /\ worker[c][f].at = "copying" /\ mishaps < MaxMishaps
        /\ mishaps' = mishaps + 1
  /\ At(c, f, "failing")
  /\ excused' = excused \cup {job[c].key}
  /\ UNCHANGED <<inFrame, pc, mount, spoolVars, lock, shared>>

(* What stands at the name in TMP_DIR goes to sas_in, for all who have it   *)
(* open; what stood there in sas_in loses its name.                         *)
Rename(c, f) ==
  LET n == NameOf[f]
      Follow(w, g) ==
        IF w.at \in {"copying", "broken", "renaming"} /\ NameOf[g] = n
        THEN [w EXCEPT !.on = CASE @ = "tmp" -> "in" [] OTHER -> "gone"]
        ELSE w
  IN /\ worker[c][f].at = "renaming"
     /\ IF tmp[n] # Absent
        THEN /\ sas_in' = [sas_in EXCEPT ![n] = tmp[n]]
             /\ tmp' = [tmp EXCEPT ![n] = Absent]
             /\ worker' = [d \in Clients |-> [g \in Files |->
                  IF <<d, g>> = <<c, f>> THEN [at |-> "moved", on |-> "gone"]
                  ELSE Follow(worker[d][g], g)]]
        ELSE At(c, f, "lost") /\ UNCHANGED <<sas_in, tmp>>
     /\ UNCHANGED <<inFrame, pc, mount, reports, lock, mishaps, shared, excused>>

(* Mutant: the error is only logged.                                        *)
ReportLogged(c, f) ==
  /\ worker[c][f].at = "failing"
  /\ At(c, f, "unmounting")
  /\ UNCHANGED <<inFrame, pc, mount, spoolVars, lock, mishaps, shared, excused>>

(* After an error: the report, then the early unmounting, from under the    *)
(* other workers.                                                           *)
Report(c, f) ==
  /\ worker[c][f].at = "failing"
  /\ reports' = reports \cup {NameOf[f]}
  /\ At(c, f, "unmounting")
  /\ UNCHANGED <<inFrame, pc, mount, tmp, sas_in, lock, mishaps, shared, excused>>

(* The errors a worker swallows: before its copy, a path that is no text,   *)
(* TMP_DIR that is no directory or metadata that cannot be read; a rename   *)
(* that fails, which is not even logged and leaves the copy in TMP_DIR; a   *)
(* report that cannot be created, after which nothing is unmounted.  The    *)
(* last needs no mishap of its own, the copy that failed being one.         *)
Swallow(c, f) ==
  /\ worker[c][f].at \in {"walked", "renaming", "failing"}
  /\ At(c, f, "dropped")
  /\ IF worker[c][f].at = "failing" THEN UNCHANGED <<mishaps, excused>> ELSE Mishap(c)
  /\ UNCHANGED <<inFrame, pc, mount, spoolVars, lock, shared>>

EarlyUnmount(c, f) ==
  /\ worker[c][f].at = "unmounting"
  /\ mount' = [mount EXCEPT ![c] = NoKey]
  /\ At(c, f, "failed")
  /\ UNCHANGED <<inFrame, pc, spoolVars, lock, mishaps, shared, excused>>

Joined(c) == \A f \in Files : worker[c][f].at \in Finished

(* Mutant: the workers are not waited for.                                  *)
JoinAtOnce(c) ==
  /\ pc[c] = "walk" /\ \A f \in Holds[job[c].key] : worker[c][f].at # "none"
  /\ Goto(c, "unlock")
  /\ UNCHANGED <<inFrame, worker, mount, spoolVars, lock, mishaps, shared, excused>>

(* The scope waits for the workers, after a panic also.                     *)
Join(c) ==
  /\ Joined(c)
  /\ \/ /\ pc[c] = "walk"
        /\ \A f \in Holds[job[c].key] : worker[c][f].at # "none"
        /\ Goto(c, "unlock")
        /\ UNCHANGED worker
     \/ /\ pc[c] = "panic"
        /\ Goto(c, "dead")
        /\ worker' = [worker EXCEPT ![c] = [f \in Files |-> NotStarted]]
  /\ UNCHANGED <<inFrame, mount, spoolVars, lock, mishaps, shared, excused>>

(* LOCK is removed if it is there, in two steps, then the device unmounted. *)
Unlock(c) ==
  /\ pc[c] = "unlock"
  /\ worker' = [worker EXCEPT ![c] = [f \in Files |-> NotStarted]]
  /\ IF lock THEN Goto(c, "removeLock") /\ UNCHANGED mount
     ELSE Goto(c, "ready") /\ mount' = [mount EXCEPT ![c] = NoKey]
  /\ UNCHANGED <<inFrame, spoolVars, lock, mishaps, shared, excused>>

RemoveLock(c) ==
  /\ pc[c] = "removeLock"
  /\ IF lock THEN Goto(c, "ready") /\ mount' = [mount EXCEPT ![c] = NoKey]
     ELSE Goto(c, "dead") /\ UNCHANGED mount
  /\ lock' = FALSE
  /\ UNCHANGED <<inFrame, worker, spoolVars, mishaps, shared, excused>>

------------------------------------------------------------------------------
(* move_files_out: the names of sas_out one after the other.                *)

moveFrame == <<kernelVars, page, job, listVars, worker, spoolVars, made, markVars,
               uses, shared, misread, mistaken>>

(* An error other than the copy's ends the thread with the key mounted, and *)
(* the temporary directory it is mounted on is removed with all it holds.   *)
EndMove(c) ==
  /\ Goto(c, "dead")
  /\ IF mount[c] \in Keys
     THEN /\ onKey' = [onKey EXCEPT ![mount[c]] = [n \in Names |-> Absent]]
          /\ excused' = excused \cup {mount[c]}
     ELSE UNCHANGED <<onKey, excused>>

(* Mutant: the file is removed without its copy.                            *)
NextMoveForgets(c) ==
  /\ pc[c] = "next"
  /\ \E n \in todo[c] :
       /\ todo' = [todo EXCEPT ![c] = @ \ {n}]
       /\ moving' = [moving EXCEPT ![c] = n]
  /\ Goto(c, "remove")
  /\ UNCHANGED <<moveFrame, mount, onKey, excused, sas_out, spoiled, sent, mishaps>>

NextMove(c) ==
  /\ pc[c] = "next"
  /\ \/ /\ todo[c] = {}
        /\ mount' = [mount EXCEPT ![c] = NoKey]
        /\ Goto(c, "ready")
        /\ UNCHANGED <<todoVars, onKey, excused>>
     \/ \E n \in todo[c] :
          /\ todo' = [todo EXCEPT ![c] = @ \ {n}]
          /\ UNCHANGED mount
          /\ \/ /\ sas_out[n] # "absent"
                /\ moving' = [moving EXCEPT ![c] = n]
                /\ Goto(c, "copy") /\ UNCHANGED <<onKey, excused>>
             \/ /\ sas_out[n] = "absent"
                /\ EndMove(c) /\ UNCHANGED moving
  /\ UNCHANGED <<moveFrame, sas_out, spoiled, sent, mishaps>>

(* The copy to the key, over what was written there under the same name;    *)
(* once the key was unmounted, to the directory that was under it, which    *)
(* will be removed.                                                         *)
CopyOut(c) ==
  LET n == moving[c]
      k == mount[c]
      Write(whole) == onKey' = [onKey EXCEPT ![k][OutNameOf[n]] =
                                  [of |-> n, whole |-> whole]]
  IN /\ pc[c] = "copy" /\ Goto(c, "remove")
     /\ \/ /\ sas_out[n] # "absent" /\ k \in Keys
           /\ Write(sas_out[n] = "whole")
           /\ spoiled' = IF sas_out[n] = "writing"
                         THEN spoiled \cup {n} ELSE spoiled
           /\ UNCHANGED <<mount, excused, mishaps>>
        \/ /\ sas_out[n] # "absent" /\ k = NoKey
           /\ UNCHANGED <<mount, onKey, spoiled, excused, mishaps>>
        \/ /\ sas_out[n] = "absent" \/ k = Gone
           /\ mount' = [mount EXCEPT ![c] = NoKey]
           /\ excused' = excused \cup {job[c].key}
           /\ UNCHANGED <<onKey, spoiled, mishaps>>
        \/ /\ sas_out[n] # "absent" /\ k \in Keys /\ mishaps < MaxMishaps
           /\ Write(FALSE)
           /\ mount' = [mount EXCEPT ![c] = NoKey]
           /\ excused' = excused \cup {k}
           /\ mishaps' = mishaps + 1
           /\ UNCHANGED spoiled
     /\ UNCHANGED <<moveFrame, todoVars, sas_out, sent>>

(* The file is removed from sas_out, whether it was copied or not.          *)
RemoveOut(c) ==
  LET n == moving[c]
  IN /\ pc[c] = "remove"
     /\ moving' = [moving EXCEPT ![c] = NoName]
     /\ \/ /\ sas_out[n] # "absent"
           /\ sas_out' = [sas_out EXCEPT ![n] = "absent"]
           /\ sent' = sent \cup {<<n, job[c].key>>}
           /\ Goto(c, "next") /\ UNCHANGED <<onKey, excused>>
        \/ /\ sas_out[n] = "absent"
           /\ EndMove(c) /\ UNCHANGED <<sas_out, sent>>
     /\ UNCHANGED <<moveFrame, todo, mount, spoiled, mishaps>>

------------------------------------------------------------------------------
Worker(c) ==
  \/ WalkFails(c)
  \/ \E f \in Files :
    \/ Walk(c, f) \/ StartCopy(c, f) \/ EndCopy(c, f) \/ FailCopy(c, f)
    \/ Rename(c, f) \/ Report(c, f) \/ Swallow(c, f) \/ EarlyUnmount(c, f)

Thread(c) ==
  \/ HandleAdd(c) \/ HandleRemove(c)
  \/ Busy(c) \/ BusyRemove(c) \/ Admit(c) \/ MountDevice(c)
  \/ Ready(c) \/ ReadyRemove(c)
  \/ Worker(c) \/ Join(c) \/ Unlock(c) \/ RemoveLock(c)
  \/ NextMove(c) \/ CopyOut(c) \/ RemoveOut(c)

World ==
  \/ \E c \in Clients : Open(c) \/ Close(c)
  \/ \E n \in Nodes : Pull(n) \/ \E k \in Keys : Insert(k, n)
  \/ \E n \in OutNames : OutCreate(n) \/ OutFinish(n)

Next == World \/ \E c \in Clients : Thread(c)

(* The threads run; pages, users and keysas-out may do nothing.             *)
Spec == Init /\ [][Next]_vars /\ \A c \in Clients : WF_vars(Thread(c))

------------------------------------------------------------------------------
(* Each variable has a value of its type, and the worker threads live only  *)
(* inside the scope of copy_files_in.                                       *)
IoTypeOK ==
  /\ device \in [Nodes -> Keys \cup {NoKey}]
  /\ page \in [Clients -> {"none", "open", "closed"}]
  /\ queue \in [Clients -> Seq(Events)]
  /\ pc \in [Clients -> ThreadSteps] /\ job \in [Clients -> Jobs]
  /\ \A c \in Clients : keys_in[c] \cup keys_out[c] \subseteq {Product[k] : k \in Keys}
  /\ mount \in [Clients -> Keys \cup {NoKey, Gone}]
  /\ worker \in [Clients -> [Files -> WorkerStates]]
  /\ todo \in [Clients -> SUBSET OutNames]
  /\ moving \in [Clients -> OutNames \cup {NoName}]
  /\ \A c \in Clients :
       /\ (moving[c] # NoName) = (pc[c] \in {"copy", "remove"})
       /\ pc[c] \notin {"walk", "panic"} => Joined(c)
  /\ \A n \in Names : {tmp[n], sas_in[n]} \subseteq Content \cup {Absent}
  /\ reports \subseteq Names
  /\ sas_out \in [OutNames -> {"absent", "writing", "whole"}]
  /\ onKey \in [Keys -> [Names -> Copies \cup {Absent}]]
  /\ flags \subseteq Sides \cup {"dir"} /\ lock \in BOOLEAN
  /\ shared \subseteq Names /\ misread \cup mistaken \cup excused \subseteq Keys
  /\ made \cup spoiled \subseteq OutNames
  /\ sent \subseteq OutNames \X Keys

(* What keysas-in may open in sas_in is a whole file, though the key is     *)
(* pulled out, cannot be read or is unmounted at any moment of the copying, *)
(* unless two workers used the same name of TMP_DIR at the same time.       *)
WholeUnlessShared ==
  \A n \in Names : sas_in[n] # Absent => sas_in[n].whole \/ n \in shared

(* When the copying of a key that stayed in ends, by a panic also, and a    *)
(* file of it did not reach sas_in, some file of the key left an .ioerror   *)
(* report, unless another worker had its name, or the code swallowed an     *)
(* error met on the way to the file, on the file or on its report: what the *)
(* early unmounting takes from the other workers never goes unreported.     *)
LossIsTraced ==
  \A c \in Clients :
    pc[c] \in {"unlock", "panic"} /\ Joined(c) /\ mount[c] # Gone
    => \A f \in Holds[job[c].key] :
         \/ worker[c][f].at \in {"moved", "dropped"}
         \/ NameOf[f] \in shared
         \/ \E g \in Holds[job[c].key] : NameOf[g] \in reports

(* A key signed for the out side is never read from, although the event of  *)
(* its disk is always taken for that of an unsigned key, and what leaves    *)
(* sas_out goes to signed keys only: unless its signature could not be read *)
(* when its partition came up, or it was mounted for the event of another   *)
(* key that had left it its device node.                                    *)
SidesAreKept ==
  /\ \A n \in Names, k \in Signed :
       sas_in[n] # Absent /\ sas_in[n].by \cap Holds[k] # {}
       => k \in misread \cup mistaken
  /\ \A s \in sent : s[2] \in Signed \cup mistaken

(* A file that left sas_out is whole on the key it was moved to, or lies    *)
(* under another one that is written the same, unless it was moved while    *)
(* keysas-out wrote it, or something happened to the key.                   *)
SentIsOnKey ==
  \A s \in sent :
    LET there == onKey[s[2]][OutNameOf[s[1]]]
    IN \/ there # Absent /\ (there.of = s[1] => there.whole)
       \/ s[1] \in spoiled \/ s[2] \in excused

(* The station shows a side as busy, and holds LOCK, only while a thread    *)
(* works on it, or when one died at it, whatever the two branches of        *)
(* busy_in and busy_out did to each other's file.                           *)
MarksHaveOwners ==
  /\ \A side \in Sides \cap flags : \E c \in Clients :
       job[c].side = side /\ pc[c] \notin {"off", "idle", "busy", "busyRemove"}
  /\ lock => \E c \in Clients :
       pc[c] \in {"walk", "panic", "unlock", "removeLock", "dead"}

(* An unsigned key with a partition that came up while a page was there     *)
(* gets its files to sas_in, identical keys together, unless it is pulled   *)
(* out, something happened to it, or the thread died.  A key without one is *)
(* passed over while the thread knows its product.                          *)
Waits(c, k) ==
  \E i \in 1..Len(queue[c]) :
    queue[c][i].key = k /\ queue[c][i].action # "remove"

KeyIsCopied ==
  \A c \in Clients, k \in Partitioned \ Signed :
    Waits(c, k) ~> \/ \A f \in Holds[k] : sas_in[NameOf[f]] # Absent
                   \/ k \notin plugged \/ k \in excused \/ pc[c] = "dead"
=============================================================================
