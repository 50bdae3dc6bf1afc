---------------------------- MODULE KeysasIoProofs ----------------------------
(***************************************************************************)
(* What is proved of keysas-io: the types, the marks, and what happens to  *)
(* the files it copies in and to those it moves out, whatever pages, keys  *)
(* and workers there are.                                                  *)
(***************************************************************************)
EXTENDS KeysasIo, TLAPS

------------------------------------------------------------------------------
(* What the threads are about: off its loop, a thread has a key at hand.    *)
Resting == {"off", "idle", "dead"}
Reading == {"walk", "panic", "unlock"}
MovingOut == {"next", "copy", "remove"}

Kernel ==
  /\ device \in [Nodes -> Keys \cup {NoKey}]
  /\ queue \in [Clients -> Seq(Events)]

Threads ==
  /\ page \in [Clients -> {"none", "open", "closed"}]
  /\ pc \in [Clients -> ThreadSteps] /\ job \in [Clients -> Jobs]
  /\ mount \in [Clients -> Keys \cup {NoKey, Gone}]
  /\ \A c \in Clients :
       /\ page[c] = "none" => pc[c] = "off"
       /\ pc[c] \notin Resting => job[c].key \in Keys /\ job[c].node \in Nodes
       /\ pc[c] \in Reading \cup {"removeLock"} =>
            /\ job[c].side = "in"
            /\ (job[c].kind = "partition") = (job[c].key \in Partitioned)
       /\ pc[c] \in MovingOut => job[c].side = "out"

Lists ==
  /\ keys_in \in [Clients -> SUBSET {Product[k] : k \in Keys}]
  /\ keys_out \in [Clients -> SUBSET {Product[k] : k \in Keys}]

(* A worker lives while its thread reads the key of its file.  The file it  *)
(* has open has the name it was opened under, until it loses it.            *)
Holding == {"copying", "broken", "renaming"}

Workers ==
  /\ worker \in [Clients -> [Files -> WorkerStates]]
  /\ \A c \in Clients, f \in Files : worker[c][f].at # "none" =>
       /\ pc[c] \in Reading /\ f \in Holds[job[c].key]
       /\ pc[c] = "unlock" => worker[c][f].at \in Finished

Spools ==
  /\ tmp \in [Names -> Content \cup {Absent}]
  /\ sas_in \in [Names -> Content \cup {Absent}]
  /\ reports \subseteq Names /\ shared \subseteq Names
  /\ \A c \in Clients, f \in Files : worker[c][f].at \in Holding =>
       /\ worker[c][f].on = "tmp" => tmp[NameOf[f]] # Absent
       /\ worker[c][f].on = "in" => sas_in[NameOf[f]] # Absent

Outs ==
  /\ todo \in [Clients -> SUBSET OutNames]
  /\ moving \in [Clients -> OutNames \cup {NoName}]
  /\ \A c \in Clients : (moving[c] # NoName) = (pc[c] \in {"copy", "remove"})
  /\ sas_out \in [OutNames -> {"absent", "writing", "whole"}]
  /\ onKey \in [Keys -> [Names -> Copies \cup {Absent}]]
  /\ made \subseteq OutNames /\ spoiled \subseteq OutNames
  /\ sent \subseteq OutNames \X Keys

Records ==
  /\ flags \subseteq Sides \cup {"dir"} /\ lock \in BOOLEAN
  /\ misread \subseteq Keys /\ mistaken \subseteq Keys /\ excused \subseteq Keys

IoShape ==
  Kernel /\ Threads /\ Lists /\ Workers /\ Spools /\ Outs /\ Records

------------------------------------------------------------------------------
(* A thread on the wrong side of its key misread the key or was mistaken    *)
(* about it: this holds of the keys whose files were copied in, and of      *)
(* those that were written to.                                              *)
Unread(f) == \A k \in Signed : f \in Holds[k] => k \in misread \cup mistaken

Wrong(c) ==
  /\ pc[c] \notin Resting
  /\ \/ job[c].side = "in" /\ job[c].kind = "partition" /\ job[c].key \in Signed
     \/ job[c].side = "out" /\ job[c].key \notin Signed

Doubted(j) == j.key \in mistaken \/ (j.side = "in" /\ j.key \in misread)

Reads ==
  /\ \A c \in Clients : Wrong(c) => Doubted(job[c])
  /\ \A s \in sent : s[2] \in Signed \cup mistaken
  /\ \A n \in Names :
       /\ tmp[n] # Absent => \A f \in tmp[n].by : Unread(f)
       /\ sas_in[n] # Absent => \A f \in sas_in[n].by : Unread(f)

(* Two workers that have the same name open share it, and so does one whose *)
(* file was renamed by another; what a worker alone wrote is its own.       *)
Holder(c, f) == worker[c][f].at \in Holding
Together(c, f, d, g) ==
  /\ Holder(c, f) /\ worker[c][f].on = "tmp"
  /\ Holder(d, g) /\ worker[d][g].on = "tmp"
  /\ NameOf[f] = NameOf[g] /\ <<c, f>> # <<d, g>>

Alone ==
  /\ \A c, d \in Clients, f, g \in Files :
       Together(c, f, d, g) => NameOf[f] \in shared
  /\ \A c \in Clients, f \in Files :
       Holder(c, f) /\ NameOf[f] \notin shared =>
         /\ worker[c][f].on = "tmp"
         /\ tmp[NameOf[f]].by = {f}
         /\ worker[c][f].at = "renaming" => tmp[NameOf[f]].whole

(* A worker that reported its failure did, a mount that was taken away from *)
(* under a reading thread was by one that had, and a file is lost only when *)
(* its key was not there any more or its name was shared.                   *)
Reported(k) == \E g \in Holds[k] : NameOf[g] \in reports
AllMet(c) == \A f \in Holds[job[c].key] : worker[c][f].at # "none"

Traces ==
  /\ \A c \in Clients :
       /\ pc[c] \in Reading /\ mount[c] = NoKey => Reported(job[c].key)
       /\ pc[c] = "panic" => mount[c] \notin Keys \/ AllMet(c)
       /\ pc[c] = "unlock" => AllMet(c)
  /\ \A c \in Clients, f \in Files :
       /\ worker[c][f].at \in {"unmounting", "failed"} => NameOf[f] \in reports
       /\ worker[c][f].at = "lost" => mount[c] \notin Keys \/ NameOf[f] \in shared

(* A thread that moves files out has its key mounted, or something happened *)
(* to it; what it is about to remove from sas_out is on it.                 *)
Kept(n, k) ==
  /\ onKey[k][OutNameOf[n]] # Absent
  /\ onKey[k][OutNameOf[n]].of = n => onKey[k][OutNameOf[n]].whole
Delivered(n, k) == Kept(n, k) \/ n \in spoiled \/ k \in excused

Moves ==
  /\ \A c \in Clients : pc[c] \in MovingOut =>
       /\ mount[c] \in {job[c].key, NoKey, Gone}
       /\ mount[c] # job[c].key => job[c].key \in excused
       /\ pc[c] = "remove" => Delivered(moving[c], job[c].key)
  /\ SentIsOnKey

------------------------------------------------------------------------------
(* Which steps touch what. *)

USE DEF historyVars

worldFrame == <<job, listVars, todoVars, spoolVars, markVars, onKey, spoiled, sent,
                shared, misread, mistaken>>
loopFrame == <<page, worker, moving, spoolVars, outVars, uses, shared>>

Loop(c) ==
  \/ HandleAdd(c) \/ HandleRemove(c)
  \/ Busy(c) \/ BusyRemove(c) \/ Admit(c) \/ MountDevice(c)
  \/ Ready(c) \/ ReadyRemove(c)
Ending(c) == Join(c) \/ Unlock(c) \/ RemoveLock(c)
Move(c) == NextMove(c) \/ CopyOut(c) \/ RemoveOut(c)

LEMMA NextIs ==
  ASSUME [Next]_vars
  PROVE  \/ UNCHANGED vars \/ World
         \/ \E c \in Clients : Loop(c) \/ Worker(c) \/ Ending(c) \/ Move(c)
BY DEF Next, Thread, Loop, Ending, Move

LEMMA WorldKeeps == World => UNCHANGED worldFrame
<1>1. ASSUME NEW c \in Clients, Open(c) \/ Close(c) PROVE UNCHANGED worldFrame
  BY <1>1 DEF Open, Close, worldFrame, outVars
<1>2. ASSUME NEW k \in Keys, NEW n \in Nodes, Insert(k, n) PROVE UNCHANGED worldFrame
  BY <1>2 DEF Insert, worldFrame, outVars
<1>4. ASSUME NEW n \in Nodes, Pull(n) PROVE UNCHANGED worldFrame
  BY <1>4 DEF Pull, worldFrame, outVars
<1>3. ASSUME NEW n \in OutNames, OutCreate(n) \/ OutFinish(n) PROVE UNCHANGED worldFrame
  BY <1>3 DEF OutCreate, OutFinish, worldFrame
<1> QED
  BY <1>1, <1>2, <1>3, <1>4 DEF World

LEMMA LoopKeeps == ASSUME NEW c \in Clients, Loop(c) PROVE UNCHANGED loopFrame
<1>1. HandleAdd(c) \/ HandleRemove(c) => UNCHANGED loopFrame
  BY DEF HandleAdd, HandleRemove, loopFrame, todoVars
<1>2. Busy(c) \/ BusyRemove(c) \/ Ready(c) \/ ReadyRemove(c) => UNCHANGED loopFrame
  BY DEF Busy, BusyRemove, Ready, ReadyRemove, loopFrame, todoVars
<1>3. Admit(c) \/ MountDevice(c) => UNCHANGED loopFrame
  BY DEF Admit, MountDevice, loopFrame, todoVars
<1> QED
  BY <1>1, <1>2, <1>3 DEF Loop

LEMMA ReadingKeeps ==
  ASSUME NEW c \in Clients, Worker(c) \/ Ending(c)
  PROVE  UNCHANGED inFrame
<1>1. ASSUME NEW f \in Files,
             Walk(c, f) \/ StartCopy(c, f) \/ EndCopy(c, f) \/ FailCopy(c, f)
      PROVE  UNCHANGED inFrame
  BY <1>1 DEF Walk, StartCopy, EndCopy, FailCopy
<1>2. ASSUME NEW f \in Files,
             Rename(c, f) \/ Report(c, f) \/ Swallow(c, f) \/ EarlyUnmount(c, f)
      PROVE  UNCHANGED inFrame
  BY <1>2 DEF Rename, Report, Swallow, EarlyUnmount
<1>3. Ending(c) \/ WalkFails(c) => UNCHANGED inFrame
  BY DEF Ending, Join, Unlock, RemoveLock, WalkFails
<1> QED
  BY <1>1, <1>2, <1>3 DEF Worker

LEMMA MoveKeeps == ASSUME NEW c \in Clients, Move(c) PROVE UNCHANGED moveFrame
BY DEF Move, NextMove, CopyOut, RemoveOut

LEMMA InitShape == Init => IoShape
<1> SUFFICES ASSUME Init PROVE IoShape
  OBVIOUS
<1> USE IoAssumption, AbsentAssumption DEF Init
<1>1. Kernel
  BY DEF Kernel
<1>2. Threads
  BY DEF Threads, ThreadSteps, Jobs, NoJob, Sides, Resting, Reading, MovingOut
<1>3. Lists
  BY DEF Lists
<1>4. Workers
  BY DEF Workers, WorkerStates, NotStarted, Finished
<1>5. Spools
  BY DEF Spools, NotStarted, Holding
<1>6. Outs
  BY DEF Outs
<1>7. Records
  BY DEF Records
<1> QED
  BY <1>1, <1>2, <1>3, <1>4, <1>5, <1>6, <1>7 DEF IoShape

------------------------------------------------------------------------------
(* The types. *)

LEMMA KernelSteps ==
  ASSUME [Next]_vars
  PROVE  \/ UNCHANGED kernelVars
         \/ \E n \in Nodes : Pull(n) \/ \E k \in Keys : Insert(k, n)
         \/ \E c \in Clients : HandleAdd(c) \/ HandleRemove(c)
<1>1. UNCHANGED vars => UNCHANGED kernelVars
  BY DEF vars, kernelVars
<1>2. ASSUME NEW c \in Clients, Open(c) \/ Close(c) PROVE UNCHANGED kernelVars
  BY <1>2 DEF Open, Close
<1>3. ASSUME NEW n \in OutNames, OutCreate(n) \/ OutFinish(n) PROVE UNCHANGED kernelVars
  BY <1>3 DEF OutCreate, OutFinish, kernelVars
<1>4. ASSUME NEW c \in Clients, Loop(c)
      PROVE  UNCHANGED kernelVars \/ HandleAdd(c) \/ HandleRemove(c)
  BY <1>4 DEF Loop, Busy, BusyRemove, Admit, MountDevice, Ready, ReadyRemove
<1>5. ASSUME NEW c \in Clients, Worker(c) \/ Ending(c) PROVE UNCHANGED kernelVars
  BY <1>5, ReadingKeeps DEF inFrame
<1>6. ASSUME NEW c \in Clients, Move(c) PROVE UNCHANGED kernelVars
  BY <1>6, MoveKeeps DEF moveFrame
<1> QED
  BY <1>1, <1>2, <1>3, <1>4, <1>5, <1>6, NextIs DEF World

LEMMA NotifyType ==
  ASSUME Kernel, NEW evts \in Seq(Events), Notify(evts)
  PROVE  queue' \in [Clients -> Seq(Events)]
BY DEF Kernel, Notify

LEMMA HeadType ==
  ASSUME Kernel, NEW c \in Clients, queue[c] # << >>
  PROVE  Head(queue[c]) \in Events /\ Tail(queue[c]) \in Seq(Events)
BY DEF Kernel

LEMMA KernelStays == Kernel /\ [Next]_vars => Kernel'
<1> SUFFICES ASSUME Kernel, [Next]_vars PROVE Kernel'
  OBVIOUS
<1>1. CASE UNCHANGED kernelVars
  BY <1>1 DEF Kernel, kernelVars
<1>2. ASSUME NEW k \in Keys, NEW n \in Nodes, Insert(k, n) PROVE Kernel'
  <2> DEFINE disk == <<[action |-> "disk", key |-> k, node |-> n]>>
             part == IF k \in Partitioned
                     THEN <<[action |-> "partition", key |-> k, node |-> n]>>
                     ELSE << >>
  <2>1. disk \in Seq(Events) /\ part \in Seq(Events)
    <3>1. [action |-> "disk", key |-> k, node |-> n] \in Events
      BY DEF Events
    <3>2. [action |-> "partition", key |-> k, node |-> n] \in Events
      BY DEF Events
    <3>3. << >> \in Seq(Events)
      OBVIOUS
    <3> QED
      BY <3>1, <3>2, <3>3
  <2>2. disk \o part \in Seq(Events)
    BY <2>1
  <2>3. Notify(disk \o part) /\ device' = [device EXCEPT ![n] = k]
    BY <1>2 DEF Insert
  <2> QED
    BY <2>2, <2>3, NotifyType DEF Kernel
<1>3. ASSUME NEW n \in Nodes, Pull(n) PROVE Kernel'
  <2>1. device[n] \in Keys
    BY <1>3 DEF Kernel, Pull
  <2>2. <<[action |-> "remove", key |-> device[n], node |-> n]>> \in Seq(Events)
    BY <2>1 DEF Events
  <2> QED
    BY <1>3, <2>2, NotifyType DEF Kernel, Pull
<1>4. ASSUME NEW c \in Clients, HandleAdd(c) \/ HandleRemove(c) PROVE Kernel'
  <2>1. Tail(queue[c]) \in Seq(Events)
    BY <1>4, HeadType DEF HandleAdd, HandleRemove
  <2>2. queue' \in {queue, [queue EXCEPT ![c] = Tail(@)]} /\ UNCHANGED device
    BY <1>4 DEF HandleAdd, HandleRemove, Handled
  <2> QED
    BY <2>1, <2>2 DEF Kernel
<1> QED
  BY <1>1, <1>2, <1>3, <1>4, KernelSteps

LEMMA GotoType ==
  ASSUME Threads, NEW c \in Clients, NEW step \in ThreadSteps, Goto(c, step)
  PROVE  /\ pc' \in [Clients -> ThreadSteps]
         /\ pc'[c] = step /\ \A d \in Clients : d # c => pc'[d] = pc[d]
BY DEF Threads, Goto

LEMMA ThreadsWorld == Threads /\ World => Threads'
<1> SUFFICES ASSUME Threads, World PROVE Threads'
  OBVIOUS
<1>1. ASSUME NEW c \in Clients, Open(c) \/ Close(c) PROVE Threads'
  BY <1>1 DEF Open, Close, Threads, ThreadSteps, Resting, Reading, MovingOut
<1>2. ASSUME NEW k \in Keys, NEW n \in Nodes, Insert(k, n) PROVE Threads'
  BY <1>2 DEF Insert, Threads
<1>3. ASSUME NEW n \in Nodes, Pull(n) PROVE Threads'
  BY <1>3 DEF Pull, Threads
<1>4. ASSUME NEW n \in OutNames, OutCreate(n) \/ OutFinish(n) PROVE Threads'
  BY <1>4 DEF OutCreate, OutFinish, Threads
<1> QED
  BY <1>1, <1>2, <1>3, <1>4 DEF World

LEMMA ThreadsLoop ==
  ASSUME Kernel, Threads, NEW c \in Clients, Loop(c) PROVE Threads'
<1>1. CASE HandleAdd(c)
  <2>1. Head(queue[c]) \in Events
    BY <1>1, HeadType DEF HandleAdd
  <2>2. UNCHANGED <<page, mount>> /\ pc[c] = "idle"
    BY <1>1 DEF HandleAdd
  <2>3. \/ UNCHANGED job /\ Goto(c, "dead")
        \/ /\ \E side \in Sides, kind \in {"disk", "partition"}, k \in Keys,
                 n \in Nodes :
                job' = [job EXCEPT ![c] =
                          [key |-> k, node |-> n, side |-> side, kind |-> kind]]
           /\ \E step \in {"busy", "idle"} : Goto(c, step)
    BY <1>1, <2>1 DEF HandleAdd, Handled, SendFails, Events, Sides
  <2>4. CASE UNCHANGED job /\ Goto(c, "dead")
    BY <2>2, <2>4 DEF Threads, Goto, ThreadSteps, Resting, Reading, MovingOut
  <2>5. ASSUME NEW side \in Sides, NEW kind \in {"disk", "partition"}, NEW k \in Keys,
               NEW n \in Nodes,
               job' = [job EXCEPT ![c] =
                         [key |-> k, node |-> n, side |-> side, kind |-> kind]],
               NEW step \in {"busy", "idle"}, Goto(c, step)
        PROVE  Threads'
    <3> PICK j \in Jobs : j = [key |-> k, node |-> n, side |-> side, kind |-> kind]
      BY DEF Jobs
    <3>1. job' \in [Clients -> Jobs] /\ job'[c].key = k /\ job'[c].node = n
          /\ \A d \in Clients : d # c => job'[d] = job[d]
      BY <2>5 DEF Threads
    <3> QED
      BY <2>2, <2>5, <3>1 DEF Threads, Goto, ThreadSteps, Resting, Reading, MovingOut
  <2> QED
    BY <2>3, <2>4, <2>5
<1>2. CASE HandleRemove(c)
  BY <1>2 DEF HandleRemove, SendFails, Threads, Goto, ThreadSteps, Resting, Reading, MovingOut
<1>3. CASE Busy(c) \/ BusyRemove(c)
  BY <1>3 DEF Busy, BusyRemove, RemoveFlag, Threads, Goto, ThreadSteps, Resting, Reading, MovingOut
<1>4. CASE Admit(c)
  BY <1>4 DEF Admit, SendFails, Threads, Goto, ThreadSteps, Resting, Reading, MovingOut
<1>5. CASE MountDevice(c)
  <2>1. UNCHANGED page /\ pc[c] = "mount" /\ job[c] \in Jobs /\ job[c].node \in Nodes
    BY <1>5 DEF MountDevice, Threads, Resting
  <2>2. CASE UNCHANGED <<job, mount>> /\ Goto(c, "ready")
    BY <2>1, <2>2 DEF Threads, Goto, ThreadSteps, Resting, Reading, MovingOut
  <2>3. ASSUME NEW k \in Mountable(job[c]), mount' = [mount EXCEPT ![c] = k],
               job' = [job EXCEPT ![c].key = k],
               \/ job[c].side = "in" /\ Goto(c, "walk")
               \/ job[c].side = "out" /\ Goto(c, "next")
        PROVE  Threads'
    <3>1. k \in Keys /\ (job[c].kind = "partition") = (k \in Partitioned)
      BY <2>1 DEF Mountable, Kernel
    <3>2. job' \in [Clients -> Jobs] /\ mount' \in [Clients -> Keys \cup {NoKey, Gone}]
      BY <2>1, <2>3, <3>1 DEF Jobs, Threads
    <3>3. /\ job'[c].key = k /\ job'[c].node = job[c].node
          /\ job'[c].side = job[c].side /\ job'[c].kind = job[c].kind
          /\ \A d \in Clients : d # c => job'[d] = job[d]
      BY <2>1, <2>3 DEF Jobs, Threads
    <3> QED
      BY <2>1, <2>3, <3>1, <3>2, <3>3 DEF Threads, Goto, ThreadSteps, Resting, Reading, MovingOut
  <2> QED
    BY <1>5, <2>2, <2>3 DEF MountDevice
<1>6. CASE Ready(c) \/ ReadyRemove(c)
  BY <1>6 DEF Ready, ReadyRemove, RemoveFlag, Threads, Goto, ThreadSteps, Resting,
              Reading, MovingOut
<1> QED
  BY <1>1, <1>2, <1>3, <1>4, <1>5, <1>6 DEF Loop

LEMMA ThreadsReading ==
  ASSUME Threads, NEW c \in Clients, Worker(c) \/ Ending(c) PROVE Threads'
<1>1. UNCHANGED <<page, job>>
  BY ReadingKeeps DEF inFrame
<1>2. ASSUME NEW f \in Files,
             Walk(c, f) \/ StartCopy(c, f) \/ EndCopy(c, f) \/ FailCopy(c, f)
      PROVE  UNCHANGED mount /\ (UNCHANGED pc \/ (pc[c] = "walk" /\ Goto(c, "panic")))
  BY <1>2 DEF Walk, StartCopy, EndCopy, FailCopy
<1>3. ASSUME NEW f \in Files,
             Rename(c, f) \/ Report(c, f) \/ Swallow(c, f) \/ EarlyUnmount(c, f)
      PROVE  UNCHANGED pc /\ (UNCHANGED mount \/ mount' = [mount EXCEPT ![c] = NoKey])
  BY <1>3 DEF Rename, Report, Swallow, EarlyUnmount
<1>6. WalkFails(c) =>
        UNCHANGED mount /\ (UNCHANGED pc \/ (pc[c] = "walk" /\ Goto(c, "panic")))
  BY DEF WalkFails
<1>4. CASE Ending(c)
  BY <1>1, <1>4 DEF Ending, Join, Unlock, RemoveLock, Threads, Goto, ThreadSteps,
                    Resting, Reading, MovingOut
<1>5. CASE Worker(c)
  BY <1>1, <1>2, <1>3, <1>5, <1>6 DEF Worker, Threads, Goto, ThreadSteps, Resting, Reading, MovingOut
<1> QED
  BY <1>4, <1>5

LEMMA ThreadsMove ==
  ASSUME Threads, NEW c \in Clients, Move(c) PROVE Threads'
<1>1. UNCHANGED <<page, job>>
  BY MoveKeeps DEF moveFrame
<1>2. /\ pc[c] \in MovingOut
      /\ \E step \in {"ready", "next", "copy", "remove", "dead"} : Goto(c, step)
      /\ mount' \in {mount, [mount EXCEPT ![c] = NoKey]}
  BY DEF Move, NextMove, CopyOut, RemoveOut, EndMove, MovingOut
<1> QED
  BY <1>1, <1>2 DEF Threads, Goto, ThreadSteps, Resting, Reading, MovingOut

LEMMA MountableType ==
  ASSUME Kernel, Threads, NEW c \in Clients, pc[c] \notin Resting
  PROVE  Mountable(job[c]) \subseteq Keys
<1>1. device[job[c].node] \in Keys \cup {NoKey}
  BY DEF Kernel, Threads
<1> QED
  BY <1>1 DEF Mountable

LEMMA ThreadsStay == Kernel /\ Threads /\ [Next]_vars => Threads'
<1> SUFFICES ASSUME Kernel, Threads, [Next]_vars PROVE Threads'
  OBVIOUS
<1>1. CASE UNCHANGED vars
  BY <1>1 DEF vars, Threads
<1> QED
  BY <1>1, NextIs, ThreadsWorld, ThreadsLoop, ThreadsReading, ThreadsMove

WorkerSteps == {"walked", "copying", "broken", "renaming", "failing", "unmounting"}
                 \cup Finished

LEMMA AtIs ==
  ASSUME worker \in [Clients -> [Files -> WorkerStates]],
         NEW c \in Clients, NEW f \in Files, NEW step \in WorkerSteps, At(c, f, step)
  PROVE  /\ worker' \in [Clients -> [Files -> WorkerStates]]
         /\ worker'[c][f].at = step /\ worker'[c][f].on = worker[c][f].on
         /\ \A d \in Clients, g \in Files :
              d # c \/ g # f => worker'[d][g] = worker[d][g]
<1> PICK w \in WorkerStates : w = worker[c][f]
  OBVIOUS
<1>1. worker' = [worker EXCEPT ![c] = [worker[c] EXCEPT ![f] = [w EXCEPT !.at = step]]]
  BY DEF At
<1>2. [w EXCEPT !.at = step] = [at |-> step, on |-> w.on] /\ w.on \in {"tmp", "in", "gone"}
  BY DEF WorkerStates
<1>3. [w EXCEPT !.at = step] \in WorkerStates
  BY <1>2 DEF WorkerStates, WorkerSteps
<1>4. worker'[c][f] = [at |-> step, on |-> w.on]
  BY <1>1, <1>2
<1>5. \A d \in Clients, g \in Files :
        d # c \/ g # f => worker'[d][g] = worker[d][g]
  BY <1>1
<1> QED
  BY <1>1, <1>3, <1>4, <1>5

(* What a rename does to the others' files. *)
Followed(w, g, n) ==
  IF w.at \in Holding /\ NameOf[g] = n
  THEN [at |-> w.at, on |-> IF w.on = "tmp" THEN "in" ELSE "gone"] ELSE w

LEMMA RenameIs ==
  ASSUME worker \in [Clients -> [Files -> WorkerStates]],
         NEW c \in Clients, NEW f \in Files, Rename(c, f), tmp[NameOf[f]] # Absent
  PROVE  /\ worker' \in [Clients -> [Files -> WorkerStates]]
         /\ worker'[c][f] = [at |-> "moved", on |-> "gone"]
         /\ \A d \in Clients, g \in Files : d # c \/ g # f =>
              worker'[d][g] = Followed(worker[d][g], g, NameOf[f])
<1> DEFINE Follow(w, g) ==
             IF w.at \in {"copying", "broken", "renaming"} /\ NameOf[g] = NameOf[f]
             THEN [w EXCEPT !.on = CASE @ = "tmp" -> "in" [] OTHER -> "gone"]
             ELSE w
<1>1. worker' = [d \in Clients |-> [g \in Files |->
                   IF <<d, g>> = <<c, f>> THEN [at |-> "moved", on |-> "gone"]
                   ELSE Follow(worker[d][g], g)]]
  BY DEF Rename
<1>2. ASSUME NEW w \in WorkerStates, NEW g \in Files
      PROVE  Follow(w, g) = Followed(w, g, NameOf[f]) /\ Follow(w, g) \in WorkerStates
  BY DEF Followed, Holding, WorkerStates
<1>3. [at |-> "moved", on |-> "gone"] \in WorkerStates
  BY DEF WorkerStates, Finished
<1> HIDE DEF Follow
<1> QED
  BY <1>1, <1>2, <1>3

LEMMA PullIs ==
  ASSUME worker \in [Clients -> [Files -> WorkerStates]], NEW n \in Nodes, Pull(n)
  PROVE  /\ worker' \in [Clients -> [Files -> WorkerStates]]
         /\ \A c \in Clients, f \in Files :
              \/ worker'[c][f] = worker[c][f]
              \/ /\ worker[c][f].at = "copying"
                 /\ worker'[c][f] = [at |-> "broken", on |-> worker[c][f].on]
<1> DEFINE Broken(w) == [w EXCEPT !.at = "broken"]
<1>1. worker' = [c \in Clients |-> [f \in Files |->
                   IF f \in Holds[device[n]] /\ worker[c][f].at = "copying"
                   THEN Broken(worker[c][f]) ELSE worker[c][f]]]
  BY DEF Pull
<1>2. ASSUME NEW w \in WorkerStates
      PROVE  Broken(w) = [at |-> "broken", on |-> w.on] /\ Broken(w) \in WorkerStates
  BY DEF WorkerStates
<1> HIDE DEF Broken
<1> QED
  BY <1>1, <1>2

LEMMA WalkFailsIs ==
  ASSUME worker \in [Clients -> [Files -> WorkerStates]], NEW c \in Clients, WalkFails(c)
  PROVE  /\ worker' \in [Clients -> [Files -> WorkerStates]]
         /\ \A d \in Clients, f \in Files :
              \/ worker'[d][f] = worker[d][f]
              \/ /\ d = c /\ worker[d][f].at = "none" /\ f \in Holds[job[c].key]
                 /\ worker'[d][f] = [at |-> "dropped", on |-> worker[d][f].on]
         /\ UNCHANGED <<job, mount, spoolVars, lock, shared>>
         /\ pc[c] = "walk" /\ mount[c] \in Keys
         /\ \/ UNCHANGED pc
            \/ Goto(c, "panic") /\ \A f \in Files \cap Holds[job[c].key] :
                                     worker'[c][f].at # "none"
<1> DEFINE Dropped(w) == [w EXCEPT !.at = "dropped"]
           left == {f \in Holds[job[c].key] : worker[c][f].at = "none"}
<1>1. PICK files \in SUBSET left :
        /\ worker' = [worker EXCEPT ![c] = [f \in Files |->
                        IF f \in files THEN Dropped(@[f]) ELSE @[f]]]
        /\ UNCHANGED pc \/ (Goto(c, "panic") /\ files = left)
  BY DEF WalkFails
<1>2. ASSUME NEW w \in WorkerStates
      PROVE  Dropped(w) = [at |-> "dropped", on |-> w.on] /\ Dropped(w) \in WorkerStates
  BY DEF WorkerStates, Finished
<1>3. UNCHANGED <<job, mount, spoolVars, lock, shared>> /\ pc[c] = "walk" /\ mount[c] \in Keys
  BY DEF WalkFails, inFrame
<1> HIDE DEF Dropped
<1>4. worker' \in [Clients -> [Files -> WorkerStates]]
  BY <1>1, <1>2
<1>5. ASSUME NEW d \in Clients, NEW f \in Files
      PROVE  /\ d = c /\ f \in files => worker'[d][f] = Dropped(worker[d][f])
             /\ d # c \/ f \notin files => worker'[d][f] = worker[d][f]
  BY <1>1
<1>6. ASSUME NEW f \in Files \cap Holds[job[c].key], files = left
      PROVE  worker'[c][f].at # "none"
  BY <1>2, <1>5, <1>6
<1> QED
  BY <1>1, <1>2, <1>3, <1>4, <1>5, <1>6

LEMMA StartIs ==
  ASSUME worker \in [Clients -> [Files -> WorkerStates]],
         NEW c \in Clients, NEW f \in Files, NEW w \in WorkerStates,
         worker' = [worker EXCEPT ![c][f] = w]
  PROVE  /\ worker' \in [Clients -> [Files -> WorkerStates]] /\ worker'[c][f] = w
         /\ \A d \in Clients, g \in Files :
              d # c \/ g # f => worker'[d][g] = worker[d][g]
<1>1. worker' = [worker EXCEPT ![c] = [worker[c] EXCEPT ![f] = w]]
  OBVIOUS
<1> QED
  BY <1>1

LEMMA LoopIsNotReading ==
  ASSUME Threads, NEW c \in Clients, Loop(c)
  PROVE  /\ pc[c] \notin Reading \cup {"removeLock"} \cup MovingOut \cup {"off", "dead"}
         /\ \A d \in Clients : d # c => pc'[d] = pc[d] /\ job'[d] = job[d]
<1> USE DEF Threads, Reading, MovingOut, Goto
<1>1. CASE HandleAdd(c) \/ HandleRemove(c)
  BY <1>1 DEF HandleAdd, HandleRemove, Handled, SendFails
<1>2. CASE Busy(c) \/ BusyRemove(c) \/ Admit(c)
  BY <1>2 DEF Busy, BusyRemove, RemoveFlag, Admit, SendFails
<1>3. CASE MountDevice(c) \/ Ready(c) \/ ReadyRemove(c)
  BY <1>3 DEF MountDevice, Ready, ReadyRemove, RemoveFlag
<1> QED
  BY <1>1, <1>2, <1>3 DEF Loop

LEMMA MoveIs ==
  ASSUME Threads, NEW c \in Clients, Move(c)
  PROVE  /\ pc[c] \in MovingOut /\ pc'[c] \notin Reading \cup {"removeLock"}
         /\ \A d \in Clients : d # c => pc'[d] = pc[d]
         /\ UNCHANGED <<worker, job, spoolVars, shared>>
<1>1. UNCHANGED <<worker, job, spoolVars, shared>>
  BY MoveKeeps DEF moveFrame
<1>2. /\ pc[c] \in MovingOut
      /\ \E step \in {"ready", "next", "copy", "remove", "dead"} : Goto(c, step)
  BY DEF Move, NextMove, CopyOut, RemoveOut, EndMove, MovingOut
<1> QED
  BY <1>1, <1>2 DEF Threads, Goto, Reading

LEMMA WorkersWorld == Threads /\ Workers /\ World => Workers'
<1> SUFFICES ASSUME Threads, Workers, World PROVE Workers'
  OBVIOUS
<1>1. UNCHANGED job
  BY WorldKeeps DEF worldFrame
<1>2. ASSUME NEW c \in Clients, Open(c) \/ Close(c) PROVE Workers'
  BY <1>1, <1>2 DEF Open, Close, Threads, Workers, Reading
<1>3. ASSUME NEW k \in Keys, NEW n \in Nodes, Insert(k, n) PROVE Workers'
  BY <1>1, <1>3 DEF Insert, Workers
<1>4. ASSUME NEW n \in Nodes, Pull(n) PROVE Workers'
  <2>1. UNCHANGED pc
    BY <1>4 DEF Pull
  <2> QED
    BY <1>1, <1>4, <2>1, PullIs DEF Workers, Finished
<1>5. ASSUME NEW n \in OutNames, OutCreate(n) \/ OutFinish(n) PROVE Workers'
  BY <1>1, <1>5 DEF OutCreate, OutFinish, Workers
<1> QED
  BY <1>2, <1>3, <1>4, <1>5 DEF World

(* A worker goes one step, and the others keep theirs. *)
LEMMA WorkersGoOn ==
  ASSUME Workers, NEW c \in Clients, NEW f \in Files,
         worker' \in [Clients -> [Files -> WorkerStates]],
         \A d \in Clients, g \in Files :
           d # c \/ g # f => worker'[d][g].at = worker[d][g].at,
         worker[c][f].at \notin Finished, UNCHANGED <<pc, job>>
  PROVE  Workers'
<1>1. pc[c] \in Reading /\ pc[c] # "unlock" /\ f \in Holds[job[c].key]
  BY DEF Workers, Finished
<1> QED
  BY <1>1 DEF Workers

LEMMA WorkersWalk ==
  ASSUME Threads, Workers, NEW c \in Clients, NEW f \in Files, Walk(c, f)
  PROVE  Workers'
<1>1. UNCHANGED job /\ pc[c] = "walk" /\ f \in Holds[job[c].key]
  BY DEF Walk, inFrame
<1>2. ASSUME NEW step \in {"walked", "lost"}, At(c, f, step), UNCHANGED pc
      PROVE  Workers'
  <2>1. step \in WorkerSteps
    BY DEF WorkerSteps, Finished
  <2> QED
    BY <1>1, <1>2, <2>1, AtIs DEF Workers, Reading
<1>3. CASE Goto(c, "panic") /\ UNCHANGED worker
  BY <1>1, <1>3 DEF Threads, Workers, Goto, Reading
<1> QED
  BY <1>2, <1>3 DEF Walk

LEMMA WorkersStep ==
  ASSUME Workers, NEW c \in Clients, NEW f \in Files,
         \/ StartCopy(c, f) \/ EndCopy(c, f) \/ FailCopy(c, f)
         \/ Rename(c, f) \/ Report(c, f) \/ Swallow(c, f) \/ EarlyUnmount(c, f)
  PROVE  Workers'
<1>1. UNCHANGED <<pc, job>>
  BY DEF StartCopy, EndCopy, FailCopy, Rename, Report, Swallow, EarlyUnmount, inFrame
<1>2. worker[c][f].at \notin Finished
  BY DEF StartCopy, EndCopy, FailCopy, Rename, Report, Swallow, EarlyUnmount, Finished
<1>3. \/ \E step \in {"lost", "renaming", "failing", "unmounting", "failed", "dropped"} :
           At(c, f, step)
      \/ \E step \in {"broken", "copying"} :
           worker' = [worker EXCEPT ![c][f] = [at |-> step, on |-> "tmp"]]
      \/ Rename(c, f) /\ tmp[NameOf[f]] # Absent
  BY DEF StartCopy, EndCopy, FailCopy, Rename, Report, Swallow, EarlyUnmount
<1>4. ASSUME NEW step \in {"lost", "renaming", "failing", "unmounting", "failed", "dropped"},
             At(c, f, step)
      PROVE  Workers'
  <2>1. step \in WorkerSteps
    BY DEF WorkerSteps, Finished
  <2> QED
    BY <1>1, <1>2, <1>4, <2>1, AtIs, WorkersGoOn DEF Workers
<1>5. ASSUME NEW step \in {"broken", "copying"},
             worker' = [worker EXCEPT ![c][f] = [at |-> step, on |-> "tmp"]]
      PROVE  Workers'
  <2>1. PICK w \in WorkerStates : w = [at |-> step, on |-> "tmp"]
    BY DEF WorkerStates
  <2>2. worker' = [worker EXCEPT ![c][f] = w]
    BY <1>5, <2>1
  <2>3. /\ worker' \in [Clients -> [Files -> WorkerStates]]
        /\ \A d \in Clients, g \in Files :
             d # c \/ g # f => worker'[d][g] = worker[d][g]
    BY <2>2, StartIs DEF Workers
  <2> QED
    BY <1>1, <1>2, <2>3, WorkersGoOn
<1>6. CASE Rename(c, f) /\ tmp[NameOf[f]] # Absent
  <2>1. \A d \in Clients, g \in Files :
          d # c \/ g # f => worker'[d][g].at = worker[d][g].at
    <3> SUFFICES ASSUME NEW d \in Clients, NEW g \in Files, d # c \/ g # f
                 PROVE  worker'[d][g].at = worker[d][g].at
      OBVIOUS
    <3>1. worker'[d][g] = Followed(worker[d][g], g, NameOf[f])
      BY <1>6, RenameIs DEF Workers
    <3> QED
      BY <3>1 DEF Followed
  <2> QED
    BY <1>1, <1>2, <1>6, <2>1, RenameIs, WorkersGoOn DEF Workers
<1> QED
  BY <1>3, <1>4, <1>5, <1>6

LEMMA WorkersEnding ==
  ASSUME Threads, Workers, NEW c \in Clients, Ending(c) PROVE Workers'
<1>1. UNCHANGED job
  BY ReadingKeeps DEF inFrame
<1>2. CASE Join(c)
  <2>1. CASE pc[c] = "walk" /\ Goto(c, "unlock") /\ UNCHANGED worker
    BY <1>1, <1>2, <2>1 DEF Join, Joined, Threads, Workers, Goto, Reading
  <2>2. CASE /\ Goto(c, "dead")
             /\ worker' = [worker EXCEPT ![c] = [f \in Files |-> NotStarted]]
    BY <1>1, <2>2 DEF Threads, Workers, Goto, Reading, NotStarted, WorkerStates, Finished
  <2> QED
    BY <1>2, <2>1, <2>2 DEF Join
<1>3. CASE Unlock(c)
  <2>1. /\ worker' = [worker EXCEPT ![c] = [f \in Files |-> NotStarted]]
        /\ \E step \in {"removeLock", "ready"} : Goto(c, step)
    BY <1>3 DEF Unlock
  <2> QED
    BY <1>1, <2>1 DEF Threads, Workers, Goto, Reading, NotStarted, WorkerStates, Finished
<1>4. CASE RemoveLock(c)
  BY <1>1, <1>4 DEF RemoveLock, Threads, Workers, Goto, Reading
<1> QED
  BY <1>2, <1>3, <1>4 DEF Ending

LEMMA WorkersStay == Threads /\ Workers /\ [Next]_vars => Workers'
<1> SUFFICES ASSUME Threads, Workers, [Next]_vars PROVE Workers'
  OBVIOUS
<1>1. CASE UNCHANGED vars
  BY <1>1 DEF vars, Workers
<1>2. ASSUME NEW c \in Clients, Loop(c) PROVE Workers'
  <2>1. UNCHANGED worker
    BY <1>2, LoopKeeps DEF loopFrame
  <2> QED
    BY <1>2, <2>1, LoopIsNotReading DEF Workers
<1>3. ASSUME NEW c \in Clients, Worker(c) PROVE Workers'
  <2>1. CASE WalkFails(c)
    <3>1. /\ worker' \in [Clients -> [Files -> WorkerStates]] /\ UNCHANGED job
          /\ pc[c] = "walk" /\ (UNCHANGED pc \/ Goto(c, "panic"))
      BY <2>1, WalkFailsIs DEF Workers
    <3>2. /\ \A d \in Clients : pc'[d] = pc[d] \/ (d = c /\ pc'[d] = "panic")
          /\ pc'[c] \in {"walk", "panic"}
      BY <3>1 DEF Goto, Threads
    <3>3. ASSUME NEW d \in Clients, NEW f \in Files
          PROVE  \/ worker'[d][f] = worker[d][f]
                 \/ d = c /\ f \in Holds[job[c].key] /\ worker'[d][f].at \in Finished
      <4>1. \/ worker'[d][f] = worker[d][f]
            \/ /\ d = c /\ f \in Holds[job[c].key]
               /\ worker'[d][f] = [at |-> "dropped", on |-> worker[d][f].on]
        BY <2>1, WalkFailsIs DEF Workers
      <4> QED
        BY <4>1 DEF Finished
    <3> QED
      BY <3>1, <3>2, <3>3 DEF Workers, Reading
  <2> QED
    BY <1>3, <2>1, WorkersWalk, WorkersStep DEF Worker
<1>4. ASSUME NEW c \in Clients, Move(c) PROVE Workers'
  BY <1>4, MoveIs DEF Workers, Reading, MovingOut
<1> QED
  BY <1>1, <1>2, <1>3, <1>4, WorkersWorld, WorkersEnding, NextIs

LEMMA ListsStay == Threads /\ Lists /\ [Next]_vars => Lists'
<1> SUFFICES ASSUME Threads, Lists, [Next]_vars PROVE Lists'
  OBVIOUS
<1>1. CASE UNCHANGED listVars
  BY <1>1 DEF Lists, listVars
<1>2. ASSUME NEW c \in Clients, Loop(c) PROVE Lists'
  <2>1. CASE HandleAdd(c) \/ MountDevice(c) \/ Busy(c) \/ BusyRemove(c)
    BY <1>1, <2>1 DEF HandleAdd, MountDevice, Busy, BusyRemove
  <2>2. CASE Ready(c) \/ ReadyRemove(c)
    BY <1>1, <2>2 DEF Ready, ReadyRemove
  <2>3. CASE HandleRemove(c)
    BY <2>3 DEF HandleRemove, Lists
  <2>4. CASE Admit(c)
    <3>1. Product[job[c].key] \in {Product[k] : k \in Keys}
      BY <2>4 DEF Admit, Threads, Resting
    <3>2. /\ keys_in' \in {keys_in, [keys_in EXCEPT ![c] = @ \cup {Product[job[c].key]}]}
          /\ keys_out' \in {keys_out, [keys_out EXCEPT ![c] = @ \cup {Product[job[c].key]}]}
      BY <2>4 DEF Admit
    <3> QED
      BY <3>1, <3>2 DEF Lists
  <2> QED
    BY <1>2, <2>1, <2>2, <2>3, <2>4 DEF Loop
<1>3. UNCHANGED vars => UNCHANGED listVars
  BY DEF vars, listVars
<1>4. World => UNCHANGED listVars
  BY WorldKeeps DEF worldFrame
<1>5. ASSUME NEW c \in Clients, Worker(c) \/ Ending(c) PROVE UNCHANGED listVars
  BY <1>5, ReadingKeeps DEF inFrame
<1>6. ASSUME NEW c \in Clients, Move(c) PROVE UNCHANGED listVars
  BY <1>6, MoveKeeps DEF moveFrame
<1> QED
  BY <1>1, <1>2, <1>3, <1>4, <1>5, <1>6, NextIs

(* What the steps of a worker write. *)
WritesTogether(c, f) ==
  \E w \in Clients \X Files :
    /\ w # <<c, f>> /\ NameOf[w[2]] = NameOf[f]
    /\ worker[w[1]][w[2]].at \in {"copying", "broken"}
    /\ worker[w[1]][w[2]].on = worker[c][f].on

LEMMA EndIs ==
  ASSUME Workers, Spools, NEW c \in Clients, NEW f \in Files, EndCopy(c, f)
  PROVE  /\ worker[c][f].at = "copying" /\ At(c, f, "renaming")
         /\ UNCHANGED <<reports, shared>>
         /\ worker[c][f].on # "tmp" => tmp' = tmp
         /\ worker[c][f].on # "in" => sas_in' = sas_in
         /\ worker[c][f].on = "tmp" => \E b \in BOOLEAN :
              /\ ~WritesTogether(c, f) /\ tmp[NameOf[f]].by = {f} => b
              /\ tmp' = [tmp EXCEPT ![NameOf[f]] =
                           [by |-> tmp[NameOf[f]].by, whole |-> b]]
         /\ worker[c][f].on = "in" => \E b \in BOOLEAN :
              sas_in' = [sas_in EXCEPT ![NameOf[f]] =
                           [by |-> sas_in[NameOf[f]].by, whole |-> b]]
<1> DEFINE n == NameOf[f]
           Well(content) == ~WritesTogether(c, f) /\ content.by = {f}
           Written(content) == [content EXCEPT !.whole = Well(content)]
<1>1. n \in Names
  BY IoAssumption
<1>2. /\ worker[c][f].at = "copying" /\ At(c, f, "renaming")
      /\ tmp' = IF worker[c][f].on = "tmp"
                THEN [tmp EXCEPT ![n] = Written(@)] ELSE tmp
      /\ sas_in' = IF worker[c][f].on = "in"
                   THEN [sas_in EXCEPT ![n] = Written(@)] ELSE sas_in
      /\ UNCHANGED <<reports, shared>>
  BY Zenon DEF EndCopy, WritesTogether
<1>3. ASSUME NEW content \in Content
      PROVE  \E b \in BOOLEAN : /\ Well(content) => b
                                /\ Written(content) = [by |-> content.by, whole |-> b]
  <2>1. Well(content) \in BOOLEAN
    OBVIOUS
  <2> HIDE DEF Well
  <2>2. PICK b \in BOOLEAN : b = Well(content)
    BY <2>1, Zenon
  <2>3. Written(content) = [content EXCEPT !.whole = b]
    BY <2>2, Zenon
  <2>4. [content EXCEPT !.whole = b] = [by |-> content.by, whole |-> b]
    BY DEF Content
  <2>5. Written(content) = [by |-> content.by, whole |-> b]
    BY <2>3, <2>4, Zenon
  <2>6. Well(content) => b
    BY <2>2, Zenon
  <2> QED
    BY <2>5, <2>6, Zenon
<1>4. worker[c][f].on = "tmp" => tmp[n] \in Content
  BY <1>1, <1>2 DEF Spools, Holding
<1>5. worker[c][f].on = "in" => sas_in[n] \in Content
  BY <1>1, <1>2 DEF Spools, Holding
<1> HIDE DEF Written
<1>6. CASE worker[c][f].on = "tmp"
  <2>1. PICK b \in BOOLEAN : /\ Well(tmp[n]) => b
                             /\ Written(tmp[n]) = [by |-> tmp[n].by, whole |-> b]
    BY <1>3, <1>4, <1>6
  <2> QED
    BY <1>2, <1>6, <2>1
<1>7. CASE worker[c][f].on = "in"
  <2>1. PICK b \in BOOLEAN : Written(sas_in[n]) = [by |-> sas_in[n].by, whole |-> b]
    BY <1>3, <1>5, <1>7
  <2> QED
    BY <1>2, <1>7, <2>1
<1> QED
  BY <1>2, <1>6, <1>7

Started(step) == [at |-> step, on |-> "tmp"]
OthersOn(n) == {w[2] : w \in OnTmp(n)}

LEMMA StartCopyIs ==
  ASSUME NEW c \in Clients, NEW f \in Files, StartCopy(c, f)
  PROVE  /\ worker[c][f].at = "walked" /\ UNCHANGED <<pc, job, mount, sas_in, reports>>
         /\ \/ mount[c] \notin Keys /\ At(c, f, "lost") /\ UNCHANGED <<tmp, shared>>
            \/ /\ \E step \in {"broken", "copying"} :
                    worker' = [worker EXCEPT ![c][f] = Started(step)]
               /\ tmp' = [tmp EXCEPT ![NameOf[f]] =
                            [by |-> {f} \cup OthersOn(NameOf[f]), whole |-> FALSE]]
               /\ shared \subseteq shared'
               /\ OnTmp(NameOf[f]) = {} => shared' = shared
               /\ OnTmp(NameOf[f]) # {} => shared' = shared \cup {NameOf[f]}
<1>1. worker[c][f].at = "walked" /\ UNCHANGED <<pc, job, mount, sas_in, reports>>
  BY DEF StartCopy, inFrame
<1>2. CASE /\ worker' = [worker EXCEPT ![c][f] =
                [at |-> IF mount[c] = Gone THEN "broken" ELSE "copying",
                 on |-> "tmp"]]
           /\ tmp' = [tmp EXCEPT ![NameOf[f]] =
                [by |-> {f} \cup OthersOn(NameOf[f]), whole |-> FALSE]]
           /\ shared' = IF OnTmp(NameOf[f]) = {} THEN shared
                        ELSE shared \cup {NameOf[f]}
  BY <1>1, <1>2 DEF Started
<1>3. CASE mount[c] \notin Keys /\ At(c, f, "lost") /\ UNCHANGED <<tmp, shared>>
  BY <1>1, <1>3
<1> QED
  BY <1>2, <1>3 DEF StartCopy, OthersOn

(* The steps of a worker after which it has nothing open. *)
LEMMA SpoolsSettle ==
  ASSUME Workers, Spools, NEW c \in Clients, NEW f \in Files,
         NEW step \in WorkerSteps \ Holding, At(c, f, step),
         UNCHANGED <<tmp, sas_in, shared>>,
         reports' \in {reports, reports \cup {NameOf[f]}}
  PROVE  Spools'
<1>1. /\ worker'[c][f].at = step
      /\ \A d \in Clients, g \in Files :
           d # c \/ g # f => worker'[d][g] = worker[d][g]
  BY AtIs DEF Workers
<1>2. NameOf[f] \in Names
  BY IoAssumption
<1> QED
  BY <1>1, <1>2 DEF Spools

LEMMA WorkerActions ==
  ASSUME NEW c \in Clients, NEW f \in Files,
         \/ Walk(c, f) \/ FailCopy(c, f) \/ Report(c, f) \/ Swallow(c, f)
         \/ EarlyUnmount(c, f)
  PROVE  /\ UNCHANGED <<tmp, sas_in, shared>>
         /\ reports' \in {reports, reports \cup {NameOf[f]}}
         /\ \/ UNCHANGED worker
            \/ \E step \in {"walked", "lost", "failing", "unmounting", "failed", "dropped"} :
                 At(c, f, step)
BY DEF Walk, FailCopy, Report, Swallow, EarlyUnmount, spoolVars

LEMMA SpoolsStart ==
  ASSUME Workers, Spools, NEW c \in Clients, NEW f \in Files, StartCopy(c, f)
  PROVE  Spools'
<1>1. CASE At(c, f, "lost") /\ UNCHANGED <<tmp, shared, sas_in, reports>>
  <2>1. "lost" \in WorkerSteps \ Holding
    BY DEF WorkerSteps, Finished, Holding
  <2> QED
    BY <1>1, <2>1, SpoolsSettle
<1>2. ASSUME NEW step \in {"broken", "copying"},
             worker' = [worker EXCEPT ![c][f] = Started(step)],
             tmp' = [tmp EXCEPT ![NameOf[f]] =
                       [by |-> {f} \cup OthersOn(NameOf[f]), whole |-> FALSE]],
             shared' \in {shared, shared \cup {NameOf[f]}},
             UNCHANGED <<sas_in, reports>>
      PROVE  Spools'
  <2>1. Started(step) \in WorkerStates
    BY DEF Started, WorkerStates
  <2>2. /\ worker'[c][f] = Started(step)
        /\ \A d \in Clients, g \in Files :
             d # c \/ g # f => worker'[d][g] = worker[d][g]
    BY <1>2, <2>1, StartIs DEF Workers
  <2>3. NameOf[f] \in Names
    BY IoAssumption
  <2>4. PICK content \in Content :
          content = [by |-> {f} \cup OthersOn(NameOf[f]), whole |-> FALSE]
    BY DEF Content, OnTmp, OthersOn
  <2>5. /\ tmp' \in [Names -> Content \cup {Absent}] /\ tmp'[NameOf[f]] # Absent
        /\ \A n \in Names : tmp[n] # Absent => tmp'[n] # Absent
    BY <1>2, <2>3, <2>4, AbsentAssumption DEF Spools
  <2>6. shared' \subseteq Names
    BY <1>2, <2>3 DEF Spools
  <2>7. worker'[c][f].on = "tmp" /\ \A g \in Files : NameOf[g] \in Names
    BY <2>2, IoAssumption DEF Started
  <2> QED
    BY <1>2, <2>2, <2>5, <2>6, <2>7 DEF Spools
<1> QED
  BY <1>1, <1>2, StartCopyIs

LEMMA SpoolsEnd ==
  ASSUME Workers, Spools, NEW c \in Clients, NEW f \in Files, EndCopy(c, f)
  PROVE  Spools'
<1>1. "renaming" \in WorkerSteps
  BY DEF WorkerSteps
<1>2. /\ worker[c][f].at = "copying"
      /\ worker'[c][f].at = "renaming" /\ worker'[c][f].on = worker[c][f].on
      /\ \A d \in Clients, g \in Files :
           d # c \/ g # f => worker'[d][g] = worker[d][g]
  BY <1>1, EndIs, AtIs DEF Workers
<1>3. NameOf[f] \in Names
  BY IoAssumption
<1>4. ASSUME NEW b \in BOOLEAN, NEW content \in Content
      PROVE  /\ [by |-> content.by, whole |-> b] \in Content
             /\ [by |-> content.by, whole |-> b] # Absent
  BY AbsentAssumption DEF Content
<1>5. /\ tmp' \in [Names -> Content \cup {Absent}]
      /\ \A n \in Names : tmp[n] # Absent => tmp'[n] # Absent
  <2>1. CASE worker[c][f].on = "tmp"
    <3>1. tmp[NameOf[f]] \in Content
      BY <1>2, <1>3, <2>1 DEF Spools, Holding
    <3>2. PICK b \in BOOLEAN :
            /\ ~WritesTogether(c, f) /\ tmp[NameOf[f]].by = {f} => b
            /\ tmp' = [tmp EXCEPT ![NameOf[f]] = [by |-> tmp[NameOf[f]].by, whole |-> b]]
      BY <2>1, EndIs, Zenon
    <3>3. PICK content \in Content : /\ content = [by |-> tmp[NameOf[f]].by, whole |-> b]
                                     /\ content # Absent
      BY <1>4, <3>1
    <3> QED
      BY <3>2, <3>3 DEF Spools
  <2> QED
    BY <2>1, EndIs DEF Spools
<1>6. /\ sas_in' \in [Names -> Content \cup {Absent}]
      /\ \A n \in Names : sas_in[n] # Absent => sas_in'[n] # Absent
  <2>1. CASE worker[c][f].on = "in"
    <3>1. sas_in[NameOf[f]] \in Content
      BY <1>2, <1>3, <2>1 DEF Spools, Holding
    <3>2. PICK b \in BOOLEAN :
            sas_in' = [sas_in EXCEPT ![NameOf[f]] =
                         [by |-> sas_in[NameOf[f]].by, whole |-> b]]
      BY <2>1, EndIs
    <3>3. PICK content \in Content :
            /\ content = [by |-> sas_in[NameOf[f]].by, whole |-> b]
            /\ content # Absent
      BY <1>4, <3>1
    <3> QED
      BY <3>2, <3>3 DEF Spools
  <2> QED
    BY <2>1, EndIs DEF Spools
<1>7. UNCHANGED <<reports, shared>>
  BY EndIs
<1>8. \A d \in Clients, g \in Files : worker'[d][g].at \in Holding =>
        worker[d][g].at \in Holding /\ worker'[d][g].on = worker[d][g].on
  BY <1>2 DEF Holding
<1>9. \A g \in Files : NameOf[g] \in Names
  BY IoAssumption
<1> QED
  BY <1>5, <1>6, <1>7, <1>8, <1>9 DEF Spools

LEMMA SpoolsRename ==
  ASSUME Workers, Spools, NEW c \in Clients, NEW f \in Files, Rename(c, f)
  PROVE  Spools'
<1>1. NameOf[f] \in Names /\ \A g \in Files : NameOf[g] \in Names
  BY IoAssumption
<1>2. UNCHANGED <<reports, shared>>
  BY DEF Rename
<1>3. CASE tmp[NameOf[f]] = Absent
  <2>1. "lost" \in WorkerSteps \ Holding
    BY DEF WorkerSteps, Finished, Holding
  <2>2. At(c, f, "lost") /\ UNCHANGED <<tmp, sas_in>>
    BY <1>3 DEF Rename
  <2> QED
    BY <1>2, <2>1, <2>2, SpoolsSettle
<1>4. CASE tmp[NameOf[f]] # Absent
  <2>1. /\ sas_in' = [sas_in EXCEPT ![NameOf[f]] = tmp[NameOf[f]]]
        /\ tmp' = [tmp EXCEPT ![NameOf[f]] = Absent]
    BY <1>4 DEF Rename
  <2>2. /\ worker'[c][f] = [at |-> "moved", on |-> "gone"]
        /\ \A d \in Clients, g \in Files : d # c \/ g # f =>
             worker'[d][g] = Followed(worker[d][g], g, NameOf[f])
    BY <1>4, RenameIs DEF Workers
  <2>3. ASSUME NEW d \in Clients, NEW g \in Files, worker'[d][g].at \in Holding
        PROVE  /\ worker'[d][g].on = "tmp" => tmp'[NameOf[g]] # Absent
               /\ worker'[d][g].on = "in" => sas_in'[NameOf[g]] # Absent
    <3>1. d # c \/ g # f
      BY <2>2, <2>3 DEF Holding
    <3>2. worker'[d][g] = Followed(worker[d][g], g, NameOf[f])
      BY <2>2, <3>1
    <3>3. CASE NameOf[g] = NameOf[f]
      <4>1. worker'[d][g].on # "tmp"
        BY <2>3, <3>2, <3>3 DEF Followed
      <4>2. sas_in'[NameOf[g]] = tmp[NameOf[f]]
        BY <1>1, <2>1, <3>3 DEF Spools
      <4> QED
        BY <1>4, <4>1, <4>2
    <3>4. CASE NameOf[g] # NameOf[f]
      <4>1. worker'[d][g] = worker[d][g]
        BY <3>2, <3>4 DEF Followed
      <4>2. sas_in'[NameOf[g]] = sas_in[NameOf[g]] /\ tmp'[NameOf[g]] = tmp[NameOf[g]]
        BY <1>1, <2>1, <3>4 DEF Spools
      <4> QED
        BY <2>3, <4>1, <4>2 DEF Spools
    <3> QED
      BY <3>3, <3>4
  <2>4. /\ sas_in' \in [Names -> Content \cup {Absent}]
        /\ tmp' \in [Names -> Content \cup {Absent}]
    BY <1>1, <2>1 DEF Spools
  <2> QED
    BY <1>2, <2>3, <2>4 DEF Spools
<1> QED
  BY <1>3, <1>4

LEMMA SpoolsStay == Threads /\ Workers /\ Spools /\ [Next]_vars => Spools'
<1> SUFFICES ASSUME Threads, Workers, Spools, [Next]_vars PROVE Spools'
  OBVIOUS
<1>1. CASE UNCHANGED vars
  BY <1>1 DEF vars, spoolVars, Spools
<1>2. CASE World
  <2>1. UNCHANGED <<spoolVars, shared>>
    BY <1>2, WorldKeeps DEF worldFrame
  <2>2. ASSUME NEW n \in Nodes, Pull(n) PROVE Spools'
    <3>1. ASSUME NEW c \in Clients, NEW f \in Files
          PROVE  /\ worker'[c][f].at \in Holding => worker[c][f].at \in Holding
                 /\ worker'[c][f].on = worker[c][f].on
      <4>1. \/ worker'[c][f] = worker[c][f]
            \/ /\ worker[c][f].at = "copying"
               /\ worker'[c][f] = [at |-> "broken", on |-> worker[c][f].on]
        BY <2>2, PullIs DEF Workers
      <4> QED
        BY <4>1 DEF Holding
    <3> QED
      BY <2>1, <3>1 DEF Spools, spoolVars
  <2>3. UNCHANGED worker \/ \E n \in Nodes : Pull(n)
    BY <1>2 DEF World, Open, Close, Insert, OutCreate, OutFinish
  <2> QED
    BY <2>1, <2>2, <2>3 DEF Spools, spoolVars
<1>3. ASSUME NEW c \in Clients, Loop(c) PROVE Spools'
  BY <1>3, LoopKeeps DEF loopFrame, spoolVars, Spools
<1>4. ASSUME NEW c \in Clients, Worker(c) PROVE Spools'
  <2>1. CASE WalkFails(c)
    <3>1. UNCHANGED <<spoolVars, shared>>
      BY <2>1, WalkFailsIs DEF Workers
    <3>2. ASSUME NEW d \in Clients, NEW g \in Files
          PROVE  worker'[d][g].at \in Holding => worker'[d][g] = worker[d][g]
      <4>1. \/ worker'[d][g] = worker[d][g]
            \/ worker'[d][g] = [at |-> "dropped", on |-> worker[d][g].on]
        BY <2>1, WalkFailsIs DEF Workers
      <4> QED
        BY <4>1 DEF Holding
    <3> QED
      BY <3>1, <3>2 DEF Spools, spoolVars
  <2>2. ASSUME NEW f \in Files,
               \/ Walk(c, f) \/ FailCopy(c, f) \/ Report(c, f) \/ Swallow(c, f)
               \/ EarlyUnmount(c, f)
        PROVE  Spools'
    <3>1. {"walked", "lost", "failing", "unmounting", "failed", "dropped"}
            \subseteq WorkerSteps \ Holding
      BY DEF WorkerSteps, Finished, Holding
    <3>2. UNCHANGED worker => Spools'
      BY <2>2, WorkerActions, IoAssumption DEF Spools
    <3> QED
      BY <2>2, <3>1, <3>2, WorkerActions, SpoolsSettle
  <2> QED
    BY <1>4, <2>1, <2>2, SpoolsStart, SpoolsEnd, SpoolsRename DEF Worker
<1>5. ASSUME NEW c \in Clients, Ending(c) PROVE Spools'
  <2>1. UNCHANGED <<spoolVars, shared>>
    BY <1>5 DEF Ending, Join, Unlock, RemoveLock
  <2>2. worker' \in {worker, [worker EXCEPT ![c] = [f \in Files |-> NotStarted]]}
    BY <1>5 DEF Ending, Join, Unlock, RemoveLock
  <2> QED
    BY <2>1, <2>2 DEF Spools, spoolVars, Workers, NotStarted, Holding
<1>6. ASSUME NEW c \in Clients, Move(c) PROVE Spools'
  BY <1>6, MoveIs DEF Spools, spoolVars
<1> QED
  BY <1>1, <1>2, <1>3, <1>4, <1>5, <1>6, NextIs

LEMMA ReadingIs ==
  ASSUME Threads, Workers, NEW c \in Clients, Worker(c) \/ Ending(c)
  PROVE  /\ pc[c] \in Reading \cup {"removeLock"}
         /\ pc'[c] \in Reading \cup {"removeLock", "ready", "dead"}
         /\ \A d \in Clients : d # c => pc'[d] = pc[d]
         /\ UNCHANGED job
<1>1. UNCHANGED job
  BY ReadingKeeps DEF inFrame
<1>2. CASE Ending(c)
  BY <1>1, <1>2 DEF Ending, Join, Unlock, RemoveLock, Threads, Goto, Reading
<1>3. ASSUME NEW f \in Files, Walk(c, f)
      PROVE  pc[c] = "walk" /\ (UNCHANGED pc \/ Goto(c, "panic"))
  BY <1>3 DEF Walk
<1>4. ASSUME NEW f \in Files,
             \/ StartCopy(c, f) \/ EndCopy(c, f) \/ FailCopy(c, f)
             \/ Rename(c, f) \/ Report(c, f) \/ Swallow(c, f) \/ EarlyUnmount(c, f)
      PROVE  pc[c] \in Reading /\ UNCHANGED pc
  <2>1. worker[c][f].at # "none" /\ UNCHANGED pc
    BY <1>4 DEF StartCopy, EndCopy, FailCopy, Rename, Report, Swallow, EarlyUnmount
  <2> QED
    BY <2>1 DEF Workers
<1>6. WalkFails(c) => pc[c] = "walk" /\ (UNCHANGED pc \/ Goto(c, "panic"))
  BY DEF WalkFails
<1>5. CASE Worker(c)
  BY <1>1, <1>3, <1>4, <1>5, <1>6 DEF Worker, Threads, Goto, Reading
<1> QED
  BY <1>2, <1>5

LEMMA OutsMove ==
  ASSUME Threads, Outs, Records, NEW c \in Clients, Move(c)
  PROVE  Outs'
<1>1. UNCHANGED made
  BY MoveKeeps DEF moveFrame
<1>2. ASSUME NEW k \in Keys, NEW n \in OutNames, NEW whole \in BOOLEAN,
             onKey' = [onKey EXCEPT ![k][OutNameOf[n]] = [of |-> n, whole |-> whole]]
      PROVE  onKey' \in [Keys -> [Names -> Copies \cup {Absent}]]
  <2>1. PICK copy \in Copies : copy = [of |-> n, whole |-> whole]
    BY DEF Copies
  <2>2. OutNameOf[n] \in Names
    BY IoAssumption
  <2> QED
    BY <1>2, <2>1, <2>2 DEF Outs
<1>3. ASSUME EndMove(c)
      PROVE  /\ Goto(c, "dead")
             /\ onKey' \in [Keys -> [Names -> Copies \cup {Absent}]]
  BY <1>3 DEF EndMove, Outs
<1>4. CASE NextMove(c)
  <2>1. UNCHANGED <<sas_out, spoiled, sent>> /\ pc[c] = "next"
    BY <1>4 DEF NextMove
  <2>2. moving[c] = NoName
    BY <2>1 DEF Outs
  <2>3. CASE Goto(c, "ready") /\ UNCHANGED <<todoVars, onKey>>
    BY <1>1, <2>1, <2>2, <2>3 DEF Outs, Threads, Goto, todoVars
  <2>4. ASSUME NEW n \in todo[c], todo' = [todo EXCEPT ![c] = @ \ {n}],
               \/ /\ moving' = [moving EXCEPT ![c] = n]
                  /\ Goto(c, "copy") /\ UNCHANGED onKey
               \/ EndMove(c) /\ UNCHANGED moving
        PROVE  Outs'
    <3>1. n \in OutNames /\ n # NoName
      BY <2>4, IoAssumption DEF Outs
    <3>2. todo' \in [Clients -> SUBSET OutNames]
      BY <2>4 DEF Outs
    <3>3. CASE /\ moving' = [moving EXCEPT ![c] = n]
               /\ Goto(c, "copy") /\ UNCHANGED onKey
      <4>1. /\ moving' \in [Clients -> OutNames \cup {NoName}] /\ moving'[c] = n
            /\ \A d \in Clients : d # c => moving'[d] = moving[d]
        BY <3>1, <3>3 DEF Outs
      <4>2. pc'[c] = "copy" /\ \A d \in Clients : d # c => pc'[d] = pc[d]
        BY <3>3 DEF Threads, Goto
      <4> QED
        BY <1>1, <2>1, <3>1, <3>2, <3>3, <4>1, <4>2 DEF Outs
    <3>4. CASE EndMove(c) /\ UNCHANGED moving
      <4>1. pc'[c] = "dead" /\ \A d \in Clients : d # c => pc'[d] = pc[d]
        BY <1>3, <3>4 DEF Threads, Goto
      <4>2. onKey' \in [Keys -> [Names -> Copies \cup {Absent}]]
        BY <1>3, <3>4
      <4>3. ASSUME NEW d \in Clients
            PROVE  (moving'[d] # NoName) = (pc'[d] \in {"copy", "remove"})
        <5>1. (moving[d] # NoName) = (pc[d] \in {"copy", "remove"})
          BY DEF Outs
        <5> QED
          BY <2>2, <3>4, <4>1, <5>1
      <4> QED
        BY <1>1, <2>1, <3>2, <3>4, <4>2, <4>3 DEF Outs
    <3> QED
      BY <2>4, <3>3, <3>4
  <2> QED
    BY <1>4, <2>3, <2>4 DEF NextMove
<1>5. CASE CopyOut(c)
  <2>1. UNCHANGED <<todoVars, sas_out, sent>> /\ pc[c] = "copy" /\ Goto(c, "remove")
    BY <1>5 DEF CopyOut
  <2>2. moving[c] \in OutNames /\ sas_out[moving[c]] \in {"absent", "writing", "whole"}
    BY <2>1 DEF Outs
  <2>3. /\ UNCHANGED spoiled \/ spoiled' = spoiled \cup {moving[c]}
        /\ \/ UNCHANGED onKey
           \/ /\ mount[c] \in Keys
              /\ \E whole \in BOOLEAN :
                   onKey' = [onKey EXCEPT ![mount[c]][OutNameOf[moving[c]]] =
                               [of |-> moving[c], whole |-> whole]]
    BY <1>5 DEF CopyOut
  <2>4. onKey' \in [Keys -> [Names -> Copies \cup {Absent}]]
    BY <1>2, <2>2, <2>3 DEF Outs
  <2> QED
    BY <1>1, <2>1, <2>2, <2>3, <2>4 DEF Outs, Threads, Goto, todoVars
<1>6. CASE RemoveOut(c)
  <2>1. /\ pc[c] = "remove" /\ UNCHANGED <<todo, spoiled>>
        /\ moving' = [moving EXCEPT ![c] = NoName]
        /\ \/ /\ sas_out' = [sas_out EXCEPT ![moving[c]] = "absent"]
              /\ sent' = sent \cup {<<moving[c], job[c].key>>}
              /\ Goto(c, "next") /\ UNCHANGED onKey
           \/ EndMove(c) /\ UNCHANGED <<sas_out, sent>>
    BY <1>6 DEF RemoveOut
  <2>2. moving[c] \in OutNames /\ job[c].key \in Keys
    BY <2>1 DEF Outs, Threads, Resting
  <2> QED
    BY <1>1, <1>3, <2>1, <2>2 DEF Outs, Threads, Goto
<1> QED
  BY <1>4, <1>5, <1>6 DEF Move

LEMMA OutsWorld == Threads /\ Outs /\ World => Outs'
<1> SUFFICES ASSUME Threads, Outs, World PROVE Outs'
  OBVIOUS
<1>1. UNCHANGED <<todoVars, onKey, spoiled, sent>>
  BY WorldKeeps DEF worldFrame
<1>2. ASSUME NEW c \in Clients, Open(c) \/ Close(c) PROVE Outs'
  BY <1>1, <1>2 DEF Open, Close, Threads, Outs, outVars, todoVars
<1>3. ASSUME NEW k \in Keys, NEW n \in Nodes, Insert(k, n) PROVE Outs'
  BY <1>1, <1>3 DEF Insert, Outs, outVars, todoVars
<1>5. ASSUME NEW n \in Nodes, Pull(n) PROVE Outs'
  BY <1>1, <1>5 DEF Pull, Outs, outVars, todoVars
<1>4. ASSUME NEW n \in OutNames, OutCreate(n) \/ OutFinish(n) PROVE Outs'
  BY <1>1, <1>4 DEF OutCreate, OutFinish, Outs, todoVars
<1> QED
  BY <1>2, <1>3, <1>4, <1>5 DEF World

LEMMA OutsStay ==
  Threads /\ Workers /\ Outs /\ Records /\ [Next]_vars => Outs'
<1> SUFFICES ASSUME Threads, Workers, Outs, Records, [Next]_vars PROVE Outs'
  OBVIOUS
<1>1. CASE UNCHANGED vars
  BY <1>1 DEF vars, outVars, todoVars, Outs
<1>2. ASSUME NEW c \in Clients, Loop(c) PROVE Outs'
  <2>1. UNCHANGED <<moving, outVars>>
    BY <1>2, LoopKeeps DEF loopFrame
  <2>2. /\ UNCHANGED todo \/ todo' = [todo EXCEPT ![c] = {n \in OutNames : sas_out[n] # "absent"}]
        /\ pc'[c] \notin {"copy", "remove"} /\ pc[c] \notin {"copy", "remove"}
    <3> USE DEF Threads, Goto, todoVars
    <3>1. CASE HandleAdd(c) \/ HandleRemove(c)
      BY <3>1 DEF HandleAdd, HandleRemove, SendFails
    <3>2. CASE Busy(c) \/ BusyRemove(c) \/ Admit(c)
      BY <3>2 DEF Busy, BusyRemove, RemoveFlag, Admit, SendFails
    <3>3. CASE Ready(c) \/ ReadyRemove(c)
      BY <3>3 DEF Ready, ReadyRemove, RemoveFlag
    <3>4. CASE MountDevice(c)
      BY <3>4 DEF MountDevice
    <3> QED
      BY <1>2, <3>1, <3>2, <3>3, <3>4 DEF Loop
  <2>3. \A d \in Clients : d # c => pc'[d] = pc[d]
    BY <1>2, LoopIsNotReading
  <2> QED
    BY <2>1, <2>2, <2>3 DEF Outs, outVars
<1>3. ASSUME NEW c \in Clients, Worker(c) \/ Ending(c) PROVE Outs'
  <2>1. UNCHANGED <<todoVars, outVars>>
    BY <1>3, ReadingKeeps DEF inFrame
  <2> QED
    BY <1>3, <2>1, ReadingIs DEF Outs, outVars, todoVars, Reading
<1> QED
  BY <1>1, <1>2, <1>3, OutsWorld, OutsMove, NextIs

LEMMA RecordsStay == Kernel /\ Threads /\ Workers /\ Records /\ [Next]_vars => Records'
<1> SUFFICES ASSUME Kernel, Threads, Workers, Records, [Next]_vars PROVE Records'
  OBVIOUS
<1>1. CASE UNCHANGED vars
  BY <1>1 DEF vars, markVars, Records
<1>2. CASE World
  <2>1. UNCHANGED <<markVars, misread, mistaken>>
    BY <1>2, WorldKeeps DEF worldFrame
  <2>2. UNCHANGED excused \/ \E k \in Keys : excused' = excused \cup {k}
    <3>1. ASSUME NEW n \in Nodes, Pull(n)
          PROVE  device[n] \in Keys /\ excused' \in {excused, excused \cup {device[n]}}
      BY <3>1 DEF Pull, Kernel
    <3>2. ASSUME NEW k \in Keys, NEW n \in Nodes, Insert(k, n) PROVE UNCHANGED excused
      BY <3>2 DEF Insert
    <3> QED
      BY <1>2, <3>1, <3>2 DEF World, Open, Close, OutCreate, OutFinish
  <2> QED
    BY <2>1, <2>2 DEF Records, markVars
<1>3. ASSUME NEW c \in Clients, HandleAdd(c) \/ HandleRemove(c) PROVE Records'
  <2>1. UNCHANGED <<markVars, mistaken, excused>>
    BY <1>3 DEF HandleAdd, HandleRemove
  <2>2. \/ UNCHANGED misread
        \/ misread' = misread \cup ({Head(queue[c]).key} \cap Signed)
    BY <1>3 DEF HandleAdd, HandleRemove
  <2> QED
    BY <2>1, <2>2, IoAssumption DEF Records, markVars
<1>4. ASSUME NEW c \in Clients, Busy(c) \/ BusyRemove(c) \/ Ready(c) \/ ReadyRemove(c)
      PROVE  Records'
  <2>1. UNCHANGED <<lock, misread, mistaken, excused>>
    BY <1>4 DEF Busy, BusyRemove, Ready, ReadyRemove, markVars
  <2>2. job[c].side \in Sides
    BY DEF Threads, Jobs
  <2>3. \/ flags' \in {flags, {"dir"}, flags \cup {job[c].side}}
        \/ flags' = flags \ {job[c].side} \/ flags' = flags \ {Opposite(job[c].side)}
    BY <1>4 DEF Busy, BusyRemove, Ready, ReadyRemove, RemoveFlag, markVars
  <2> QED
    BY <2>1, <2>2, <2>3 DEF Records
<1>5. ASSUME NEW c \in Clients, Admit(c) \/ MountDevice(c) PROVE Records'
  <2>1. UNCHANGED <<flags, misread>> /\ pc[c] \in {"admit", "mount"}
    BY <1>5 DEF Admit, MountDevice, markVars
  <2>2. job[c].key \in Keys /\ Mountable(job[c]) \subseteq Keys
    BY <2>1, MountableType DEF Threads, Resting
  <2>3. /\ lock' \in {lock, TRUE}
        /\ excused' \subseteq excused \cup {job[c].key} \cup Mountable(job[c])
        /\ mistaken' \subseteq mistaken \cup Mountable(job[c])
    BY <1>5 DEF Admit, MountDevice, markVars
  <2> QED
    BY <2>1, <2>2, <2>3 DEF Records
<1>6. ASSUME NEW c \in Clients, Worker(c) \/ Ending(c) PROVE Records'
  <2>1. UNCHANGED <<flags, misread, mistaken>>
    BY <1>6, ReadingKeeps DEF inFrame
  <2>2. job[c].key \in Keys
    BY <1>6, ReadingIs DEF Threads, Reading, Resting
  <2>3. ASSUME NEW f \in Files,
               \/ Walk(c, f) \/ StartCopy(c, f) \/ EndCopy(c, f) \/ FailCopy(c, f)
               \/ Rename(c, f) \/ Report(c, f) \/ Swallow(c, f) \/ EarlyUnmount(c, f)
        PROVE  UNCHANGED lock /\ excused' \in {excused, excused \cup {job[c].key}}
    <3>1. CASE \/ Walk(c, f) \/ FailCopy(c, f) \/ Report(c, f) \/ Swallow(c, f)
               \/ EarlyUnmount(c, f)
      BY <3>1 DEF Walk, FailCopy, Report, Swallow, Mishap, EarlyUnmount
    <3>2. CASE StartCopy(c, f) \/ EndCopy(c, f) \/ Rename(c, f)
      BY <3>2, Zenon DEF StartCopy, EndCopy, Rename
    <3> QED
      BY <2>3, <3>1, <3>2
  <2>4. Ending(c) => UNCHANGED excused /\ lock' \in {lock, FALSE}
    BY DEF Ending, Join, Unlock, RemoveLock
  <2>5. WalkFails(c) => UNCHANGED lock /\ excused' = excused \cup {job[c].key}
    BY DEF WalkFails, Mishap
  <2> QED
    BY <1>6, <2>1, <2>2, <2>3, <2>4, <2>5 DEF Records, Worker
<1>7. ASSUME NEW c \in Clients, Move(c) PROVE Records'
  <2>1. UNCHANGED <<markVars, misread, mistaken>>
    BY <1>7, MoveKeeps DEF moveFrame
  <2>2. job[c].key \in Keys
    BY <1>7, MoveIs DEF Threads, MovingOut, Resting
  <2>3. \/ UNCHANGED excused
        \/ excused' = excused \cup {job[c].key}
        \/ mount[c] \in Keys /\ excused' = excused \cup {mount[c]}
    BY <1>7 DEF Move, NextMove, CopyOut, RemoveOut, EndMove
  <2> QED
    BY <2>1, <2>2, <2>3 DEF Records, markVars
<1> QED
  BY <1>1, <1>2, <1>3, <1>4, <1>5, <1>6, <1>7, NextIs DEF Loop

LEMMA IoShapeStays == IoShape /\ [Next]_vars => IoShape'
BY KernelStays, ThreadsStay, ListsStay, WorkersStay, SpoolsStay, OutsStay, RecordsStay
   DEF IoShape

LEMMA IoShapeHolds == Spec => []IoShape
<1>1. Init => IoShape
  BY InitShape
<1>2. IoShape /\ [Next]_vars => IoShape'
  BY IoShapeStays
<1> QED
  BY <1>1, <1>2, PTL DEF Spec

LEMMA IoShapeIsType == IoShape => IoTypeOK
<1> SUFFICES ASSUME IoShape PROVE IoTypeOK
  OBVIOUS
<1> USE DEF IoShape
<1>1. \A c \in Clients :
        /\ (moving[c] # NoName) = (pc[c] \in {"copy", "remove"})
        /\ pc[c] \notin {"walk", "panic"} => Joined(c)
  BY DEF Outs, Workers, Reading, Joined, Finished
<1>2. \A c \in Clients : keys_in[c] \cup keys_out[c] \subseteq {Product[k] : k \in Keys}
  BY DEF Lists
<1>3. \A n \in Names : {tmp[n], sas_in[n]} \subseteq Content \cup {Absent}
  BY DEF Spools
<1>4. /\ device \in [Nodes -> Keys \cup {NoKey}] /\ queue \in [Clients -> Seq(Events)]
      /\ page \in [Clients -> {"none", "open", "closed"}]
      /\ pc \in [Clients -> ThreadSteps] /\ job \in [Clients -> Jobs]
      /\ mount \in [Clients -> Keys \cup {NoKey, Gone}]
      /\ worker \in [Clients -> [Files -> WorkerStates]]
  BY DEF Kernel, Threads, Workers
<1>5. /\ todo \in [Clients -> SUBSET OutNames]
      /\ moving \in [Clients -> OutNames \cup {NoName}]
      /\ reports \subseteq Names /\ shared \subseteq Names
      /\ sas_out \in [OutNames -> {"absent", "writing", "whole"}]
      /\ onKey \in [Keys -> [Names -> Copies \cup {Absent}]]
      /\ flags \subseteq Sides \cup {"dir"} /\ lock \in BOOLEAN
      /\ misread \cup mistaken \cup excused \subseteq Keys
      /\ made \cup spoiled \subseteq OutNames
      /\ sent \subseteq OutNames \X Keys
  BY DEF Outs, Spools, Records
<1> QED
  BY <1>1, <1>2, <1>3, <1>4, <1>5 DEF IoTypeOK

(* Each variable has a value of its type, and the worker threads live only  *)
(* inside the scope of copy_files_in.                                       *)
THEOREM IoTypeCorrect == Spec => []IoTypeOK
<1>1. IoShape => IoTypeOK
  BY IoShapeIsType
<1> QED
  BY <1>1, IoShapeHolds, PTL

------------------------------------------------------------------------------
(* The marks of the station. *)

LEMMA OwnersWorld == IoShape /\ MarksHaveOwners /\ World => MarksHaveOwners'
<1> SUFFICES ASSUME IoShape, MarksHaveOwners, World PROVE MarksHaveOwners'
  OBVIOUS
<1>1. UNCHANGED <<markVars, job>>
  BY WorldKeeps DEF worldFrame
<1>2. \/ UNCHANGED pc
      \/ \E c \in Clients : pc[c] = "off" /\ pc' = [pc EXCEPT ![c] = "idle"]
  BY DEF World, Open, Close, Insert, Pull, OutCreate, OutFinish, IoShape, Threads
<1> QED
  BY <1>1, <1>2 DEF MarksHaveOwners, markVars, IoShape, Threads

LEMMA OwnersLoop ==
  ASSUME IoShape, MarksHaveOwners, NEW c \in Clients, Loop(c) PROVE MarksHaveOwners'
<1> USE DEF MarksHaveOwners, IoShape, Threads, Goto
<1>1. CASE HandleAdd(c) \/ HandleRemove(c)
  <2>1. /\ UNCHANGED markVars /\ pc[c] = "idle"
        /\ \A d \in Clients : d # c => pc'[d] = pc[d] /\ job'[d] = job[d]
    BY <1>1, LoopIsNotReading DEF HandleAdd, HandleRemove
  <2> QED
    BY <2>1 DEF markVars
<1>2. CASE Busy(c)
  <2>1. /\ UNCHANGED <<lock, job>> /\ pc[c] = "busy"
        /\ \/ flags' \in {{"dir"}, flags \cup {job[c].side}}
              /\ pc' = [pc EXCEPT ![c] = "admit"]
           \/ UNCHANGED flags /\ pc' = [pc EXCEPT ![c] = "busyRemove"]
    BY <1>2 DEF Busy
  <2> QED
    BY <2>1 DEF Sides
<1>3. CASE BusyRemove(c)
  <2>1. /\ UNCHANGED <<lock, job>> /\ pc[c] = "busyRemove" /\ flags' \subseteq flags
        /\ \E step \in {"admit", "dead"} : pc' = [pc EXCEPT ![c] = step]
    BY <1>3 DEF BusyRemove, RemoveFlag
  <2> QED
    BY <2>1
<1>4. CASE Admit(c)
  <2>1. /\ UNCHANGED <<markVars, job>> /\ pc[c] = "admit"
        /\ \E step \in {"dead", "mount", "ready"} : pc' = [pc EXCEPT ![c] = step]
    BY <1>4 DEF Admit, SendFails
  <2> QED
    BY <2>1 DEF markVars
<1>5. CASE MountDevice(c)
  <2>1. /\ UNCHANGED flags /\ pc[c] = "mount"
        /\ \A d \in Clients : job'[d].side = job[d].side
        /\ \/ UNCHANGED lock /\ \E step \in {"next", "ready"} : pc' = [pc EXCEPT ![c] = step]
           \/ lock' = TRUE /\ pc' = [pc EXCEPT ![c] = "walk"]
    BY <1>5 DEF MountDevice, Jobs
  <2> QED
    BY <2>1
<1>6. CASE Ready(c)
  <2>1. /\ UNCHANGED <<markVars, job>> /\ pc[c] = "ready"
        /\ \/ pc' = [pc EXCEPT ![c] = "readyRemove"]
           \/ job[c].side \notin flags /\ pc' = [pc EXCEPT ![c] = "idle"]
    BY <1>6 DEF Ready
  <2> QED
    BY <2>1 DEF markVars
<1>7. CASE ReadyRemove(c)
  <2>1. /\ UNCHANGED <<lock, job>> /\ pc[c] = "readyRemove"
        /\ \/ UNCHANGED flags /\ pc' = [pc EXCEPT ![c] = "dead"]
           \/ flags' = flags \ {job[c].side} /\ pc' = [pc EXCEPT ![c] = "idle"]
    BY <1>7 DEF ReadyRemove, RemoveFlag
  <2> QED
    BY <2>1
<1> QED
  BY <1>1, <1>2, <1>3, <1>4, <1>5, <1>6, <1>7 DEF Loop

LEMMA OwnersReading ==
  ASSUME IoShape, MarksHaveOwners, NEW c \in Clients, Worker(c) \/ Ending(c)
  PROVE  MarksHaveOwners'
<1>1. UNCHANGED <<flags, job>>
  BY ReadingKeeps DEF inFrame
<1>2. /\ pc[c] \in Reading \cup {"removeLock"}
      /\ pc'[c] \in Reading \cup {"removeLock", "ready", "dead"}
      /\ \A d \in Clients : d # c => pc'[d] = pc[d]
  BY ReadingIs DEF IoShape
<1>3. lock' => lock /\ pc'[c] # "ready"
  <2>1. CASE Ending(c)
    <3>1. CASE Join(c) \/ RemoveLock(c)
      BY <3>1 DEF Join, RemoveLock, IoShape, Threads, Goto
    <3>2. CASE Unlock(c)
      BY <3>2 DEF Unlock, IoShape, Threads, Goto
    <3> QED
      BY <2>1, <3>1, <3>2 DEF Ending
  <2>2. ASSUME NEW f \in Files,
               \/ StartCopy(c, f) \/ EndCopy(c, f) \/ FailCopy(c, f)
               \/ Rename(c, f) \/ Report(c, f) \/ Swallow(c, f) \/ EarlyUnmount(c, f)
        PROVE  UNCHANGED <<lock, pc>> /\ pc[c] # "ready"
    <3>1. worker[c][f].at # "none"
      BY <2>2 DEF StartCopy, EndCopy, FailCopy, Rename, Report, Swallow, EarlyUnmount
    <3>2. CASE FailCopy(c, f) \/ Report(c, f) \/ Swallow(c, f) \/ EarlyUnmount(c, f)
      BY <3>1, <3>2 DEF FailCopy, Report, Swallow, EarlyUnmount, IoShape, Workers, Reading
    <3>3. UNCHANGED <<lock, pc>>
      BY <2>2, <3>2 DEF StartCopy, EndCopy, Rename
    <3> QED
      BY <3>1, <3>3 DEF IoShape, Workers, Reading
  <2>3. ASSUME NEW f \in Files, Walk(c, f)
        PROVE  UNCHANGED lock /\ pc'[c] # "ready"
    BY <2>3 DEF Walk, IoShape, Threads, Goto
  <2>4. WalkFails(c) => UNCHANGED lock /\ pc'[c] # "ready"
    BY DEF WalkFails, IoShape, Threads, Goto
  <2> QED
    BY <2>1, <2>2, <2>3, <2>4 DEF Worker
<1> QED
  BY <1>1, <1>2, <1>3 DEF MarksHaveOwners, Reading

LEMMA OwnersMove ==
  ASSUME IoShape, MarksHaveOwners, NEW c \in Clients, Move(c) PROVE MarksHaveOwners'
<1>1. UNCHANGED markVars
  BY MoveKeeps DEF moveFrame
<1>2. /\ pc[c] \in MovingOut
      /\ \E step \in {"ready", "next", "copy", "remove", "dead"} : Goto(c, step)
  BY DEF Move, NextMove, CopyOut, RemoveOut, EndMove, MovingOut
<1>3. UNCHANGED job
  BY MoveIs DEF IoShape
<1> QED
  BY <1>1, <1>2, <1>3 DEF MarksHaveOwners, markVars, MovingOut, Goto, IoShape, Threads

(* The station shows a side as busy, and holds LOCK, only while a thread    *)
(* works on it, or when one died at it, whatever the two branches of        *)
(* busy_in and busy_out did to each other's file.                           *)
THEOREM MarksAreOwned == Spec => []MarksHaveOwners
<1>1. Init => MarksHaveOwners
  BY DEF Init, MarksHaveOwners
<1>2. IoShape /\ MarksHaveOwners /\ [Next]_vars => MarksHaveOwners'
  <2> SUFFICES ASSUME IoShape, MarksHaveOwners, [Next]_vars PROVE MarksHaveOwners'
    OBVIOUS
  <2>1. CASE UNCHANGED vars
    BY <2>1 DEF vars, markVars, MarksHaveOwners
  <2> QED
    BY <2>1, NextIs, OwnersWorld, OwnersLoop, OwnersReading, OwnersMove
<1> QED
  BY <1>1, <1>2, IoShapeHolds, PTL DEF Spec

------------------------------------------------------------------------------
(* The keys keep their side. *)

LEMMA DoubtsGrow ==
  ASSUME [Next]_vars PROVE misread \subseteq misread' /\ mistaken \subseteq mistaken'
<1>1. CASE UNCHANGED vars
  BY <1>1 DEF vars
<1>2. CASE World
  BY <1>2, WorldKeeps DEF worldFrame
<1>3. ASSUME NEW c \in Clients, HandleAdd(c) \/ HandleRemove(c)
      PROVE  misread \subseteq misread' /\ mistaken \subseteq mistaken'
  BY <1>3 DEF HandleAdd, HandleRemove
<1>4. ASSUME NEW c \in Clients, Busy(c) \/ BusyRemove(c) \/ Ready(c) \/ ReadyRemove(c)
      PROVE  misread \subseteq misread' /\ mistaken \subseteq mistaken'
  BY <1>4 DEF Busy, BusyRemove, Ready, ReadyRemove
<1>5. ASSUME NEW c \in Clients, Admit(c) \/ MountDevice(c)
      PROVE  misread \subseteq misread' /\ mistaken \subseteq mistaken'
  BY <1>5 DEF Admit, MountDevice
<1>6. ASSUME NEW c \in Clients, Worker(c) \/ Ending(c)
      PROVE  misread \subseteq misread' /\ mistaken \subseteq mistaken'
  BY <1>6, ReadingKeeps DEF inFrame
<1>7. ASSUME NEW c \in Clients, Move(c)
      PROVE  misread \subseteq misread' /\ mistaken \subseteq mistaken'
  BY <1>7, MoveKeeps DEF moveFrame
<1> QED
  BY <1>1, <1>2, <1>3, <1>4, <1>5, <1>6, <1>7, NextIs DEF Loop

LEMMA SentSteps ==
  ASSUME IoShape, [Next]_vars
  PROVE  \/ UNCHANGED sent
         \/ \E c \in Clients : /\ pc[c] = "remove" /\ UNCHANGED <<onKey, spoiled, excused>>
                               /\ sent' = sent \cup {<<moving[c], job[c].key>>}
<1>1. CASE UNCHANGED vars
  BY <1>1 DEF vars, outVars
<1>2. CASE World
  BY <1>2, WorldKeeps DEF worldFrame
<1>3. ASSUME NEW c \in Clients, Loop(c) PROVE UNCHANGED sent
  BY <1>3, LoopKeeps DEF loopFrame, outVars
<1>4. ASSUME NEW c \in Clients, Worker(c) \/ Ending(c) PROVE UNCHANGED sent
  BY <1>4, ReadingKeeps DEF inFrame, outVars
<1>5. ASSUME NEW c \in Clients, Move(c)
      PROVE  \/ UNCHANGED sent
             \/ /\ pc[c] = "remove" /\ UNCHANGED <<onKey, spoiled, excused>>
                /\ sent' = sent \cup {<<moving[c], job[c].key>>}
  BY <1>5 DEF Move, NextMove, CopyOut, RemoveOut
<1> QED
  BY <1>1, <1>2, <1>3, <1>4, <1>5, NextIs

LEMMA WrongIsNew ==
  ASSUME IoShape, [Next]_vars, NEW c \in Clients, Wrong(c)'
  PROVE  (Wrong(c) /\ job'[c] = job[c]) \/ Doubted(job[c])'
<1> USE DEF Wrong, IoShape, Threads, Resting
<1>1. CASE UNCHANGED vars
  BY <1>1 DEF vars
<1>2. CASE World
  <2>1. UNCHANGED job
    BY <1>2, WorldKeeps DEF worldFrame
  <2>2. UNCHANGED pc \/ \E d \in Clients : pc' = [pc EXCEPT ![d] = "idle"]
    BY <1>2 DEF World, Open, Close, Insert, Pull, OutCreate, OutFinish
  <2> QED
    BY <2>1, <2>2
<1>3. ASSUME NEW d \in Clients, Loop(d), d # c PROVE Wrong(c) /\ job'[c] = job[c]
  BY <1>3, LoopIsNotReading
<1>4. CASE HandleAdd(c)
  <2>1. \/ UNCHANGED job /\ pc[c] = "idle" /\ Goto(c, "dead")
        \/ \E readable \in Readable(Head(queue[c])) :
             LET e == Head(queue[c]) IN
             /\ job' = [job EXCEPT ![c] =
                  [key |-> e.key, node |-> e.node,
                   side |-> IF is_signed(e, readable) THEN "out" ELSE "in",
                   kind |-> e.action]]
             /\ misread' = IF readable \/ e.action = "disk" THEN misread
                           ELSE misread \cup ({e.key} \cap Signed)
    BY <1>4 DEF HandleAdd, Handled, SendFails
  <2>2. CASE UNCHANGED job /\ pc[c] = "idle" /\ Goto(c, "dead")
    BY <2>2 DEF Goto
  <2>3. ASSUME NEW readable \in Readable(Head(queue[c])), NEW e, e = Head(queue[c]),
               job' = [job EXCEPT ![c] =
                  [key |-> e.key, node |-> e.node,
                   side |-> IF is_signed(e, readable) THEN "out" ELSE "in",
                   kind |-> e.action]],
               misread' = IF readable \/ e.action = "disk" THEN misread
                          ELSE misread \cup ({e.key} \cap Signed)
        PROVE  Doubted(job[c])'
    <3>1. /\ job'[c].key = e.key /\ job'[c].kind = e.action
          /\ job'[c].side = IF is_signed(e, readable) THEN "out" ELSE "in"
      BY <2>3
    <3>2. CASE is_signed(e, readable)
      BY <3>1, <3>2 DEF is_signed
    <3>3. CASE ~is_signed(e, readable)
      <4>1. job'[c].side = "in" /\ e.key \in Signed /\ e.action = "partition"
        BY <3>1, <3>3
      <4> QED
        BY <2>3, <3>1, <3>3, <4>1 DEF is_signed, Doubted
    <3> QED
      BY <3>2, <3>3
  <2> QED
    BY <2>1, <2>2, <2>3
<1>5. CASE HandleRemove(c)
  BY <1>5 DEF HandleRemove, SendFails, Goto
<1>6. CASE Busy(c) \/ BusyRemove(c) \/ Ready(c) \/ ReadyRemove(c)
  BY <1>6 DEF Busy, BusyRemove, Ready, ReadyRemove
<1>7. CASE Admit(c)
  BY <1>7 DEF Admit
<1>10. CASE MountDevice(c)
  <2>1. pc[c] = "mount"
    BY <1>10 DEF MountDevice
  <2>2. CASE UNCHANGED job
    BY <2>1, <2>2
  <2>3. ASSUME NEW k \in Keys, job' = [job EXCEPT ![c].key = k],
               mistaken' = mistaken \cup ({k} \ {job[c].key})
        PROVE  (Wrong(c) /\ job'[c] = job[c]) \/ Doubted(job[c])'
    <3>1. /\ job'[c].key = k /\ job'[c].side = job[c].side
          /\ job'[c].kind = job[c].kind /\ job'[c].node = job[c].node
      BY <2>3 DEF Jobs
    <3>2. CASE k = job[c].key
      BY <2>1, <2>3, <3>2 DEF Jobs
    <3>3. CASE k # job[c].key
      BY <2>3, <3>1, <3>3 DEF Doubted
    <3> QED
      BY <3>2, <3>3
  <2>4. Mountable(job[c]) \subseteq Keys
    BY <2>1, MountableType
  <2> QED
    BY <1>10, <2>2, <2>3, <2>4 DEF MountDevice
<1>8. ASSUME NEW d \in Clients, Worker(d) \/ Ending(d) PROVE Wrong(c) /\ job'[c] = job[c]
  BY <1>8, ReadingIs DEF Reading
<1>9. ASSUME NEW d \in Clients, Move(d) PROVE Wrong(c) /\ job'[c] = job[c]
  BY <1>9, MoveIs DEF MovingOut
<1> QED
  BY <1>1, <1>2, <1>3, <1>4, <1>5, <1>6, <1>7, <1>8, <1>9, <1>10, NextIs DEF Loop

LEMMA ReadIsUnread ==
  ASSUME IoShape, Reads, NEW c \in Clients, NEW f \in Files, worker[c][f].at # "none"
  PROVE  Unread(f)
<1> SUFFICES ASSUME NEW k \in Signed, f \in Holds[k]
             PROVE  k \in misread \cup mistaken
  BY DEF Unread
<1>1. pc[c] \in Reading /\ f \in Holds[job[c].key]
  BY DEF IoShape, Workers
<1>2. /\ job[c].key \in Keys /\ job[c].side = "in"
      /\ (job[c].kind = "partition") = (job[c].key \in Partitioned)
  BY <1>1 DEF IoShape, Threads, Reading, Resting
<1>3. k \in Partitioned /\ k = job[c].key
  BY <1>1, <1>2, IoAssumption
<1> QED
  BY <1>1, <1>2, <1>3 DEF Reads, Wrong, Doubted, Reading, Resting

LEMMA OthersAreUnread ==
  ASSUME IoShape, Reads, NEW n \in Names, NEW f \in OthersOn(n) PROVE Unread(f)
<1> PICK w \in Clients \X Files :
      worker[w[1]][w[2]].at \in {"copying", "broken", "renaming"} /\ f = w[2]
  BY DEF OthersOn, OnTmp
<1>1. worker[w[1]][f].at # "none"
  OBVIOUS
<1> QED
  BY <1>1, ReadIsUnread

(* The end of a copy leaves the files that were written together. *)
LEMMA ByStays ==
  ASSUME NEW F \in [Names -> Content \cup {Absent}], NEW m \in Names, NEW n \in Names,
         NEW G, F[m] # Absent, NEW b \in BOOLEAN,
         G = [F EXCEPT ![m] = [by |-> F[m].by, whole |-> b]], G[n] # Absent
  PROVE  F[n] # Absent /\ G[n].by = F[n].by
<1>1. CASE n = m
  <2>1. G[n] = [by |-> F[m].by, whole |-> b]
    BY <1>1
  <2> QED
    BY <1>1, <2>1
<1>2. CASE n # m
  BY <1>2
<1> QED
  BY <1>1, <1>2

LEMMA CopiesUnread ==
  ASSUME IoShape, Reads, [Next]_vars, NEW n \in Names
  PROVE  /\ tmp'[n] # Absent => \A f \in tmp'[n].by : Unread(f)
         /\ sas_in'[n] # Absent => \A f \in sas_in'[n].by : Unread(f)
<1> USE DEF Reads
<1>1. CASE UNCHANGED spoolVars
  BY <1>1 DEF spoolVars
<1>2. ASSUME NEW c \in Clients, NEW f \in Files, StartCopy(c, f)
      PROVE  /\ tmp'[n] # Absent => \A g \in tmp'[n].by : Unread(g)
             /\ sas_in'[n] # Absent => \A g \in sas_in'[n].by : Unread(g)
  <2>1. CASE UNCHANGED <<tmp, sas_in>>
    BY <2>1
  <2>2. CASE /\ tmp' = [tmp EXCEPT ![NameOf[f]] =
                          [by |-> {f} \cup OthersOn(NameOf[f]), whole |-> FALSE]]
             /\ UNCHANGED sas_in
    <3>1. Unread(f)
      BY <1>2, ReadIsUnread DEF StartCopy
    <3>2. \A g \in OthersOn(NameOf[f]) : Unread(g)
      BY OthersAreUnread, IoAssumption
    <3> QED
      BY <2>2, <3>1, <3>2 DEF IoShape, Spools
  <2> QED
    BY <1>2, <2>1, <2>2, StartCopyIs
<1>3. ASSUME NEW c \in Clients, NEW f \in Files, EndCopy(c, f)
      PROVE  /\ tmp'[n] # Absent => \A g \in tmp'[n].by : Unread(g)
             /\ sas_in'[n] # Absent => \A g \in sas_in'[n].by : Unread(g)
  <2>1. worker[c][f].at \in Holding /\ NameOf[f] \in Names
    BY <1>3, IoAssumption DEF EndCopy, Holding
  <2>2. \/ UNCHANGED tmp
        \/ /\ tmp[NameOf[f]] # Absent
           /\ \E b \in BOOLEAN :
                tmp' = [tmp EXCEPT ![NameOf[f]] = [by |-> tmp[NameOf[f]].by, whole |-> b]]
    <3>1. CASE worker[c][f].on = "tmp"
      <4>1. PICK b \in BOOLEAN :
              /\ ~WritesTogether(c, f) /\ tmp[NameOf[f]].by = {f} => b
              /\ tmp' = [tmp EXCEPT ![NameOf[f]] =
                           [by |-> tmp[NameOf[f]].by, whole |-> b]]
        BY <1>3, <3>1, EndIs, Zenon DEF IoShape
      <4> QED
        BY <2>1, <3>1, <4>1 DEF IoShape, Spools
    <3>2. CASE worker[c][f].on # "tmp"
      BY <1>3, <3>2, EndIs DEF IoShape
    <3> QED
      BY <3>1, <3>2
  <2>3. \/ UNCHANGED sas_in
        \/ /\ sas_in[NameOf[f]] # Absent
           /\ \E b \in BOOLEAN :
                sas_in' = [sas_in EXCEPT ![NameOf[f]] =
                             [by |-> sas_in[NameOf[f]].by, whole |-> b]]
    <3>1. CASE worker[c][f].on = "in"
      BY <1>3, <2>1, <3>1, EndIs DEF IoShape, Spools
    <3>2. CASE worker[c][f].on # "in"
      BY <1>3, <3>2, EndIs DEF IoShape
    <3> QED
      BY <3>1, <3>2
  <2>4. tmp'[n] # Absent => tmp[n] # Absent /\ tmp'[n].by = tmp[n].by
    <3>1. CASE UNCHANGED tmp
      BY <3>1
    <3>2. ASSUME NEW b \in BOOLEAN, tmp[NameOf[f]] # Absent,
                 tmp' = [tmp EXCEPT ![NameOf[f]] = [by |-> tmp[NameOf[f]].by, whole |-> b]],
                 tmp'[n] # Absent
          PROVE  tmp[n] # Absent /\ tmp'[n].by = tmp[n].by
      <4>1. tmp \in [Names -> Content \cup {Absent}]
        BY DEF IoShape, Spools
      <4> QED
        BY <2>1, <3>2, <4>1, ByStays
    <3> QED
      BY <2>2, <3>1, <3>2
  <2>5. sas_in'[n] # Absent => sas_in[n] # Absent /\ sas_in'[n].by = sas_in[n].by
    <3>1. CASE UNCHANGED sas_in
      BY <3>1
    <3>2. ASSUME NEW b \in BOOLEAN, sas_in[NameOf[f]] # Absent,
                 sas_in' = [sas_in EXCEPT ![NameOf[f]] =
                             [by |-> sas_in[NameOf[f]].by, whole |-> b]],
                 sas_in'[n] # Absent
          PROVE  sas_in[n] # Absent /\ sas_in'[n].by = sas_in[n].by
      <4>1. sas_in \in [Names -> Content \cup {Absent}]
        BY DEF IoShape, Spools
      <4> QED
        BY <2>1, <3>2, <4>1, ByStays
    <3> QED
      BY <2>3, <3>1, <3>2
  <2> QED
    BY <2>4, <2>5
<1>4. ASSUME NEW c \in Clients, NEW f \in Files, Rename(c, f)
      PROVE  /\ tmp'[n] # Absent => \A g \in tmp'[n].by : Unread(g)
             /\ sas_in'[n] # Absent => \A g \in sas_in'[n].by : Unread(g)
  <2>1. \/ UNCHANGED <<tmp, sas_in>>
        \/ /\ tmp[NameOf[f]] # Absent
           /\ sas_in' = [sas_in EXCEPT ![NameOf[f]] = tmp[NameOf[f]]]
           /\ tmp' = [tmp EXCEPT ![NameOf[f]] = Absent]
    BY <1>4 DEF Rename
  <2>2. NameOf[f] \in Names
    BY IoAssumption
  <2> QED
    BY <2>1, <2>2 DEF IoShape, Spools
<1>5. ASSUME NEW c \in Clients, Worker(c)
      PROVE  \/ UNCHANGED <<tmp, sas_in>>
             \/ \E f \in Files : StartCopy(c, f) \/ EndCopy(c, f) \/ Rename(c, f)
  BY <1>5, WorkerActions, WalkFailsIs DEF Worker, spoolVars, IoShape, Workers
<1>6. CASE UNCHANGED <<tmp, sas_in>>
  BY <1>6
<1>7. CASE UNCHANGED vars
  BY <1>1, <1>7 DEF vars
<1>8. CASE World
  BY <1>1, <1>8, WorldKeeps DEF worldFrame
<1>9. ASSUME NEW c \in Clients, Loop(c) PROVE UNCHANGED spoolVars
  BY <1>9, LoopKeeps DEF loopFrame
<1>10. ASSUME NEW c \in Clients, Ending(c) PROVE UNCHANGED spoolVars
  BY <1>10 DEF Ending, Join, Unlock, RemoveLock
<1>11. ASSUME NEW c \in Clients, Move(c) PROVE UNCHANGED spoolVars
  BY <1>11, MoveKeeps DEF moveFrame
<1> QED
  BY <1>1, <1>2, <1>3, <1>4, <1>5, <1>6, <1>7, <1>8, <1>9, <1>10, <1>11, NextIs

LEMMA ReadsStay == IoShape /\ Reads /\ [Next]_vars => Reads'
<1> SUFFICES ASSUME IoShape, Reads, [Next]_vars PROVE Reads'
  OBVIOUS
<1>1. ASSUME NEW c \in Clients, Wrong(c)' PROVE Doubted(job[c])'
  <2>1. CASE Wrong(c) /\ job'[c] = job[c]
    <3>1. Doubted(job[c])
      BY <2>1 DEF Reads
    <3> QED
      BY <2>1, <3>1, DoubtsGrow DEF Doubted
  <2> QED
    BY <1>1, <2>1, WrongIsNew
<1>2. \A f : Unread(f) => Unread(f)'
  BY DoubtsGrow DEF Unread
<1>3. ASSUME NEW n \in Names
      PROVE  /\ tmp'[n] # Absent => \A f \in tmp'[n].by : Unread(f)'
             /\ sas_in'[n] # Absent => \A f \in sas_in'[n].by : Unread(f)'
  BY <1>2, CopiesUnread
<1>4. ASSUME NEW s \in sent' PROVE s[2] \in Signed \cup mistaken'
  <2>1. CASE s \in sent
    BY <2>1, DoubtsGrow DEF Reads
  <2>2. ASSUME NEW c \in Clients, pc[c] = "remove", s = <<moving[c], job[c].key>>
        PROVE  s[2] \in Signed \cup mistaken'
    <3>1. job[c].side = "out"
      BY <2>2 DEF IoShape, Threads, MovingOut
    <3>2. job[c].key \in Signed \cup mistaken
      BY <2>2, <3>1 DEF Reads, Wrong, Doubted, Resting
    <3> QED
      BY <2>2, <3>2, DoubtsGrow
  <2> QED
    BY <1>4, <2>1, <2>2, SentSteps
<1> QED
  BY <1>1, <1>3, <1>4 DEF Reads

(* A key signed for the out side is never read from, although the event of  *)
(* its disk is always taken for that of an unsigned key, and what leaves    *)
(* sas_out goes to signed keys only: unless its signature could not be read *)
(* when its partition came up, or it was mounted for the event of another   *)
(* key that had left it its device node.                                    *)
THEOREM KeysKeepTheirSide == Spec => []SidesAreKept
<1>1. Init => Reads
  BY DEF Init, Reads, Wrong, Resting
<1>2. IoShape /\ Reads /\ [Next]_vars => Reads'
  BY ReadsStay
<1>3. Reads => SidesAreKept
  <2> SUFFICES ASSUME Reads PROVE SidesAreKept
    OBVIOUS
  <2>1. ASSUME NEW n \in Names, NEW k \in Signed, sas_in[n] # Absent,
               NEW f \in sas_in[n].by \cap Holds[k]
        PROVE  k \in misread \cup mistaken
    BY <2>1 DEF Reads, Unread
  <2> QED
    BY <2>1 DEF SidesAreKept, Reads
<1> QED
  BY <1>1, <1>2, <1>3, IoShapeHolds, PTL DEF Spec

------------------------------------------------------------------------------
(* What left sas_out is on the key. *)

LEMMA ExcusedGrows ==
  ASSUME [Next]_vars PROVE excused \subseteq excused' /\ spoiled \subseteq spoiled'
<1>1. CASE UNCHANGED vars
  BY <1>1 DEF vars, outVars
<1>2. CASE World
  <2>1. UNCHANGED spoiled
    BY <1>2, WorldKeeps DEF worldFrame
  <2>2. ASSUME NEW k \in Keys, NEW n \in Nodes, Insert(k, n) PROVE UNCHANGED excused
    BY <2>2 DEF Insert
  <2>3. ASSUME NEW n \in Nodes, Pull(n) PROVE excused \subseteq excused'
    BY <2>3 DEF Pull
  <2> QED
    BY <1>2, <2>1, <2>2, <2>3 DEF World, Open, Close, OutCreate, OutFinish
<1>3. ASSUME NEW c \in Clients, Loop(c)
      PROVE  excused \subseteq excused' /\ spoiled \subseteq spoiled'
  <2>1. UNCHANGED spoiled
    BY <1>3, LoopKeeps DEF loopFrame, outVars
  <2>2. CASE HandleAdd(c) \/ HandleRemove(c)
    BY <2>1, <2>2 DEF HandleAdd, HandleRemove
  <2>3. CASE Busy(c) \/ BusyRemove(c) \/ Ready(c) \/ ReadyRemove(c)
    BY <2>1, <2>3 DEF Busy, BusyRemove, Ready, ReadyRemove
  <2>4. CASE Admit(c) \/ MountDevice(c)
    BY <2>1, <2>4 DEF Admit, MountDevice
  <2> QED
    BY <1>3, <2>2, <2>3, <2>4 DEF Loop
<1>4. ASSUME NEW c \in Clients, Worker(c) \/ Ending(c)
      PROVE  excused \subseteq excused' /\ spoiled \subseteq spoiled'
  <2>1. UNCHANGED spoiled
    BY <1>4, ReadingKeeps DEF inFrame, outVars
  <2>2. ASSUME NEW f \in Files, StartCopy(c, f) \/ EndCopy(c, f) \/ Rename(c, f)
        PROVE  UNCHANGED excused
    BY <2>2, Zenon DEF StartCopy, EndCopy, Rename
  <2>3. ASSUME NEW f \in Files,
               \/ Walk(c, f) \/ FailCopy(c, f) \/ Report(c, f) \/ Swallow(c, f)
               \/ EarlyUnmount(c, f)
        PROVE  excused \subseteq excused'
    BY <2>3 DEF Walk, FailCopy, Report, Swallow, Mishap, EarlyUnmount
  <2>4. Ending(c) \/ WalkFails(c) => excused \subseteq excused'
    BY DEF Ending, Join, Unlock, RemoveLock, WalkFails, Mishap
  <2> QED
    BY <1>4, <2>1, <2>2, <2>3, <2>4 DEF Worker
<1>5. ASSUME NEW c \in Clients, Move(c)
      PROVE  excused \subseteq excused' /\ spoiled \subseteq spoiled'
  BY <1>5 DEF Move, NextMove, CopyOut, RemoveOut, EndMove
<1> QED
  BY <1>1, <1>2, <1>3, <1>4, <1>5, NextIs

(* A file is written on a key. *)
WrittenTo(k, n, whole) ==
  onKey' = [onKey EXCEPT ![k][OutNameOf[n]] = [of |-> n, whole |-> whole]]

LEMMA WrittenIs ==
  ASSUME IoShape, NEW k \in Keys, NEW n \in OutNames, NEW whole \in BOOLEAN,
         WrittenTo(k, n, whole)
  PROVE  /\ onKey'[k][OutNameOf[n]] # Absent
         /\ onKey'[k][OutNameOf[n]].of = n /\ onKey'[k][OutNameOf[n]].whole = whole
         /\ \A j \in Keys, m \in Names :
              ~(j = k /\ m = OutNameOf[n]) => onKey'[j][m] = onKey[j][m]
<1>1. PICK copy \in Copies : copy = [of |-> n, whole |-> whole]
  BY DEF Copies
<1>2. OutNameOf[n] \in Names /\ copy # Absent /\ copy.of = n /\ copy.whole = whole
  BY <1>1, IoAssumption, AbsentAssumption
<1> QED
  BY <1>1, <1>2 DEF WrittenTo, IoShape, Outs

(* What a step of move_files_out does to the files of the keys. *)
LEMMA DeliveredMove ==
  ASSUME IoShape, NEW c \in Clients, Move(c), NEW n \in OutNames, NEW k \in Keys,
         Delivered(n, k)
  PROVE  Delivered(n, k)'
<1> USE DEF Delivered, Kept, IoShape, Outs
<1>0. excused \subseteq excused' /\ spoiled \subseteq spoiled'
  BY DEF Move, NextMove, CopyOut, RemoveOut, EndMove
<1>1. CASE UNCHANGED onKey
  BY <1>0, <1>1
<1>2. CASE EndMove(c)
  BY <1>0, <1>1, <1>2 DEF EndMove
<1>3. CASE CopyOut(c)
  <2>1. moving[c] \in OutNames /\ sas_out[moving[c]] \in {"absent", "writing", "whole"}
    BY <1>3 DEF CopyOut
  <2>2. \/ UNCHANGED onKey
        \/ /\ mount[c] \in Keys
           /\ \E whole \in BOOLEAN :
                /\ WrittenTo(mount[c], moving[c], whole)
                /\ whole \/ moving[c] \in spoiled' \/ mount[c] \in excused'
    BY <1>3, <2>1 DEF CopyOut, WrittenTo
  <2>3. ASSUME NEW whole \in BOOLEAN, mount[c] \in Keys,
               WrittenTo(mount[c], moving[c], whole),
               whole \/ moving[c] \in spoiled' \/ mount[c] \in excused'
        PROVE  Delivered(n, k)'
    <3>1. OutNameOf[n] \in Names /\ OutNameOf[moving[c]] \in Names
      BY <2>1, IoAssumption
    <3>2. CASE k = mount[c] /\ OutNameOf[n] = OutNameOf[moving[c]]
      BY <1>0, <2>1, <2>3, <3>1, <3>2, AbsentAssumption, WrittenIs
    <3>3. CASE ~(k = mount[c] /\ OutNameOf[n] = OutNameOf[moving[c]])
      BY <1>0, <2>1, <2>3, <3>1, <3>3, WrittenIs
    <3> QED
      BY <3>2, <3>3
  <2> QED
    BY <1>1, <2>2, <2>3
<1> QED
  BY <1>1, <1>2, <1>3 DEF Move, NextMove, RemoveOut

LEMMA DeliveredStays ==
  ASSUME IoShape, [Next]_vars, NEW n \in OutNames, NEW k \in Keys, Delivered(n, k)
  PROVE  Delivered(n, k)'
<1>1. CASE UNCHANGED onKey
  BY <1>1, ExcusedGrows DEF Delivered, Kept
<1>2. CASE UNCHANGED vars
  BY <1>1, <1>2 DEF vars, outVars
<1>3. CASE World
  BY <1>1, <1>3, WorldKeeps DEF worldFrame
<1>4. ASSUME NEW c \in Clients, Loop(c) PROVE UNCHANGED onKey
  BY <1>4, LoopKeeps DEF loopFrame, outVars
<1>5. ASSUME NEW c \in Clients, Worker(c) \/ Ending(c) PROVE UNCHANGED onKey
  BY <1>5, ReadingKeeps DEF inFrame, outVars
<1> QED
  BY <1>1, <1>2, <1>3, <1>4, <1>5, DeliveredMove, NextIs

(* A thread that moves files out has its key mounted, or excused. *)
Placed(c) ==
  /\ mount[c] \in {job[c].key, NoKey, Gone}
  /\ mount[c] # job[c].key => job[c].key \in excused

Moving(c) ==
  pc[c] \in MovingOut =>
    Placed(c) /\ (pc[c] = "remove" => Delivered(moving[c], job[c].key))

LEMMA MovingKept ==
  ASSUME IoShape, [Next]_vars, NEW c \in Clients, Moving(c),
         pc'[c] = pc[c], job'[c] = job[c], mount'[c] = mount[c],
         pc[c] = "remove" => moving'[c] = moving[c]
  PROVE  Moving(c)'
<1> SUFFICES ASSUME pc[c] \in MovingOut PROVE Moving(c)'
  BY DEF Moving
<1>1. excused \subseteq excused'
  BY ExcusedGrows
<1>2. pc[c] = "remove" => Delivered(moving[c], job[c].key)'
  <2> SUFFICES ASSUME pc[c] = "remove" PROVE Delivered(moving[c], job[c].key)'
    OBVIOUS
  <2>1. moving[c] \in OutNames /\ job[c].key \in Keys
    BY DEF IoShape, Outs, Threads, Resting
  <2>2. Delivered(moving[c], job[c].key)
    BY DEF Moving
  <2> DEFINE n == moving[c]
             k == job[c].key
  <2>3. PICK m \in OutNames, j \in Keys : m = moving[c] /\ j = job[c].key
    BY <2>1
  <2>4. Delivered(m, j)'
    BY <2>2, <2>3, DeliveredStays
  <2>5. moving'[c] = m /\ job'[c].key = j
    BY <2>3
  <2> QED
    BY <2>4, <2>5 DEF Delivered, Kept
<1> QED
  BY <1>1, <1>2 DEF Moving, Placed

LEMMA MovingWorld ==
  ASSUME IoShape, [Next]_vars, World, NEW c \in Clients, Moving(c) PROVE Moving(c)'
<1>1. UNCHANGED <<job, todoVars>>
  BY WorldKeeps DEF worldFrame
<1>2. ASSUME NEW n \in Nodes, Pull(n) PROVE Moving(c)'
  <2> DEFINE k == device[n]
  <2>1. /\ UNCHANGED pc /\ k \in Keys
        /\ mount' = [d \in Clients |-> IF mount[d] = k THEN Gone ELSE mount[d]]
    BY <1>2 DEF Pull, IoShape, Kernel
  <2> HIDE DEF k
  <2>2. CASE mount[c] # k
    BY <1>1, <2>1, <2>2, MovingKept DEF todoVars
  <2>3. CASE mount[c] = k
    <3>1. mount'[c] = Gone /\ mount' # mount
      BY <2>1, <2>3, IoAssumption
    <3>2. k \in excused'
      BY <1>2, <3>1 DEF Pull, k
    <3>3. pc[c] \in MovingOut => job[c].key = k
      BY <2>1, <2>3, IoAssumption DEF Moving, Placed
    <3>4. excused \subseteq excused'
      BY ExcusedGrows
    <3> QED
      BY <1>1, <2>1, <3>1, <3>2, <3>3 DEF Moving, Placed, Delivered
  <2> QED
    BY <2>2, <2>3
<1>3. ASSUME NEW d \in Clients, Open(d) \/ Close(d) PROVE Moving(c)'
  <2>1. UNCHANGED mount /\ (pc'[c] = pc[c] \/ pc'[c] = "idle")
    BY <1>3 DEF Open, Close, IoShape, Threads
  <2> QED
    BY <1>1, <2>1, MovingKept DEF Moving, MovingOut, todoVars
<1>4. ASSUME NEW k \in Keys, NEW n \in Nodes, Insert(k, n) PROVE Moving(c)'
  BY <1>1, <1>4, MovingKept DEF Insert, todoVars
<1>5. ASSUME NEW n \in OutNames, OutCreate(n) \/ OutFinish(n) PROVE Moving(c)'
  BY <1>1, <1>5, MovingKept DEF OutCreate, OutFinish, todoVars
<1> QED
  BY <1>2, <1>3, <1>4, <1>5 DEF World

LEMMA MovingLoop ==
  ASSUME IoShape, [Next]_vars, NEW c \in Clients, NEW d \in Clients, Loop(d), Moving(c)
  PROVE  Moving(c)'
<1>1. UNCHANGED moving /\ \A e \in Clients : e # d => pc'[e] = pc[e] /\ job'[e] = job[e]
  BY LoopKeeps, LoopIsNotReading DEF loopFrame, IoShape
<1>2. CASE MountDevice(d)
  <2>1. \/ UNCHANGED mount /\ pc' = [pc EXCEPT ![d] = "ready"]
        \/ \E k \in Mountable(job[d]) :
             /\ mount' = [mount EXCEPT ![d] = k] /\ job' = [job EXCEPT ![d].key = k]
             /\ \E step \in {"walk", "next"} : pc' = [pc EXCEPT ![d] = step]
    BY <1>2 DEF MountDevice, Goto
  <2>2. CASE c = d
    <3>1. CASE UNCHANGED mount /\ pc' = [pc EXCEPT ![d] = "ready"]
      BY <2>2, <3>1 DEF Moving, MovingOut, IoShape, Threads
    <3>2. ASSUME NEW k, mount' = [mount EXCEPT ![d] = k], job' = [job EXCEPT ![d].key = k],
                 NEW step \in {"walk", "next"}, pc' = [pc EXCEPT ![d] = step]
          PROVE  Moving(c)'
      <4>1. mount'[c] = k /\ job'[c].key = k /\ pc'[c] = step
        BY <2>2, <3>2 DEF IoShape, Threads, Jobs
      <4> QED
        BY <4>1 DEF Moving, Placed, MovingOut
    <3> QED
      BY <2>1, <3>1, <3>2
  <2>3. CASE c # d
    <3>1. mount'[c] = mount[c]
      BY <2>1, <2>3 DEF IoShape, Threads
    <3> QED
      BY <1>1, <2>3, <3>1, MovingKept
  <2> QED
    BY <2>2, <2>3
<1>3. CASE ~MountDevice(d)
  <2>1. UNCHANGED mount /\ pc'[d] \notin MovingOut
    <3> USE DEF Goto, IoShape, Threads, MovingOut
    <3>1. CASE HandleAdd(d) \/ HandleRemove(d)
      BY <3>1 DEF HandleAdd, HandleRemove, SendFails
    <3>2. CASE Busy(d) \/ BusyRemove(d) \/ Admit(d)
      BY <3>2 DEF Busy, BusyRemove, RemoveFlag, Admit, SendFails
    <3>3. CASE Ready(d) \/ ReadyRemove(d)
      BY <3>3 DEF Ready, ReadyRemove, RemoveFlag
    <3> QED
      BY <1>3, <3>1, <3>2, <3>3 DEF Loop
  <2> QED
    BY <1>1, <2>1, MovingKept DEF Moving
<1> QED
  BY <1>2, <1>3

LEMMA MovingReading ==
  ASSUME IoShape, [Next]_vars, NEW c \in Clients, NEW d \in Clients,
         Worker(d) \/ Ending(d), Moving(c)
  PROVE  Moving(c)'
<1>1. UNCHANGED todoVars
  BY ReadingKeeps DEF inFrame
<1>2. /\ pc'[d] \notin MovingOut /\ UNCHANGED job
      /\ \A e \in Clients : e # d => pc'[e] = pc[e]
  BY ReadingIs DEF IoShape, Reading, MovingOut
<1>3. mount' \in {mount, [mount EXCEPT ![d] = NoKey]}
  <2>1. ASSUME NEW f \in Files,
               \/ Walk(d, f) \/ StartCopy(d, f) \/ EndCopy(d, f) \/ FailCopy(d, f)
               \/ Rename(d, f) \/ Report(d, f) \/ Swallow(d, f) \/ EarlyUnmount(d, f)
        PROVE  mount' \in {mount, [mount EXCEPT ![d] = NoKey]}
    <3>1. CASE \/ Walk(d, f) \/ FailCopy(d, f) \/ Report(d, f) \/ Swallow(d, f)
               \/ EarlyUnmount(d, f)
      BY <3>1 DEF Walk, FailCopy, Report, Swallow, EarlyUnmount
    <3>2. StartCopy(d, f) \/ EndCopy(d, f) \/ Rename(d, f) => UNCHANGED mount
      BY Zenon DEF StartCopy, EndCopy, Rename
    <3> QED
      BY <2>1, <3>1, <3>2
  <2>2. CASE Ending(d) \/ WalkFails(d)
    BY <2>2 DEF Ending, Join, Unlock, RemoveLock, WalkFails
  <2> QED
    BY <2>1, <2>2 DEF Worker
<1>4. c # d => mount'[c] = mount[c]
  BY <1>3 DEF IoShape, Threads
<1> QED
  BY <1>1, <1>2, <1>4, MovingKept DEF Moving, todoVars

LEMMA MovingMove ==
  ASSUME IoShape, [Next]_vars, NEW c \in Clients, NEW d \in Clients, Move(d), Moving(c)
  PROVE  Moving(c)'
<1>1. /\ pc[d] \in MovingOut /\ UNCHANGED job
      /\ \A e \in Clients : e # d => pc'[e] = pc[e]
  BY MoveIs DEF IoShape
<1>2. excused \subseteq excused'
  BY ExcusedGrows
<1>3. CASE c # d
  <2>1. mount' \in {mount, [mount EXCEPT ![d] = NoKey]}
    BY DEF Move, NextMove, CopyOut, RemoveOut, EndMove
  <2>2. moving' = moving \/ \E n \in OutNames \cup {NoName} : moving' = [moving EXCEPT ![d] = n]
    BY DEF Move, NextMove, CopyOut, RemoveOut, todoVars, IoShape, Outs
  <2>3. mount'[c] = mount[c] /\ moving'[c] = moving[c]
    BY <1>3, <2>1, <2>2 DEF IoShape, Threads, Outs
  <2> QED
    BY <1>1, <1>3, <2>3, MovingKept
<1>4. CASE c = d
  <2>1. Placed(c)
    BY <1>1, <1>4 DEF Moving
  <2>2. CASE NextMove(c)
    <3>1. \/ UNCHANGED mount /\ \E step \in {"copy", "dead"} : Goto(c, step)
          \/ Goto(c, "ready")
      BY <2>2 DEF NextMove, EndMove
    <3> QED
      BY <1>1, <1>2, <2>1, <3>1 DEF Moving, Placed, MovingOut, Goto, IoShape, Threads
  <2>3. CASE RemoveOut(c)
    <3>1. UNCHANGED mount /\ \E step \in {"next", "dead"} : Goto(c, step)
      BY <2>3 DEF RemoveOut, EndMove
    <3> QED
      BY <1>1, <1>2, <2>1, <3>1 DEF Moving, Placed, MovingOut, Goto, IoShape, Threads
  <2>4. CASE CopyOut(c)
    <3>1. pc[c] = "copy" /\ Goto(c, "remove") /\ UNCHANGED todoVars
      BY <2>4 DEF CopyOut
    <3>2. /\ moving[c] \in OutNames /\ moving'[c] = moving[c]
          /\ job[c].key \in Keys /\ mount[c] \in {job[c].key, NoKey, Gone}
      BY <2>1, <3>1 DEF IoShape, Outs, Threads, Resting, todoVars, Placed
    <3>3. \/ /\ UNCHANGED mount /\ mount[c] \in Keys
             /\ \E whole \in BOOLEAN :
                  /\ WrittenTo(mount[c], moving[c], whole)
                  /\ whole \/ moving[c] \in spoiled'
          \/ UNCHANGED mount /\ mount[c] = NoKey
          \/ mount' = [mount EXCEPT ![c] = NoKey] /\ job[c].key \in excused'
          \/ /\ mount' = [mount EXCEPT ![c] = NoKey] /\ mount[c] \in Keys
             /\ mount[c] \in excused'
      <4>1. sas_out[moving[c]] \in {"absent", "writing", "whole"}
        BY <3>2 DEF IoShape, Outs
      <4> QED
        BY <2>4, <4>1 DEF CopyOut, WrittenTo
    <3>4. /\ Placed(c)'
          /\ \/ job[c].key \in excused'
             \/ \E whole \in BOOLEAN :
                  /\ WrittenTo(job[c].key, moving[c], whole)
                  /\ whole \/ moving[c] \in spoiled'
      <4>1. CASE mount[c] \in Keys
        <5>1. mount[c] = job[c].key
          BY <3>2, <4>1, IoAssumption
        <5>2. mount[c] # NoKey
          BY <4>1, IoAssumption
        <5>3. CASE UNCHANGED mount
          BY <1>1, <1>2, <2>1, <3>2, <3>3, <5>1, <5>2, <5>3 DEF Placed, IoShape, Threads
        <5>4. CASE mount' = [mount EXCEPT ![c] = NoKey] /\ job[c].key \in excused'
          <6>1. mount'[c] = NoKey
            BY <5>4 DEF IoShape, Threads
          <6> QED
            BY <1>1, <5>4, <6>1 DEF Placed
        <5> QED
          BY <3>3, <5>1, <5>2, <5>3, <5>4
      <4>2. CASE mount[c] \notin Keys
        <5>1. job[c].key \in excused'
          BY <1>2, <2>1, <3>2, <4>2 DEF Placed
        <5>2. mount'[c] \in {mount[c], NoKey}
          BY <3>3, <4>2 DEF IoShape, Threads
        <5> QED
          BY <1>1, <2>1, <3>2, <5>1, <5>2 DEF Placed
      <4> QED
        BY <4>1, <4>2
    <3>5. Delivered(moving[c], job[c].key)'
      <4>1. CASE job[c].key \in excused'
        BY <1>1, <4>1 DEF Delivered
      <4>2. ASSUME NEW whole \in BOOLEAN, WrittenTo(job[c].key, moving[c], whole),
                   whole \/ moving[c] \in spoiled'
            PROVE  Delivered(moving[c], job[c].key)'
        <5>1. LET copy == onKey'[job[c].key][OutNameOf[moving[c]]]
              IN copy # Absent /\ copy.of = moving[c] /\ copy.whole = whole
          BY <3>2, <4>2, WrittenIs
        <5> QED
          BY <1>1, <3>2, <4>2, <5>1 DEF Delivered, Kept
      <4> QED
        BY <3>4, <4>1, <4>2
    <3> QED
      BY <3>4, <3>5 DEF Moving
  <2> QED
    BY <1>4, <2>2, <2>3, <2>4 DEF Move
<1> QED
  BY <1>3, <1>4

LEMMA MovingStays ==
  ASSUME IoShape, [Next]_vars, NEW c \in Clients, Moving(c) PROVE Moving(c)'
<1>1. CASE UNCHANGED vars
  BY <1>1 DEF vars, todoVars, outVars, Moving, Placed, Delivered, Kept
<1> QED
  BY <1>1, NextIs, MovingWorld, MovingLoop, MovingReading, MovingMove

LEMMA MovesAre ==
  Moves <=> (\A c \in Clients : Moving(c)) /\ (\A s \in sent : Delivered(s[1], s[2]))
BY DEF Moves, Moving, Placed, SentIsOnKey, Delivered, Kept

LEMMA MovesStay == IoShape /\ Moves /\ [Next]_vars => Moves'
<1> SUFFICES ASSUME IoShape, Moves, [Next]_vars PROVE Moves'
  OBVIOUS
<1>1. (\A c \in Clients : Moving(c)) /\ (\A s \in sent : Delivered(s[1], s[2]))
  BY MovesAre
<1>2. \A c \in Clients : Moving(c)'
  BY <1>1, MovingStays
<1>3. ASSUME NEW s \in sent' PROVE Delivered(s[1], s[2])'
  <2>1. CASE s \in sent
    <3>1. s[1] \in OutNames /\ s[2] \in Keys
      BY <2>1 DEF IoShape, Outs
    <3>2. Delivered(s[1], s[2])
      BY <1>1, <2>1
    <3> QED
      BY <3>1, <3>2, DeliveredStays
  <2>2. ASSUME NEW c \in Clients, pc[c] = "remove", UNCHANGED <<onKey, spoiled, excused>>,
               s = <<moving[c], job[c].key>>
        PROVE  Delivered(s[1], s[2])'
    BY <1>1, <2>2 DEF Moving, MovingOut, Delivered, Kept
  <2> QED
    BY <1>3, <2>1, <2>2, SentSteps
<1>4. ((\A c \in Clients : Moving(c)) /\ (\A s \in sent : Delivered(s[1], s[2])))'
  BY <1>2, <1>3
<1> QED
  BY <1>4, MovesAre, PTL

(* A file that left sas_out is whole on the key it was moved to, or lies    *)
(* under another one that is written the same, unless it was moved while    *)
(* keysas-out wrote it, or something happened to the key.                   *)
THEOREM SentStaysOnKey == Spec => []SentIsOnKey
<1>1. Init => Moves
  BY DEF Init, Moves, MovingOut, SentIsOnKey
<1>2. IoShape /\ Moves /\ [Next]_vars => Moves'
  BY MovesStay
<1>3. Moves => SentIsOnKey
  BY DEF Moves
<1> QED
  BY <1>1, <1>2, <1>3, IoShapeHolds, PTL DEF Spec

------------------------------------------------------------------------------
(* What reached sas_in is whole. *)

(* The steps that open, rename or end the writing of no file. *)
Undisturbed ==
  /\ UNCHANGED <<tmp, sas_in, shared>>
  /\ \A c \in Clients, f \in Files : worker'[c][f].at \in Holding =>
       /\ worker[c][f].at \in Holding /\ worker'[c][f].on = worker[c][f].on
       /\ worker'[c][f].at = "renaming" => worker[c][f].at = "renaming"

LEMMA SettlingIsQuiet ==
  ASSUME IoShape, NEW c \in Clients, NEW f \in Files, UNCHANGED <<tmp, sas_in, shared>>,
         NEW step \in {"walked", "lost", "failing", "unmounting", "failed", "dropped"},
         At(c, f, step)
  PROVE  Undisturbed
<1>1. step \in WorkerSteps /\ step \notin Holding
  BY DEF WorkerSteps, Finished, Holding
<1>2. /\ worker'[c][f].at = step
      /\ \A d \in Clients, g \in Files :
           d # c \/ g # f => worker'[d][g] = worker[d][g]
  BY <1>1, AtIs DEF IoShape, Workers
<1> QED
  BY <1>1, <1>2 DEF Undisturbed

LEMMA SpoolSteps ==
  ASSUME IoShape, [Next]_vars
  PROVE  \/ Undisturbed
         \/ \E c \in Clients, f \in Files :
              \/ StartCopy(c, f) \/ EndCopy(c, f)
              \/ Rename(c, f) /\ tmp[NameOf[f]] # Absent
<1>1. UNCHANGED <<worker, tmp, sas_in, shared>> => Undisturbed
  BY DEF Undisturbed
<1>2. UNCHANGED vars => Undisturbed
  BY <1>1 DEF vars, spoolVars
<1>3. CASE World
  <2>1. UNCHANGED <<spoolVars, shared>>
    BY <1>3, WorldKeeps DEF worldFrame
  <2>2. ASSUME NEW n \in Nodes, Pull(n) PROVE Undisturbed
    <3>1. ASSUME NEW c \in Clients, NEW f \in Files, worker'[c][f].at \in Holding
          PROVE  /\ worker[c][f].at \in Holding /\ worker'[c][f].on = worker[c][f].on
                 /\ worker'[c][f].at = "renaming" => worker[c][f].at = "renaming"
      <4>1. \/ worker'[c][f] = worker[c][f]
            \/ /\ worker[c][f].at = "copying"
               /\ worker'[c][f] = [at |-> "broken", on |-> worker[c][f].on]
        BY <2>2, PullIs DEF IoShape, Workers
      <4> QED
        BY <3>1, <4>1 DEF Holding
    <3> QED
      BY <2>1, <3>1 DEF Undisturbed, spoolVars
  <2>3. UNCHANGED worker \/ \E n \in Nodes : Pull(n)
    BY <1>3 DEF World, Open, Close, Insert, OutCreate, OutFinish
  <2> QED
    BY <1>1, <2>1, <2>2, <2>3 DEF spoolVars
<1>4. ASSUME NEW c \in Clients, Loop(c) PROVE Undisturbed
  BY <1>1, <1>4, LoopKeeps DEF loopFrame, spoolVars
<1>5. ASSUME NEW c \in Clients, NEW f \in Files,
             \/ Walk(c, f) \/ FailCopy(c, f) \/ Report(c, f) \/ Swallow(c, f)
             \/ EarlyUnmount(c, f)
             \/ Rename(c, f) /\ tmp[NameOf[f]] = Absent
      PROVE  Undisturbed
  <2>1. CASE \/ Walk(c, f) \/ FailCopy(c, f) \/ Report(c, f) \/ Swallow(c, f)
             \/ EarlyUnmount(c, f)
    BY <1>1, <2>1, WorkerActions, SettlingIsQuiet
  <2>2. CASE Rename(c, f) /\ tmp[NameOf[f]] = Absent
    <3>1. At(c, f, "lost") /\ UNCHANGED <<tmp, sas_in, shared>>
      BY <2>2 DEF Rename
    <3> QED
      BY <3>1, SettlingIsQuiet
  <2> QED
    BY <1>5, <2>1, <2>2
<1>6. ASSUME NEW c \in Clients, Worker(c)
      PROVE  \/ Undisturbed
             \/ \E f \in Files : \/ StartCopy(c, f) \/ EndCopy(c, f)
                                 \/ Rename(c, f) /\ tmp[NameOf[f]] # Absent
  <2>1. CASE WalkFails(c)
    <3>1. UNCHANGED <<spoolVars, shared>>
      BY <2>1, WalkFailsIs DEF IoShape, Workers
    <3>2. ASSUME NEW d \in Clients, NEW f \in Files, worker'[d][f].at \in Holding
          PROVE  worker'[d][f] = worker[d][f]
      <4>1. \/ worker'[d][f] = worker[d][f]
            \/ worker'[d][f] = [at |-> "dropped", on |-> worker[d][f].on]
        BY <2>1, WalkFailsIs DEF IoShape, Workers
      <4> QED
        BY <3>2, <4>1 DEF Holding
    <3> QED
      BY <3>1, <3>2 DEF Undisturbed, spoolVars
  <2> QED
    BY <1>5, <1>6, <2>1 DEF Worker
<1>7. ASSUME NEW c \in Clients, Ending(c) PROVE Undisturbed
  <2>1. UNCHANGED <<spoolVars, shared>>
    BY <1>7 DEF Ending, Join, Unlock, RemoveLock
  <2>2. worker' \in {worker, [worker EXCEPT ![c] = [f \in Files |-> NotStarted]]}
    BY <1>7 DEF Ending, Join, Unlock, RemoveLock
  <2> QED
    BY <2>1, <2>2 DEF Undisturbed, spoolVars, IoShape, Workers, NotStarted, Holding
<1>8. ASSUME NEW c \in Clients, Move(c) PROVE Undisturbed
  BY <1>1, <1>8, MoveIs DEF IoShape, spoolVars
<1> QED
  BY <1>2, <1>3, <1>4, <1>6, <1>7, <1>8, NextIs

(* One worker's part of Alone. *)
Own(c, f) ==
  Holder(c, f) /\ NameOf[f] \notin shared =>
    /\ worker[c][f].on = "tmp"
    /\ tmp[NameOf[f]].by = {f}
    /\ worker[c][f].at = "renaming" => tmp[NameOf[f]].whole

LEMMA AloneQuiet ==
  ASSUME Alone, WholeUnlessShared, Undisturbed PROVE Alone' /\ WholeUnlessShared'
BY DEF Alone, Together, Holder, Undisturbed, WholeUnlessShared

LEMMA AloneStart ==
  ASSUME IoShape, Alone, WholeUnlessShared,
         NEW c \in Clients, NEW f \in Files, StartCopy(c, f),
         NEW step \in {"broken", "copying"},
         worker' = [worker EXCEPT ![c][f] = Started(step)],
         tmp' = [tmp EXCEPT ![NameOf[f]] =
                   [by |-> {f} \cup OthersOn(NameOf[f]), whole |-> FALSE]],
         shared \subseteq shared', sas_in' = sas_in,
         OnTmp(NameOf[f]) # {} => shared' = shared \cup {NameOf[f]}
  PROVE  Alone' /\ WholeUnlessShared'
<1>1. Started(step) \in WorkerStates
  BY DEF Started, WorkerStates
<1>2. /\ worker'[c][f] = Started(step)
      /\ \A d \in Clients, g \in Files :
           d # c \/ g # f => worker'[d][g] = worker[d][g]
  BY <1>1, StartIs DEF IoShape, Workers
<1>3. NameOf[f] \in Names /\ \A g \in Files : NameOf[g] \in Names
  BY IoAssumption
<1>4. ASSUME NEW d \in Clients, NEW g \in Files,
             Holder(d, g), worker[d][g].on = "tmp", NameOf[g] = NameOf[f]
      PROVE  NameOf[f] \in shared'
  <2> DEFINE w == <<d, g>>
  <2>1. w \in Clients \X Files /\ w[1] = d /\ w[2] = g
    OBVIOUS
  <2>2. w \in OnTmp(NameOf[f])
    BY <1>4, <2>1 DEF OnTmp, Holder, Holding
  <2> QED
    BY <2>2
<1>5. ASSUME NEW d \in Clients, NEW e \in Clients, NEW g \in Files, NEW h \in Files,
             Together(d, g, e, h)'
      PROVE  NameOf[g] \in shared'
  <2>1. d # e \/ g # h
    BY <1>5 DEF Together
  <2>2. CASE d = c /\ g = f
    BY <1>2, <1>4, <1>5, <2>1, <2>2 DEF Together, Holder
  <2>3. CASE e = c /\ h = f
    BY <1>2, <1>4, <1>5, <2>1, <2>3 DEF Together, Holder
  <2>4. CASE (d # c \/ g # f) /\ (e # c \/ h # f)
    <3>1. Together(d, g, e, h)
      BY <1>2, <1>5, <2>4 DEF Together, Holder
    <3> QED
      BY <3>1 DEF Alone
  <2> QED
    BY <2>2, <2>3, <2>4
<1>6. ASSUME NEW d \in Clients, NEW g \in Files, Holder(d, g)', NameOf[g] \notin shared'
      PROVE  /\ worker'[d][g].on = "tmp" /\ tmp'[NameOf[g]].by = {g}
             /\ worker'[d][g].at = "renaming" => tmp'[NameOf[g]].whole
  <2>1. CASE d = c /\ g = f
    <3>1. worker'[c][f].on = "tmp" /\ worker'[c][f].at # "renaming"
      BY <1>2 DEF Started
    <3>2. OnTmp(NameOf[f]) = {}
      BY <1>6, <2>1
    <3>3. OthersOn(NameOf[f]) = {}
      BY <3>2 DEF OthersOn
    <3>4. tmp'[NameOf[f]].by = {f}
      BY <1>3, <3>3 DEF IoShape, Spools
    <3> QED
      BY <2>1, <3>1, <3>4
  <2>2. CASE d # c \/ g # f
    <3>1. worker'[d][g] = worker[d][g] /\ Holder(d, g) /\ NameOf[g] \notin shared
      BY <1>2, <1>6, <2>2 DEF Holder
    <3>2. Own(d, g)
      BY DEF Alone, Own
    <3>3. NameOf[g] # NameOf[f]
      BY <1>4, <1>6, <3>1, <3>2 DEF Own
    <3>4. tmp'[NameOf[g]] = tmp[NameOf[g]]
      BY <1>3, <3>3 DEF IoShape, Spools
    <3> QED
      BY <3>1, <3>2, <3>4 DEF Own
  <2> QED
    BY <2>1, <2>2
<1>7. WholeUnlessShared'
  BY DEF WholeUnlessShared
<1> QED
  BY <1>5, <1>6, <1>7 DEF Alone

LEMMA AloneEnd ==
  ASSUME IoShape, Alone, WholeUnlessShared,
         NEW c \in Clients, NEW f \in Files, EndCopy(c, f)
  PROVE  Alone' /\ WholeUnlessShared'
<1>1. "renaming" \in WorkerSteps
  BY DEF WorkerSteps
<1>2. /\ worker[c][f].at = "copying" /\ UNCHANGED shared
      /\ worker'[c][f].at = "renaming" /\ worker'[c][f].on = worker[c][f].on
      /\ \A d \in Clients, g \in Files :
           d # c \/ g # f => worker'[d][g] = worker[d][g]
  BY <1>1, EndIs, AtIs DEF IoShape, Workers
<1>3. NameOf[f] \in Names /\ \A g \in Files : NameOf[g] \in Names
  BY IoAssumption
<1>4. Holder(c, f)
  BY <1>2 DEF Holder, Holding
<1>5. ASSUME NEW d \in Clients, NEW g \in Files
      PROVE  /\ Holder(d, g)' => Holder(d, g)
             /\ worker'[d][g].on = worker[d][g].on
  BY <1>2, <1>4 DEF Holder
<1>6. \A d, e \in Clients, g, h \in Files :
        Together(d, g, e, h)' => NameOf[g] \in shared'
  BY <1>2, <1>5 DEF Together, Alone
<1>7. CASE NameOf[f] \in shared
  <2>1. \A n \in Names : n # NameOf[f] => tmp'[n] = tmp[n] /\ sas_in'[n] = sas_in[n]
    <3>1. \A n \in Names : n # NameOf[f] => tmp'[n] = tmp[n]
      <4>1. CASE worker[c][f].on = "tmp"
        <5>1. PICK b \in BOOLEAN :
                /\ ~WritesTogether(c, f) /\ tmp[NameOf[f]].by = {f} => b
                /\ tmp' = [tmp EXCEPT ![NameOf[f]] =
                             [by |-> tmp[NameOf[f]].by, whole |-> b]]
          BY <4>1, EndIs, Zenon DEF IoShape
        <5> QED
          BY <5>1 DEF IoShape, Spools
      <4> QED
        BY <4>1, EndIs DEF IoShape
    <3>2. \A n \in Names : n # NameOf[f] => sas_in'[n] = sas_in[n]
      <4>1. CASE worker[c][f].on = "in"
        <5>1. PICK b \in BOOLEAN :
                sas_in' = [sas_in EXCEPT ![NameOf[f]] =
                             [by |-> sas_in[NameOf[f]].by, whole |-> b]]
          BY <4>1, EndIs, Zenon DEF IoShape
        <5> QED
          BY <5>1 DEF IoShape, Spools
      <4> QED
        BY <4>1, EndIs DEF IoShape
    <3> QED
      BY <3>1, <3>2
  <2>2. WholeUnlessShared'
    BY <1>2, <1>7, <2>1 DEF WholeUnlessShared
  <2>3. ASSUME NEW d \in Clients, NEW g \in Files, Holder(d, g)', NameOf[g] \notin shared'
        PROVE  /\ worker'[d][g].on = "tmp" /\ tmp'[NameOf[g]].by = {g}
               /\ worker'[d][g].at = "renaming" => tmp'[NameOf[g]].whole
    <3>1. NameOf[g] # NameOf[f] /\ NameOf[g] \notin shared /\ (d # c \/ g # f)
      BY <1>2, <1>7, <2>3
    <3>2. worker'[d][g] = worker[d][g] /\ tmp'[NameOf[g]] = tmp[NameOf[g]]
      BY <1>2, <1>3, <2>1, <3>1
    <3>3. Holder(d, g) /\ Own(d, g)
      BY <1>5, <2>3 DEF Alone, Own
    <3> QED
      BY <3>1, <3>2, <3>3 DEF Own
  <2> QED
    BY <1>6, <2>2, <2>3 DEF Alone
<1>8. CASE NameOf[f] \notin shared
  <2>1. worker[c][f].on = "tmp" /\ tmp[NameOf[f]].by = {f}
    BY <1>4, <1>8 DEF Alone
  <2>2. ASSUME NEW d \in Clients, NEW g \in Files, d # c \/ g # f,
               Holder(d, g), worker[d][g].on = "tmp", NameOf[g] = NameOf[f]
        PROVE  FALSE
    <3>1. Together(c, f, d, g)
      BY <1>4, <2>1, <2>2 DEF Together
    <3> QED
      BY <1>8, <3>1 DEF Alone
  <2>3. ~WritesTogether(c, f)
    <3> SUFFICES ASSUME NEW w \in Clients \X Files,
                        w # <<c, f>>, NameOf[w[2]] = NameOf[f],
                        worker[w[1]][w[2]].at \in {"copying", "broken"},
                        worker[w[1]][w[2]].on = worker[c][f].on
                 PROVE  FALSE
      BY Zenon DEF WritesTogether
    <3>1. w[1] \in Clients /\ w[2] \in Files /\ (w[1] # c \/ w[2] # f)
      OBVIOUS
    <3>2. Holder(w[1], w[2])
      BY DEF Holder, Holding
    <3> QED
      BY <2>1, <2>2, <3>1, <3>2
  <2>4. PICK b \in BOOLEAN :
          /\ ~WritesTogether(c, f) /\ tmp[NameOf[f]].by = {f} => b
          /\ tmp' = [tmp EXCEPT ![NameOf[f]] =
                       [by |-> tmp[NameOf[f]].by, whole |-> b]]
    BY <2>1, EndIs, Zenon DEF IoShape
  <2>5. tmp' = [tmp EXCEPT ![NameOf[f]] = [by |-> {f}, whole |-> TRUE]]
    <3>1. b = TRUE
      BY <2>1, <2>3, <2>4
    <3> QED
      BY <2>1, <2>4, <3>1
  <2>6. /\ tmp'[NameOf[f]].by = {f} /\ tmp'[NameOf[f]].whole
        /\ \A n \in Names : n # NameOf[f] => tmp'[n] = tmp[n]
    BY <1>3, <2>5 DEF IoShape, Spools
  <2>7. sas_in' = sas_in
    BY <2>1, EndIs DEF IoShape
  <2>8. ASSUME NEW d \in Clients, NEW g \in Files, Holder(d, g)', NameOf[g] \notin shared'
        PROVE  /\ worker'[d][g].on = "tmp" /\ tmp'[NameOf[g]].by = {g}
               /\ worker'[d][g].at = "renaming" => tmp'[NameOf[g]].whole
    <3>1. CASE d = c /\ g = f
      BY <1>2, <2>1, <2>6, <3>1
    <3>2. CASE d # c \/ g # f
      <4>1. worker'[d][g] = worker[d][g] /\ Holder(d, g) /\ Own(d, g)
            /\ NameOf[g] \notin shared
        BY <1>2, <1>5, <2>8, <3>2 DEF Alone, Own
      <4>2. NameOf[g] # NameOf[f]
        BY <2>2, <3>2, <4>1 DEF Own
      <4>3. tmp'[NameOf[g]] = tmp[NameOf[g]]
        BY <1>3, <2>6, <4>2
      <4> QED
        BY <4>1, <4>3 DEF Own
    <3> QED
      BY <3>1, <3>2
  <2> QED
    BY <1>2, <1>6, <2>7, <2>8 DEF Alone, WholeUnlessShared
<1> QED
  BY <1>7, <1>8

LEMMA AloneRename ==
  ASSUME IoShape, Alone, WholeUnlessShared,
         NEW c \in Clients, NEW f \in Files, Rename(c, f), tmp[NameOf[f]] # Absent
  PROVE  Alone' /\ WholeUnlessShared'
<1>1. /\ worker[c][f].at = "renaming" /\ UNCHANGED shared
      /\ sas_in' = [sas_in EXCEPT ![NameOf[f]] = tmp[NameOf[f]]]
      /\ tmp' = [tmp EXCEPT ![NameOf[f]] = Absent]
  BY DEF Rename
<1>2. NameOf[f] \in Names /\ \A g \in Files : NameOf[g] \in Names
  BY IoAssumption
<1>3. Holder(c, f)
  BY <1>1 DEF Holder, Holding
<1>4. /\ worker'[c][f] = [at |-> "moved", on |-> "gone"]
      /\ \A d \in Clients, g \in Files : d # c \/ g # f =>
           worker'[d][g] = Followed(worker[d][g], g, NameOf[f])
  BY RenameIs DEF IoShape, Workers
<1>5. ASSUME NEW d \in Clients, NEW g \in Files, Holder(d, g)'
      PROVE  /\ d # c \/ g # f
             /\ Holder(d, g)
             /\ NameOf[g] = NameOf[f] => worker'[d][g].on # "tmp"
             /\ NameOf[g] # NameOf[f] => worker'[d][g] = worker[d][g]
  <2>1. d # c \/ g # f
    BY <1>4, <1>5 DEF Holder, Holding
  <2>2. worker'[d][g] = Followed(worker[d][g], g, NameOf[f])
    BY <1>4, <2>1
  <2> QED
    BY <1>5, <2>1, <2>2 DEF Followed, Holder
<1>6. \A d, e \in Clients, g, h \in Files :
        Together(d, g, e, h)' => NameOf[g] \in shared'
  BY <1>1, <1>5 DEF Together, Alone
<1>7. ASSUME NEW d \in Clients, NEW g \in Files, Holder(d, g)', NameOf[g] \notin shared'
      PROVE  /\ worker'[d][g].on = "tmp" /\ tmp'[NameOf[g]].by = {g}
             /\ worker'[d][g].at = "renaming" => tmp'[NameOf[g]].whole
  <2>1. (d # c \/ g # f) /\ Holder(d, g) /\ Own(d, g) /\ Own(c, f)
    BY <1>5, <1>7 DEF Alone, Own
  <2>2. NameOf[g] # NameOf[f]
    <3> SUFFICES ASSUME NameOf[g] = NameOf[f] PROVE FALSE
      OBVIOUS
    <3>1. Together(c, f, d, g)
      BY <1>1, <1>3, <1>7, <2>1 DEF Own, Together
    <3> QED
      BY <1>1, <1>7, <3>1 DEF Alone
  <2>3. worker'[d][g] = worker[d][g] /\ tmp'[NameOf[g]] = tmp[NameOf[g]]
    BY <1>1, <1>2, <1>5, <1>7, <2>2 DEF IoShape, Spools
  <2> QED
    BY <1>1, <1>7, <2>1, <2>3 DEF Own
<1>8. WholeUnlessShared'
  <2> SUFFICES ASSUME NEW n \in Names, sas_in'[n] # Absent
               PROVE  sas_in'[n].whole \/ n \in shared'
    BY DEF WholeUnlessShared
  <2>1. CASE n = NameOf[f]
    <3>1. sas_in'[n] = tmp[NameOf[f]]
      BY <1>1, <1>2, <2>1 DEF IoShape, Spools
    <3>2. NameOf[f] \notin shared => tmp[NameOf[f]].whole
      BY <1>1, <1>3 DEF Alone
    <3> QED
      BY <1>1, <2>1, <3>1, <3>2
  <2>2. CASE n # NameOf[f]
    <3>1. sas_in'[n] = sas_in[n]
      BY <1>1, <1>2, <2>2 DEF IoShape, Spools
    <3> QED
      BY <1>1, <3>1 DEF WholeUnlessShared
  <2> QED
    BY <2>1, <2>2
<1> QED
  BY <1>6, <1>7, <1>8 DEF Alone

LEMMA AloneStays ==
  IoShape /\ Alone /\ WholeUnlessShared /\ [Next]_vars => Alone' /\ WholeUnlessShared'
<1> SUFFICES ASSUME IoShape, Alone, WholeUnlessShared, [Next]_vars
             PROVE  Alone' /\ WholeUnlessShared'
  OBVIOUS
<1>1. ASSUME NEW c \in Clients, NEW f \in Files, StartCopy(c, f)
      PROVE  Alone' /\ WholeUnlessShared'
  <2>1. CASE At(c, f, "lost") /\ UNCHANGED <<tmp, shared, sas_in>>
    BY <2>1, SettlingIsQuiet, AloneQuiet
  <2>2. ASSUME NEW step \in {"broken", "copying"},
               worker' = [worker EXCEPT ![c][f] = Started(step)],
               tmp' = [tmp EXCEPT ![NameOf[f]] =
                         [by |-> {f} \cup OthersOn(NameOf[f]), whole |-> FALSE]],
               shared \subseteq shared', sas_in' = sas_in,
               OnTmp(NameOf[f]) # {} => shared' = shared \cup {NameOf[f]}
        PROVE  Alone' /\ WholeUnlessShared'
    BY <1>1, <2>2, AloneStart
  <2> QED
    BY <1>1, <2>1, <2>2, StartCopyIs
<1> QED
  BY <1>1, SpoolSteps, AloneQuiet, AloneEnd, AloneRename

(* What keysas-in may open in sas_in is a whole file, though the key is     *)
(* pulled out, cannot be read or is unmounted at any moment of the copying, *)
(* unless two workers used the same name of TMP_DIR at the same time.       *)
THEOREM CopiesAreWhole == Spec => []WholeUnlessShared
<1>1. Init => Alone /\ WholeUnlessShared
  BY DEF Init, Alone, Together, Holder, Holding, NotStarted, WholeUnlessShared
<1>2. IoShape /\ Alone /\ WholeUnlessShared /\ [Next]_vars => Alone' /\ WholeUnlessShared'
  BY AloneStays
<1> QED
  BY <1>1, <1>2, IoShapeHolds, PTL DEF Spec

------------------------------------------------------------------------------
(* What is lost leaves a trace. *)

Traced(c) ==
  /\ pc[c] \in Reading /\ mount[c] = NoKey => Reported(job[c].key)
  /\ pc[c] = "panic" => mount[c] \notin Keys \/ AllMet(c)
  /\ pc[c] = "unlock" => AllMet(c)
  /\ \A f \in Files :
       /\ worker[c][f].at \in {"unmounting", "failed"} => NameOf[f] \in reports
       /\ worker[c][f].at = "lost" => mount[c] \notin Keys \/ NameOf[f] \in shared

(* What a worker may become without losing the trace. *)
Follows(c, f) ==
  \/ worker'[c][f].at = worker[c][f].at
  \/ /\ worker'[c][f].at # "none"
     /\ worker'[c][f].at \in {"unmounting", "failed"} => NameOf[f] \in reports'
     /\ worker'[c][f].at = "lost" => mount'[c] \notin Keys \/ NameOf[f] \in shared'

LEMMA TracedGoesOn ==
  ASSUME IoShape, NEW c \in Clients, Traced(c), job'[c] = job[c],
         reports \subseteq reports', shared \subseteq shared',
         \A f \in Files : Follows(c, f),
         \/ mount'[c] = mount[c] \/ mount'[c] = Gone
         \/ mount'[c] = NoKey /\ Reported(job[c].key)',
         \/ pc'[c] = pc[c]
         \/ pc[c] = "walk" /\ pc'[c] = "panic" /\ (mount'[c] \notin Keys \/ AllMet(c)')
  PROVE  Traced(c)'
<1>1. mount[c] \notin Keys => mount'[c] \notin Keys
  BY IoAssumption
<1>2. pc'[c] \in Reading /\ mount'[c] = NoKey => Reported(job[c].key)'
  <2> SUFFICES ASSUME pc'[c] \in Reading, mount'[c] = NoKey PROVE Reported(job[c].key)'
    OBVIOUS
  <2>1. CASE mount'[c] = mount[c]
    <3>1. pc[c] \in Reading
      BY DEF Reading
    <3> QED
      BY <2>1, <3>1 DEF Traced, Reported
  <2>2. CASE Reported(job[c].key)'
    BY <2>2 DEF Reported
  <2> QED
    BY <2>1, <2>2, IoAssumption
<1>6. pc[c] \in {"panic", "unlock"} /\ AllMet(c) => AllMet(c)'
  <2> SUFFICES ASSUME pc[c] \in {"panic", "unlock"}, AllMet(c), NEW f \in Holds[job[c].key]
               PROVE  worker'[c][f].at # "none"
    BY DEF AllMet
  <2>1. f \in Files
    BY IoAssumption DEF IoShape, Threads, Resting
  <2>2. worker[c][f].at # "none"
    BY DEF AllMet
  <2> QED
    BY <2>1, <2>2 DEF Follows
<1>3. pc'[c] = "panic" => mount'[c] \notin Keys \/ AllMet(c)'
  BY <1>1, <1>6 DEF Traced
<1>4. pc'[c] = "unlock" => AllMet(c)'
  BY <1>6 DEF Traced
<1>5. ASSUME NEW f \in Files
      PROVE  /\ worker'[c][f].at \in {"unmounting", "failed"} => NameOf[f] \in reports'
             /\ worker'[c][f].at = "lost" =>
                  mount'[c] \notin Keys \/ NameOf[f] \in shared'
  BY <1>1 DEF Follows, Traced
<1> QED
  BY <1>2, <1>3, <1>4, <1>5 DEF Traced

LEMMA TracedWorld ==
  ASSUME IoShape, World, NEW c \in Clients, Traced(c) PROVE Traced(c)'
<1>1. UNCHANGED <<job, spoolVars, shared>>
  BY WorldKeeps DEF worldFrame
<1>2. ASSUME NEW n \in Nodes, Pull(n) PROVE Traced(c)'
  <2>1. UNCHANGED pc /\ mount'[c] \in {mount[c], Gone}
    BY <1>2 DEF Pull
  <2>2. ASSUME NEW f \in Files PROVE Follows(c, f)
    <3>1. \/ worker'[c][f] = worker[c][f]
          \/ worker'[c][f] = [at |-> "broken", on |-> worker[c][f].on]
      BY <1>2, PullIs DEF IoShape, Workers
    <3> QED
      BY <3>1 DEF Follows
  <2> QED
    BY <1>1, <2>1, <2>2, TracedGoesOn DEF spoolVars
<1>3. CASE UNCHANGED <<worker, mount>> /\ pc'[c] = pc[c]
  BY <1>1, <1>3, TracedGoesOn DEF Follows, spoolVars
<1>4. CASE UNCHANGED <<worker, mount>> /\ pc[c] = "off" /\ pc'[c] = "idle"
  <2>1. \A f \in Files : worker[c][f].at = "none"
    BY <1>4 DEF IoShape, Workers, Reading
  <2> QED
    BY <1>4, <2>1 DEF Traced, Reading
<1>5. ASSUME NEW d \in Clients, Open(d) \/ Close(d)
      PROVE  /\ UNCHANGED <<worker, mount>>
             /\ pc'[c] = pc[c] \/ (pc[c] = "off" /\ pc'[c] = "idle")
  BY <1>5 DEF Open, Close, IoShape, Threads
<1>6. ASSUME NEW k \in Keys, NEW n \in Nodes, Insert(k, n) PROVE UNCHANGED <<worker, mount, pc>>
  BY <1>6 DEF Insert
<1>7. ASSUME NEW n \in OutNames, OutCreate(n) \/ OutFinish(n)
      PROVE  UNCHANGED <<worker, mount, pc>>
  BY <1>7 DEF OutCreate, OutFinish
<1> QED
  BY <1>2, <1>3, <1>4, <1>5, <1>6, <1>7 DEF World

LEMMA TracedLoop ==
  ASSUME IoShape, NEW c \in Clients, NEW d \in Clients, Loop(d), Traced(c)
  PROVE  Traced(c)'
<1>1. UNCHANGED <<worker, spoolVars, shared>>
  BY LoopKeeps DEF loopFrame
<1>2. /\ pc[d] \notin Reading
      /\ \A e \in Clients : e # d => pc'[e] = pc[e] /\ job'[e] = job[e]
  BY LoopIsNotReading DEF IoShape
<1>3. /\ pc'[d] \notin {"panic", "unlock"}
      /\ pc'[d] = "walk" => mount'[d] # NoKey
      /\ \A e \in Clients : e # d => mount'[e] = mount[e]
  <2> USE DEF Goto, IoShape, Threads, Reading
  <2>1. CASE HandleAdd(d) \/ HandleRemove(d)
    BY <1>2, <2>1 DEF HandleAdd, HandleRemove, SendFails
  <2>2. CASE Busy(d) \/ BusyRemove(d) \/ Admit(d)
    BY <1>2, <2>2 DEF Busy, BusyRemove, RemoveFlag, Admit, SendFails
  <2>3. CASE Ready(d) \/ ReadyRemove(d)
    BY <1>2, <2>3 DEF Ready, ReadyRemove, RemoveFlag
  <2>4. CASE MountDevice(d)
    <3>1. Mountable(job[d]) \subseteq Keys
      BY <2>4, MountableType DEF MountDevice, Resting
    <3>2. \/ UNCHANGED mount /\ pc' = [pc EXCEPT ![d] = "ready"]
          \/ /\ \E k \in Keys : mount' = [mount EXCEPT ![d] = k]
             /\ \E step \in {"walk", "next"} : pc' = [pc EXCEPT ![d] = step]
      BY <2>4, <3>1 DEF MountDevice
    <3> QED
      BY <3>2, IoAssumption
  <2> QED
    BY <2>1, <2>2, <2>3, <2>4 DEF Loop
<1>4. CASE c = d
  <2>1. \A f \in Files : worker[c][f].at = "none"
    BY <1>2, <1>4 DEF IoShape, Workers
  <2> QED
    BY <1>1, <1>3, <1>4, <2>1 DEF Traced, Reading
<1>5. CASE c # d
  BY <1>1, <1>2, <1>3, <1>5, TracedGoesOn DEF Follows, spoolVars
<1> QED
  BY <1>4, <1>5

LEMMA TracedEnding ==
  ASSUME IoShape, NEW c \in Clients, NEW d \in Clients, Ending(d), Traced(c)
  PROVE  Traced(c)'
<1>1. UNCHANGED <<spoolVars, shared>>
  BY DEF Ending, Join, Unlock, RemoveLock
<1>2. UNCHANGED job /\ \A e \in Clients : e # d => pc'[e] = pc[e]
  BY ReadingIs DEF IoShape
<1>3. CASE c # d
  <2>1. /\ mount' \in {mount, [mount EXCEPT ![d] = NoKey]}
        /\ worker' \in {worker, [worker EXCEPT ![d] = [f \in Files |-> NotStarted]]}
    BY DEF Ending, Join, Unlock, RemoveLock
  <2>2. mount'[c] = mount[c] /\ worker'[c] = worker[c]
    BY <1>3, <2>1 DEF IoShape, Threads, Workers
  <2> QED
    BY <1>1, <1>2, <1>3, <2>2, TracedGoesOn DEF Follows, spoolVars
<1>4. CASE c = d /\ pc[c] = "walk" /\ Join(c)
  <2>1. /\ UNCHANGED <<worker, mount>> /\ pc'[c] = "unlock"
        /\ \A f \in Holds[job[c].key] : worker[c][f].at # "none"
    BY <1>4 DEF Join, Goto, IoShape, Threads
  <2> QED
    BY <1>1, <1>2, <1>4, <2>1 DEF Traced, AllMet, Reading, Reported, spoolVars
<1>5. CASE c = d /\ ~(pc[c] = "walk" /\ Join(c))
  <2>1. /\ pc'[c] \notin Reading
        /\ \/ worker' = [worker EXCEPT ![c] = [f \in Files |-> NotStarted]]
           \/ UNCHANGED worker /\ pc[c] = "removeLock"
    BY <1>5 DEF Ending, Join, Unlock, RemoveLock, Goto, IoShape, Threads, Reading
  <2>2. \A f \in Files : worker'[c][f].at = "none"
    BY <2>1 DEF IoShape, Workers, Reading, NotStarted
  <2> QED
    BY <2>1, <2>2 DEF Traced, Reading
<1> QED
  BY <1>3, <1>4, <1>5

LEMMA TracedMove ==
  ASSUME IoShape, NEW c \in Clients, NEW d \in Clients, Move(d), Traced(c)
  PROVE  Traced(c)'
<1>1. /\ pc[d] \in MovingOut /\ pc'[d] \notin Reading
      /\ \A e \in Clients : e # d => pc'[e] = pc[e]
      /\ UNCHANGED <<worker, job, spoolVars, shared>>
  BY MoveIs DEF IoShape
<1>2. CASE c # d
  <2>1. mount' \in {mount, [mount EXCEPT ![d] = NoKey]}
    BY DEF Move, NextMove, CopyOut, RemoveOut, EndMove
  <2>2. mount'[c] = mount[c]
    BY <1>2, <2>1 DEF IoShape, Threads
  <2> QED
    BY <1>1, <1>2, <2>2, TracedGoesOn DEF Follows, spoolVars
<1>3. CASE c = d
  <2>1. \A f \in Files : worker[c][f].at = "none"
    BY <1>1, <1>3 DEF IoShape, Workers, Reading, MovingOut
  <2> QED
    BY <1>1, <1>3, <2>1 DEF Traced, Reading
<1> QED
  BY <1>2, <1>3

(* A worker of d goes to a step that leaves its trace. *)
LEMMA TracedAt ==
  ASSUME IoShape, NEW c \in Clients, NEW d \in Clients, NEW f \in Files, Traced(c),
         NEW step \in WorkerSteps \ {"none"}, At(d, f, step),
         UNCHANGED <<job, pc>>, reports \subseteq reports', shared \subseteq shared',
         step \in {"unmounting", "failed"} => NameOf[f] \in reports',
         step = "lost" => mount'[d] \notin Keys \/ NameOf[f] \in shared',
         \/ UNCHANGED mount
         \/ mount' = [mount EXCEPT ![d] = NoKey] /\ Reported(job[d].key)'
  PROVE  Traced(c)'
<1>1. /\ worker'[d][f].at = step
      /\ \A e \in Clients, g \in Files :
           e # d \/ g # f => worker'[e][g] = worker[e][g]
  BY AtIs DEF IoShape, Workers
<1>2. \A g \in Files : Follows(c, g)
  BY <1>1 DEF Follows
<1>3. mount'[c] = mount[c] \/ (mount'[c] = NoKey /\ Reported(job[c].key)')
  BY DEF IoShape, Threads
<1> QED
  BY <1>2, <1>3, TracedGoesOn

LEMMA TracedWorker ==
  ASSUME IoShape, Alone, NEW c \in Clients, NEW d \in Clients, Worker(d), Traced(c),
         Traced(d)
  PROVE  Traced(c)'
<1>1. UNCHANGED job
  BY ReadingKeeps DEF inFrame
<1>9. CASE WalkFails(d)
  <2>1. UNCHANGED <<mount, spoolVars, shared>>
    BY <1>9, WalkFailsIs DEF IoShape, Workers
  <2>2. ASSUME NEW g \in Files PROVE Follows(c, g)
    <3>1. \/ worker'[c][g] = worker[c][g]
          \/ worker'[c][g] = [at |-> "dropped", on |-> worker[c][g].on]
      BY <1>9, WalkFailsIs DEF IoShape, Workers
    <3> QED
      BY <3>1 DEF Follows
  <2>3. \/ pc'[c] = pc[c]
        \/ pc[c] = "walk" /\ pc'[c] = "panic" /\ AllMet(c)'
    <3>1. CASE UNCHANGED pc
      BY <3>1
    <3>2. CASE /\ Goto(d, "panic")
               /\ \A g \in Files \cap Holds[job[d].key] : worker'[d][g].at # "none"
      <4>1. pc[d] = "walk"
        BY <1>9, WalkFailsIs DEF IoShape, Workers
      <4>2. Holds[job[d].key] \subseteq Files
        BY <4>1, IoAssumption DEF IoShape, Threads, Resting
      <4> QED
        BY <1>1, <3>2, <4>1, <4>2 DEF Goto, IoShape, Threads, AllMet
    <3> QED
      BY <1>9, <3>1, <3>2, WalkFailsIs DEF IoShape, Workers
  <2> QED
    BY <1>1, <2>1, <2>2, <2>3, TracedGoesOn DEF spoolVars
<1> SUFFICES ASSUME NEW f \in Files,
                    \/ Walk(d, f) \/ StartCopy(d, f) \/ EndCopy(d, f) \/ FailCopy(d, f)
                    \/ Rename(d, f) \/ Report(d, f) \/ Swallow(d, f)
                    \/ EarlyUnmount(d, f)
             PROVE  Traced(c)'
  BY <1>9 DEF Worker
<1>2. CASE Walk(d, f)
  <2>1. UNCHANGED <<mount, reports, shared>>
    BY <1>2 DEF Walk, spoolVars
  <2>2. CASE At(d, f, "walked") /\ UNCHANGED pc
    <3>1. "walked" \in WorkerSteps \ {"none"}
      BY DEF WorkerSteps
    <3> QED
      BY <1>1, <2>1, <2>2, <3>1, TracedAt
  <2>3. CASE mount[d] \notin Keys /\ At(d, f, "lost") /\ UNCHANGED pc
    <3>1. "lost" \in WorkerSteps \ {"none"}
      BY DEF WorkerSteps, Finished
    <3> QED
      BY <1>1, <2>1, <2>3, <3>1, TracedAt
  <2>4. CASE /\ mount[d] \notin Keys /\ pc[d] = "walk"
             /\ Goto(d, "panic") /\ UNCHANGED worker
    <3>1. pc'[c] = pc[c] \/ (pc[c] = "walk" /\ pc'[c] = "panic" /\ mount'[c] \notin Keys)
      BY <2>1, <2>4 DEF Goto, IoShape, Threads
    <3>2. \A g \in Files : Follows(c, g)
      BY <2>4 DEF Follows
    <3> QED
      BY <1>1, <2>1, <3>1, <3>2, TracedGoesOn
  <2> QED
    BY <1>2, <2>2, <2>3, <2>4 DEF Walk
<1>3. CASE StartCopy(d, f)
  <2>1. UNCHANGED <<pc, mount, reports>>
    BY <1>3, StartCopyIs
  <2>2. CASE mount[d] \notin Keys /\ At(d, f, "lost") /\ UNCHANGED shared
    <3>1. "lost" \in WorkerSteps \ {"none"}
      BY DEF WorkerSteps, Finished
    <3> QED
      BY <1>1, <2>1, <2>2, <3>1, TracedAt
  <2>3. ASSUME NEW step \in {"broken", "copying"}, shared \subseteq shared',
               worker' = [worker EXCEPT ![d][f] = Started(step)]
        PROVE  Traced(c)'
    <3>1. Started(step) \in WorkerStates
      BY DEF Started, WorkerStates
    <3>2. /\ worker'[d][f] = Started(step)
          /\ \A e \in Clients, g \in Files :
               e # d \/ g # f => worker'[e][g] = worker[e][g]
      BY <2>3, <3>1, StartIs DEF IoShape, Workers
    <3>3. \A g \in Files : Follows(c, g)
      BY <3>2 DEF Follows, Started
    <3> QED
      BY <1>1, <2>1, <2>3, <3>3, TracedGoesOn
  <2> QED
    BY <1>3, <2>2, <2>3, StartCopyIs
<1>4. CASE EndCopy(d, f)
  <2>1. UNCHANGED <<reports, shared>> /\ At(d, f, "renaming")
    BY <1>4, EndIs DEF IoShape
  <2>2. UNCHANGED <<pc, mount>>
    BY <1>4, Zenon DEF EndCopy
  <2>3. "renaming" \in WorkerSteps \ {"none"}
    BY DEF WorkerSteps
  <2> QED
    BY <1>1, <2>1, <2>2, <2>3, TracedAt
<1>5. CASE FailCopy(d, f)
  <2>1. UNCHANGED <<reports, shared, pc, mount>> /\ At(d, f, "failing")
    BY <1>5 DEF FailCopy, spoolVars
  <2>2. "failing" \in WorkerSteps \ {"none"}
    BY DEF WorkerSteps
  <2> QED
    BY <1>1, <2>1, <2>2, TracedAt
<1>6. CASE Rename(d, f)
  <2>1. UNCHANGED <<reports, shared, pc, mount>>
    BY <1>6 DEF Rename
  <2>2. CASE tmp[NameOf[f]] = Absent
    <3>1. worker[d][f].at = "renaming" /\ At(d, f, "lost")
      BY <1>6, <2>2 DEF Rename
    <3>2. Holder(d, f) /\ worker[d][f].on # "tmp"
      BY <2>2, <3>1 DEF Holder, Holding, IoShape, Spools
    <3>3. NameOf[f] \in shared
      BY <3>2 DEF Alone
    <3>4. "lost" \in WorkerSteps \ {"none"}
      BY DEF WorkerSteps, Finished
    <3> QED
      BY <1>1, <2>1, <3>1, <3>3, <3>4, TracedAt
  <2>3. CASE tmp[NameOf[f]] # Absent
    <3>1. ASSUME NEW g \in Files PROVE Follows(c, g)
      <4>1. CASE c = d /\ g = f
        <5>1. worker'[d][f].at = "moved"
          BY <1>6, <2>3, RenameIs DEF IoShape, Workers
        <5> QED
          BY <4>1, <5>1 DEF Follows
      <4>2. CASE c # d \/ g # f
        <5>1. worker'[c][g] = Followed(worker[c][g], g, NameOf[f])
          BY <1>6, <2>3, <4>2, RenameIs DEF IoShape, Workers
        <5> QED
          BY <5>1 DEF Follows, Followed
      <4> QED
        BY <4>1, <4>2
    <3> QED
      BY <1>1, <2>1, <3>1, TracedGoesOn
  <2> QED
    BY <2>2, <2>3
<1>7. CASE Report(d, f)
  <2>1. /\ UNCHANGED <<shared, pc, mount>> /\ At(d, f, "unmounting")
        /\ reports' = reports \cup {NameOf[f]}
    BY <1>7 DEF Report
  <2>2. "unmounting" \in WorkerSteps \ {"none"}
    BY DEF WorkerSteps
  <2> QED
    BY <1>1, <2>1, <2>2, TracedAt
<1>8. CASE EarlyUnmount(d, f)
  <2>1. /\ worker[d][f].at = "unmounting" /\ At(d, f, "failed")
        /\ UNCHANGED <<reports, shared, pc>> /\ mount' = [mount EXCEPT ![d] = NoKey]
    BY <1>8 DEF EarlyUnmount, spoolVars
  <2>2. f \in Holds[job[d].key] /\ NameOf[f] \in reports
    BY <2>1 DEF IoShape, Workers, Traced
  <2>3. Reported(job[d].key)'
    BY <1>1, <2>1, <2>2 DEF Reported
  <2>4. "failed" \in WorkerSteps \ {"none"}
    BY DEF WorkerSteps, Finished
  <2> QED
    BY <1>1, <2>1, <2>2, <2>3, <2>4, TracedAt
<1>10. CASE Swallow(d, f)
  <2>1. UNCHANGED <<reports, shared, pc, mount>> /\ At(d, f, "dropped")
    BY <1>10 DEF Swallow, spoolVars
  <2>2. "dropped" \in WorkerSteps \ {"none"}
    BY DEF WorkerSteps, Finished
  <2> QED
    BY <1>1, <2>1, <2>2, TracedAt
<1> QED
  BY <1>2, <1>3, <1>4, <1>5, <1>6, <1>7, <1>8, <1>10

LEMMA TracesAre == Traces <=> \A c \in Clients : Traced(c)
BY DEF Traces, Traced

LEMMA TracesStay == IoShape /\ Alone /\ Traces /\ [Next]_vars => Traces'
<1> SUFFICES ASSUME IoShape, Alone, Traces, [Next]_vars PROVE Traces'
  OBVIOUS
<1>1. \A c \in Clients : Traced(c)
  BY TracesAre
<1>2. ASSUME NEW c \in Clients PROVE Traced(c)'
  <2>1. Traced(c)
    BY <1>1
  <2>2. CASE UNCHANGED vars
    BY <2>1, <2>2 DEF vars, spoolVars, Traced, AllMet, Reported
  <2> QED
    BY <1>1, <2>1, <2>2, NextIs, TracedWorld, TracedLoop, TracedEnding, TracedMove,
       TracedWorker
<1>3. (\A c \in Clients : Traced(c))'
  BY <1>2
<1> QED
  BY <1>3, TracesAre, PTL

LEMMA TracesTellLosses == IoShape /\ Traces => LossIsTraced
<1> SUFFICES ASSUME IoShape, Traces, NEW c \in Clients,
                    pc[c] \in {"unlock", "panic"}, Joined(c), mount[c] # Gone,
                    NEW f \in Holds[job[c].key],
                    ~Reported(job[c].key)
             PROVE  worker[c][f].at \in {"moved", "dropped"} \/ NameOf[f] \in shared
  BY DEF LossIsTraced, Reported
<1>1. f \in Files
  BY IoAssumption DEF IoShape, Threads, Resting
<1>2. mount[c] \in Keys
  BY DEF Traces, Reading, IoShape, Threads
<1>3. AllMet(c)
  BY <1>2 DEF Traces
<1>4. worker[c][f].at \in {"moved", "lost", "failed", "dropped"}
  BY <1>1, <1>3 DEF AllMet, Joined, Finished
<1>5. worker[c][f].at # "failed"
  BY <1>1 DEF Traces, Reported
<1> QED
  BY <1>1, <1>2, <1>4, <1>5 DEF Traces

(* When the copying of a key that stayed in ends, by a panic also, and a    *)
(* file of it did not reach sas_in, some file of the key left an .ioerror   *)
(* report, unless another worker had its name, or the code swallowed an     *)
(* error met on the way to the file, on the file or on its report: what the *)
(* early unmounting takes from the other workers never goes unreported.     *)
THEOREM LossesAreTraced == Spec => []LossIsTraced
<1>1. Init => Alone /\ WholeUnlessShared /\ Traces
  BY DEF Init, Alone, Together, Holder, Holding, NotStarted, WholeUnlessShared, Traces,
         Reading
<1>2. IoShape /\ Alone /\ WholeUnlessShared /\ [Next]_vars => Alone' /\ WholeUnlessShared'
  BY AloneStays
<1>3. IoShape /\ Alone /\ Traces /\ [Next]_vars => Traces'
  BY TracesStay
<1>4. IoShape /\ Traces => LossIsTraced
  BY TracesTellLosses
<1> QED
  BY <1>1, <1>2, <1>3, <1>4, IoShapeHolds, PTL DEF Spec

=============================================================================
