---------------------------- MODULE KeysasProgress ----------------------------
(***************************************************************************)
(* The progress tracker of keysas-in and what the station shows of it:     *)
(* keysas-in lists sas_in again and again, queues all it finds, and starts *)
(* and completes one file at a time; a lost connection cuts a pass short,  *)
(* and the next listing queues the remaining files once more.  The tracker *)
(* is written to a file at each change, which outlives keysas-in.          *)
(***************************************************************************)
EXTENDS Naturals, FiniteSets, Functions

CONSTANTS
  SpoolNames,
  IoError,            \* the name of the .ioerror report of a name, or NoName
  NoName,
  MaxPuts,            \* bound: deposits
  ProgressMaxMishaps  \* bound: lost connections, crashes, files taken away

(* The names of a directory are byte strings of bounded length.             *)
ASSUME ProgressAssumption ==
  /\ IsFiniteSet(SpoolNames)
  /\ IoError \in [SpoolNames -> SpoolNames \cup {NoName}]
  /\ NoName \notin SpoolNames
  /\ {MaxPuts, ProgressMaxMishaps} \subseteq Nat

VARIABLES
  spool,      \* the names in sas_in
  inAt,       \* where keysas-in is
  batch,      \* names of its last listing it has not come to
  handled,    \* the name it works on
  tracker,    \* its DaemonProgress
  published,  \* what progress.json says
  puts, progressMishaps,
  cut,        \* history: a pass was cut short
  gone        \* history: names that left sas_in without being sent

progressVars == <<spool, inAt, batch, handled, tracker, published, puts,
                  progressMishaps, cut, gone>>

------------------------------------------------------------------------------
(* DaemonProgress; of the queue only the number of times a name stands in   *)
(* it matters.                                                              *)
Trackers ==
  [total_files : Nat, processed_files : Nat, failed_files : Nat,
   current_file : SpoolNames \cup {NoName}, queue : [SpoolNames -> Nat],
   is_processing : BOOLEAN]

NewTracker ==
  [total_files |-> 0, processed_files |-> 0, failed_files |-> 0,
   current_file |-> NoName, queue |-> [n \in SpoolNames |-> 0],
   is_processing |-> FALSE]

QueueLength(t) == FoldFunction(LAMBDA a, b : a + b, 0, t.queue)

(* Mutant of add_files_to_queue: the files that are done are not counted.   *)
add_files_to_queueForgets(t, names) ==
  LET queue == [n \in SpoolNames |-> t.queue[n] + IF n \in names THEN 1 ELSE 0]
  IN [t EXCEPT !.queue = queue,
               !.total_files = QueueLength([t EXCEPT !.queue = queue])]

add_files_to_queue(t, names) ==
  LET queue == [n \in SpoolNames |-> t.queue[n] + IF n \in names THEN 1 ELSE 0]
  IN [t EXCEPT !.queue = queue,
               !.total_files = QueueLength([t EXCEPT !.queue = queue])
                               + t.processed_files + t.failed_files]

(* Mutant of start_next_file: the file a cut pass left stays the current one. *)
start_next_fileKeeps(t, n) ==
  [t EXCEPT !.current_file = IF @ = NoName THEN n ELSE @, !.queue[n] = 0,
            !.is_processing = TRUE]

(* Mutant of start_next_file: one entry of the queue is removed, not all.   *)
start_next_fileTakesOne(t, n) ==
  [t EXCEPT !.current_file = n, !.queue[n] = IF @ = 0 THEN 0 ELSE @ - 1,
            !.is_processing = TRUE]

start_next_file(t, n) ==
  [t EXCEPT !.current_file = n, !.queue[n] = 0, !.is_processing = TRUE]

(* Mutant of complete_current_file: at rest only when all that was counted  *)
(* is done.                                                                *)
complete_current_fileCounts(t, success) ==
  IF t.current_file = NoName THEN t
  ELSE [t EXCEPT !.current_file = NoName,
                 !.processed_files = @ + IF success THEN 1 ELSE 0,
                 !.failed_files = @ + IF success THEN 0 ELSE 1,
                 !.is_processing =
                   t.processed_files + t.failed_files + 1 < t.total_files]

complete_current_file(t, success) ==
  IF t.current_file = NoName THEN t
  ELSE [t EXCEPT !.current_file = NoName,
                 !.processed_files = @ + IF success THEN 1 ELSE 0,
                 !.failed_files = @ + IF success THEN 0 ELSE 1,
                 !.is_processing = @ /\ QueueLength(t) # 0]

(* update_progress_file                                                     *)
Publish(t) == tracker' = t /\ published' = t

------------------------------------------------------------------------------
ProgressInit ==
  /\ spool = {} /\ batch = {} /\ handled = NoName
  /\ inAt = "accept"
  /\ tracker = NewTracker /\ published = NewTracker
  /\ puts = 0 /\ progressMishaps = 0
  /\ cut = FALSE /\ gone = {}

Put(n) ==
  /\ puts < MaxPuts /\ n \notin spool
  /\ puts' = puts + 1
  /\ spool' = spool \cup {n}
  /\ UNCHANGED <<inAt, batch, handled, tracker, published, progressMishaps, cut, gone>>

TakeAway(n) ==
  /\ n \in spool /\ progressMishaps < ProgressMaxMishaps
  /\ progressMishaps' = progressMishaps + 1
  /\ spool' = spool \ {n} /\ gone' = gone \cup {n}
  /\ UNCHANGED <<inAt, batch, handled, tracker, published, puts, cut>>

(* A transit that runs connects, or is restarted until it does.             *)
SpoolAccept ==
  /\ inAt = "accept"
  /\ inAt' = "list"
  /\ UNCHANGED <<spool, batch, handled, tracker, published, puts, progressMishaps,
                 cut, gone>>

SpoolList ==
  /\ inAt = "list" /\ spool # {}
  /\ inAt' = "pass" /\ batch' = spool
  /\ Publish(add_files_to_queue(tracker, spool))
  /\ UNCHANGED <<spool, handled, puts, progressMishaps, cut, gone>>

SpoolStart(n) ==
  /\ inAt = "pass" /\ n \in batch
  /\ inAt' = "open" /\ batch' = batch \ {n} /\ handled' = n
  /\ Publish(start_next_file(tracker, n))
  /\ UNCHANGED <<spool, puts, progressMishaps, cut, gone>>

(* A file that cannot be opened or read is completed without success, and   *)
(* the empty batch is sent all the same, which a lost connection refuses.   *)
SpoolOpenFails ==
  /\ inAt = "open" /\ handled' = NoName
  /\ \E unread, broken \in {0, 1} :
       /\ (unread = 0) = (handled \notin spool)
       /\ progressMishaps' = progressMishaps + unread + broken
       /\ progressMishaps' <= ProgressMaxMishaps
       /\ \/ broken = 0 /\ inAt' = "pass" /\ UNCHANGED <<batch, cut>>
          \/ broken = 1 /\ inAt' = "accept" /\ batch' = {} /\ cut' = TRUE
  /\ Publish(complete_current_file(tracker, FALSE))
  /\ UNCHANGED <<spool, puts, gone>>

(* Otherwise its .ioerror report, if there is one, is removed.              *)
SpoolOpen ==
  LET report == {IoError[handled]} \cap spool
  IN /\ inAt = "open" /\ handled \in spool
     /\ inAt' = "send"
     /\ spool' = spool \ report /\ gone' = gone \cup report
     /\ UNCHANGED <<batch, handled, tracker, published, puts, progressMishaps, cut>>

SpoolSend ==
  /\ inAt = "send"
  /\ inAt' = "unlink"
  /\ Publish(complete_current_file(tracker, TRUE))
  /\ UNCHANGED <<spool, batch, handled, puts, progressMishaps, cut, gone>>

(* The pass is cut short; the file stays the current one.                   *)
SpoolSendFails ==
  /\ inAt = "send" /\ progressMishaps < ProgressMaxMishaps
  /\ progressMishaps' = progressMishaps + 1
  /\ inAt' = "accept" /\ batch' = {} /\ handled' = NoName
  /\ cut' = TRUE
  /\ UNCHANGED <<spool, tracker, published, puts, gone>>

SpoolUnlink ==
  /\ inAt = "unlink"
  /\ inAt' = "pass" /\ handled' = NoName
  /\ spool' = spool \ {handled}
  /\ UNCHANGED <<batch, tracker, published, puts, progressMishaps, cut, gone>>

SpoolEnd ==
  /\ inAt = "pass" /\ batch = {}
  /\ inAt' = "list"
  /\ UNCHANGED <<spool, batch, handled, tracker, published, puts, progressMishaps,
                 cut, gone>>

(* keysas-in dies and starts again, with a new tracker and the old file.    *)
(* Transit takes the end of the connection it had for a message and makes   *)
(* no other one; it had none, perhaps, when keysas-in was waiting for it.   *)
SpoolCrash ==
  /\ progressMishaps < ProgressMaxMishaps
  /\ progressMishaps' = progressMishaps + 1
  /\ inAt' \in {"orphaned"} \cup ({inAt} \cap {"accept"})
  /\ batch' = {} /\ handled' = NoName
  /\ tracker' = NewTracker
  /\ cut' = TRUE
  /\ UNCHANGED <<spool, published, puts, gone>>

(* Someone restarts transit, which connects once more.                      *)
TransitRestarts ==
  /\ inAt = "orphaned"
  /\ inAt' = "accept"
  /\ UNCHANGED <<spool, batch, handled, tracker, published, puts, progressMishaps,
                 cut, gone>>

(* The steps that go on for ever, weakly fair: keysas-in runs, and transit, *)
(* whose death is what loses a connection, is restarted and connects again. *)
(* A transit that outlived keysas-in does not: TransitRestarts is not among *)
(* them.                                                                    *)
SpoolStep ==
  \/ SpoolAccept \/ SpoolList \/ SpoolOpenFails \/ SpoolOpen \/ SpoolSend
  \/ SpoolUnlink \/ SpoolEnd
  \/ \E n \in SpoolNames : SpoolStart(n)

ProgressNext ==
  \/ SpoolStep \/ SpoolSendFails \/ SpoolCrash \/ TransitRestarts
  \/ \E n \in SpoolNames : Put(n) \/ TakeAway(n)

------------------------------------------------------------------------------
(* Each variable has a value of its type, and the tracker's current file is *)
(* the one keysas-in works on until it is sent.                             *)
ProgressTypeOK ==
  /\ spool \subseteq SpoolNames /\ batch \subseteq SpoolNames
  /\ inAt \in {"orphaned", "accept", "list", "pass", "open", "send", "unlink"}
  /\ handled \in SpoolNames \cup {NoName}
  /\ (handled # NoName) = (inAt \in {"open", "send", "unlink"})
  /\ tracker \in Trackers /\ published \in Trackers
  /\ inAt \in {"open", "send"} => tracker.current_file = handled
  /\ puts \in 0..MaxPuts /\ progressMishaps \in 0..ProgressMaxMishaps
  /\ cut \in BOOLEAN /\ gone \subseteq SpoolNames

(* During a pass the files done, the current one and those queued are not   *)
(* more than the total the percentage is taken of, though files are queued  *)
(* again after a lost connection; and as many, when no pass was cut short.  *)
CountsAddUp ==
  LET t == tracker
      current == IF inAt \in {"open", "send"} THEN 1 ELSE 0
      counted == t.processed_files + t.failed_files + current + QueueLength(t)
  IN /\ t.processed_files + t.failed_files <= t.total_files
     /\ inAt \in {"pass", "open", "send", "unlink"} => counted <= t.total_files
     /\ ~cut => counted = t.total_files

(* Between two passes the station waits for no file it will not come to: a  *)
(* name that is still queued, or current, after a pass that was cut short   *)
(* is in sas_in and will be listed again, unless it was taken away.         *)
GhostsAreGone ==
  inAt \in {"orphaned", "accept", "list"} =>
    \A n \in SpoolNames :
      tracker.queue[n] # 0 \/ tracker.current_file = n => n \in spool \cup gone

(* The station does not show keysas-in at work for ever: progress.json says *)
(* in the end that nothing is processed, whatever connection was lost and   *)
(* whatever was queued again, unless keysas-in, restarted, waits for a      *)
(* transit that will not connect, or a file left sas_in without being sent: *)
(* the tracker may then wait for that file for ever, as for the report      *)
(* removed with its file in a pass that was cut short.                      *)
WorkEnds ==
  published.is_processing ~>
    ~published.is_processing \/ inAt = "orphaned" \/ gone # {}
=============================================================================
