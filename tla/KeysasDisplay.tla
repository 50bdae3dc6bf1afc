---------------------------- MODULE KeysasDisplay ----------------------------
(***************************************************************************)
(* What the station shows of sas_out: keysas-out writes reports and files, *)
(* keysas-io takes them away, and a thread of keysas-backend lists the     *)
(* directory and reads the reports, again and again, while they do.        *)
(*                                                                         *)
(* A passage is the metadata of a file with two more flags, for the texts  *)
(* the reports of ClamAV and Yara leave: an error of either leaves none.   *)
(***************************************************************************)
EXTENDS KeysasVerdict, SequencesExt

CONSTANTS
  ShelfNames,          \* of files; none ends in .krp, as reports do
  Skipped,             \* those of hidden files and of checksums (.sha256)
  Passages,            \* the metadata files come with
  Nothing,             \* no report, no file at hand, nothing shown
  Torn,                \* a report that is created and not written
  MaxPassages,         \* bound: files that reach keysas-out
  DisplayMaxFailures   \* bound: crashes and errors of keysas-out

PassageFields == Fields \cup {"av_report", "yara_report"}

ASSUME DisplayAssumption ==
  /\ ShelfNames # {} /\ Skipped \subseteq ShelfNames
  /\ Passages \subseteq [PassageFields -> BOOLEAN]
  /\ \A p \in Passages : /\ p["av_report"] => ~p["av_pass"]
                         /\ p["yara_report"] => ~p["yara_pass"]
  /\ {MaxPassages, DisplayMaxFailures} \subseteq Nat

VARIABLES
  shelved,    \* each name: "absent", "partial" or "whole" in sas_out
  report,     \* its .krp: Nothing, Torn or the passage it tells
  outStep,    \* what keysas-out does next
  output,     \* and for what: a name and a passage
  toList,     \* paths the listing in progress has not come to
  seen,       \* the paths it has met
  toShow,     \* names not treated since it ended
  shown,      \* the last status of each name
  passages, displayFailures,
  accepted,   \* history: names under which a file was created
  told        \* history: the passages that came under each name

displayVars == <<shelved, report, outStep, output, toList, seen, toShow, shown,
                 passages, displayFailures, accepted, told>>
outVars == <<shelved, report, outStep, output, passages, displayFailures, accepted, told>>
pageVars == <<toList, seen, toShow, shown>>

Paths == ShelfNames \X {"file", "report"}

(* The reasons parse_krp looks for, in its order. *)
ReasonOrder == <<"corrupted", "toobig", "digest", "forbidden", "antivirus", "yara",
                 "specialized", "virustotal">>

Statuses == [is_valid : BOOLEAN, reason : Range(ReasonOrder) \cup {"none", "unknown"}]

ASSUME NothingShownAssumption ==
  /\ Nothing \notin Passages \cup Statuses
  /\ Torn \notin Passages

------------------------------------------------------------------------------
(* What the report of a passage says of each reason: of the two scanners it *)
(* has the text they leave, not their result.                               *)
Says(p) ==
  [corrupted |-> p["is_corrupted"], toobig |-> p["is_toobig"],
   digest |-> ~p["is_digest_ok"], forbidden |-> ~p["is_type_allowed"],
   antivirus |-> p["av_report"], yara |-> p["yara_report"],
   specialized |-> ~p["specialized_pass"], virustotal |-> ~p["vt_pass"]]

Valid == [is_valid |-> TRUE, reason |-> "none"]

(* Mutant of parse_krp: a report that gives no reason is put on VirusTotal. *)
parse_krpBlamesLast(r) ==
  IF r \notin Passages \/ (r \in Passages /\ IsValid(r)) THEN Valid
  ELSE LET i == SelectInSeq(ReasonOrder, LAMBDA why : Says(r)[why])
       IN [is_valid |-> FALSE, reason |-> IF i = 0 THEN "virustotal" ELSE ReasonOrder[i]]

(* parse_krp: a report that is not there or does not parse is a valid one,  *)
(* and one that is not valid and gives no reason is put on the digest.      *)
parse_krp(r) ==
  IF r \notin Passages \/ (r \in Passages /\ IsValid(r)) THEN Valid
  ELSE LET i == SelectInSeq(ReasonOrder, LAMBDA why : Says(r)[why])
       IN [is_valid |-> FALSE, reason |-> IF i = 0 THEN "digest" ELSE ReasonOrder[i]]

(* Mutant of Blocked: the report is believed. *)
BlockedAsTold(r) == parse_krp(r)

(* A report without a file: not valid, whatever it says. *)
Blocked(r) ==
  [is_valid |-> FALSE,
   reason |-> IF parse_krp(r).is_valid THEN "unknown" ELSE parse_krp(r).reason]

------------------------------------------------------------------------------
(* keysas-out: output_files, for one file. *)
AfterReport(p) == IF Releasable(p) THEN "create file" ELSE "idle"

Pass(n, p) ==
  /\ outStep = "idle"
  /\ passages < MaxPassages
  /\ passages' = passages + 1
  /\ output' = [name |-> n, passage |-> p]
  /\ told' = [told EXCEPT ![n] = @ \cup {p}]
  /\ outStep' = IF ShouldWrite(IsValid(p)) THEN "create report" ELSE AfterReport(p)
  /\ UNCHANGED <<shelved, report, displayFailures, accepted>>

CreateReport ==
  /\ outStep = "create report"
  /\ report' = [report EXCEPT ![output.name] = Torn]
  /\ outStep' = "write report"
  /\ UNCHANGED <<shelved, output, passages, displayFailures, accepted, told>>

(* The report may have been taken away since it was created. *)
WriteReport ==
  /\ outStep = "write report"
  /\ report' = [report EXCEPT ![output.name] = IF @ = Torn THEN output.passage ELSE @]
  /\ outStep' = AfterReport(output.passage)
  /\ UNCHANGED <<shelved, output, passages, displayFailures, accepted, told>>

CreateFile ==
  /\ outStep = "create file"
  /\ shelved' = [shelved EXCEPT ![output.name] = "partial"]
  /\ accepted' = accepted \cup {output.name}
  /\ outStep' = "copy file"
  /\ UNCHANGED <<report, output, passages, displayFailures, told>>

CopyFile ==
  /\ outStep = "copy file"
  /\ shelved' = [shelved EXCEPT ![output.name] = IF @ = "partial" THEN "whole" ELSE @]
  /\ outStep' = "idle"
  /\ UNCHANGED <<report, output, passages, displayFailures, accepted, told>>

(* An open or a write fails and output_files ends there, or the daemon dies *)
(* and is started again: what it had begun stays as it is.                  *)
OutFails ==
  /\ outStep # "idle"
  /\ displayFailures < DisplayMaxFailures
  /\ displayFailures' = displayFailures + 1
  /\ outStep' = "idle"
  /\ UNCHANGED <<shelved, report, output, passages, accepted, told>>

(* keysas-io removes a path of sas_out, whole or not. *)
Collect(n) ==
  /\ \/ /\ shelved[n] # "absent"
        /\ shelved' = [shelved EXCEPT ![n] = "absent"]
        /\ UNCHANGED report
     \/ /\ report[n] # Nothing
        /\ report' = [report EXCEPT ![n] = Nothing]
        /\ UNCHANGED shelved
  /\ UNCHANGED <<outStep, output, passages, displayFailures, accepted, told>>

OutStep == CreateReport \/ WriteReport \/ CreateFile \/ CopyFile

------------------------------------------------------------------------------
(* A thread of keysas-backend: list_files_out and the sending of its result, *)
(* for ever.  Reading a directory takes time: what is created or removed     *)
(* meanwhile may be met or not.  A file is skipped for its name; its report  *)
(* has another one, and is not.                                              *)
InListing(n) == n \notin Skipped /\ shelved[n] # "absent"

See(path) ==
  /\ path \in toList
  /\ toList' = toList \ {path}
  /\ LET there == IF path[2] = "file" THEN InListing(path[1])
                  ELSE report[path[1]] # Nothing
     IN seen' = IF there THEN seen \cup {path} ELSE seen
  /\ toShow' = IF toList' = {} THEN ShelfNames ELSE {}
  /\ UNCHANGED shown

(* Mutant of StatusOf: a name that is no longer there keeps its status. *)
StatusOfKept(n) ==
  IF <<n, "file">> \in seen THEN parse_krp(report[n])
  ELSE IF <<n, "report">> \in seen THEN Blocked(report[n])
  ELSE shown[n]

(* The status of a name, from the listing and the report as it is by now.   *)
(* The test that a report exists and its reading are one step: whenever the *)
(* report comes or goes between them, the answer is one of the two.         *)
StatusOf(n) ==
  IF <<n, "file">> \in seen THEN parse_krp(report[n])
  ELSE IF <<n, "report">> \in seen THEN Blocked(report[n])
  ELSE Nothing

(* Mutant of Show: the next listing adds to the last one. *)
ShowKeepsSeen(n) ==
  /\ n \in toShow
  /\ \/ <<n, "file">> \in seen
     \/ \A m \in toShow : <<m, "file">> \notin seen
  /\ shown' = [shown EXCEPT ![n] = StatusOf(n)]
  /\ toShow' = toShow \ {n}
  /\ toList' = IF toShow' = {} THEN Paths ELSE {}
  /\ seen' = seen

(* The files come first, then the reports without one.  The page gets all   *)
(* the statuses together, after the last; each is noted here when computed. *)
Show(n) ==
  /\ n \in toShow
  /\ \/ <<n, "file">> \in seen
     \/ \A m \in toShow : <<m, "file">> \notin seen
  /\ shown' = [shown EXCEPT ![n] = StatusOf(n)]
  /\ toShow' = toShow \ {n}
  /\ toList' = IF toShow' = {} THEN Paths ELSE {}
  /\ seen' = IF toShow' = {} THEN {} ELSE seen

PageStep == (\E path \in Paths : See(path)) \/ (\E n \in ShelfNames : Show(n))

------------------------------------------------------------------------------
DisplayInit ==
  /\ shelved = [n \in ShelfNames |-> "absent"]
  /\ report = [n \in ShelfNames |-> Nothing]
  /\ outStep = "idle"
  /\ output = Nothing
  /\ toList = Paths
  /\ seen = {}
  /\ toShow = {}
  /\ shown = [n \in ShelfNames |-> Nothing]
  /\ passages = 0
  /\ displayFailures = 0
  /\ accepted = {}
  /\ told = [n \in ShelfNames |-> {}]

(* Both daemons go on, each weakly fair; nobody has to bring a file or to   *)
(* collect one.                                                             *)
ShelfStep == OutStep /\ UNCHANGED pageVars
ListStep == PageStep /\ UNCHANGED outVars

DisplayNext ==
  \/ ShelfStep \/ ListStep
  \/ /\ \/ \E n \in ShelfNames, p \in Passages : Pass(n, p)
        \/ OutFails
        \/ \E n \in ShelfNames : Collect(n)
     /\ UNCHANGED pageVars

------------------------------------------------------------------------------
(* Type invariant of the variables of this module. *)
DisplayTypeOK ==
  /\ shelved \in [ShelfNames -> {"absent", "partial", "whole"}]
  /\ report \in [ShelfNames -> Passages \cup {Nothing, Torn}]
  /\ outStep \in {"idle", "create report", "write report", "create file", "copy file"}
  /\ output \in [name : ShelfNames, passage : Passages] \cup {Nothing}
  /\ toList \subseteq Paths
  /\ seen \subseteq Paths \ toList
  /\ toShow \subseteq ShelfNames
  /\ (toList = {}) # (toShow = {})
  /\ shown \in [ShelfNames -> Statuses \cup {Nothing}]
  /\ passages \in 0..MaxPassages
  /\ displayFailures \in 0..DisplayMaxFailures
  /\ accepted \subseteq ShelfNames
  /\ told \in [ShelfNames -> SUBSET Passages]

(* A name under which no file was ever written to sas_out is never shown as *)
(* valid, at whatever point of output_files the directory and the report    *)
(* are read (list_files_out), and although parse_krp calls a report it      *)
(* cannot read a valid one.                                                 *)
NeverAcceptedNeverValid ==
  \A n \in ShelfNames \ accepted : shown[n] # Nothing => ~shown[n].is_valid

(* The reason shown for a name is one a file of that name was refused for,  *)
(* or "digest" for a scanner that failed and left no text (parse_krp).      *)
ReasonIsTrue ==
  \A n \in ShelfNames :
    shown[n] # Nothing /\ shown[n].reason \notin {"none", "unknown"}
      => \E p \in told[n] :
           \/ Says(p)[shown[n].reason]
           \/ /\ shown[n].reason = "digest"
              /\ \/ ~p["av_pass"] /\ ~p["av_report"]
                 \/ ~p["yara_pass"] /\ ~p["yara_report"]

(* When nothing comes or goes any more, the page comes to show exactly the  *)
(* files that are there and are not skipped, and the reports that stand     *)
(* alone for it: listings that were overtaken by keysas-out or keysas-io    *)
(* leave no trace.                                                          *)
Truth(n) ==
  IF InListing(n) THEN parse_krp(report[n])
  ELSE IF report[n] # Nothing THEN Blocked(report[n])
  ELSE Nothing

ShownInTheEnd == \A n \in ShelfNames : <>[](shown[n] = Truth(n))
=============================================================================
