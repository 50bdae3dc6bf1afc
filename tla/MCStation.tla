------------------------------ MODULE MCStation ------------------------------
(***************************************************************************)
(* The parts of the station around the pipeline, on small instances: the   *)
(* two services keysas-transit asks, the progress of keysas-in, the page   *)
(* and the administration.  They share no variable, so a behaviour is one  *)
(* of a single part: the others stay as they are initially, and every      *)
(* interleaving of them would show the same of each.                       *)
(***************************************************************************)
EXTENDS KeysasAnalyze, KeysasVirusTotal, KeysasProgress, KeysasDisplay,
        KeysasAdmin, TLC

VARIABLE part

stationVars == <<part, analyzeVars, vtVars, progressVars, displayVars, adminVars>>

AnalyzePart(A) ==
  /\ part = "analyze" /\ A
  /\ UNCHANGED <<part, vtVars, progressVars, displayVars, adminVars>>
VtPart(A) ==
  /\ part = "virustotal" /\ A
  /\ UNCHANGED <<part, analyzeVars, progressVars, displayVars, adminVars>>
ProgressPart(A) ==
  /\ part = "progress" /\ A
  /\ UNCHANGED <<part, analyzeVars, vtVars, displayVars, adminVars>>
DisplayPart(A) ==
  /\ part = "display" /\ A
  /\ UNCHANGED <<part, analyzeVars, vtVars, progressVars, adminVars>>
AdminPart(A) ==
  /\ part = "admin" /\ A
  /\ UNCHANGED <<part, analyzeVars, vtVars, progressVars, displayVars>>

Init ==
  /\ part \in {"analyze", "virustotal", "progress", "display", "admin"}
  /\ AnalyzeInit /\ VtInit /\ ProgressInit /\ DisplayInit /\ AdminInit

Next ==
  \/ AnalyzePart(AnalyzeNext) \/ VtPart(VtNext)
  \/ ProgressPart(ProgressNext) \/ DisplayPart(DisplayNext)
  \/ AdminPart(AdminNext)

Fairness ==
  /\ WF_stationVars(AnalyzePart(AnalyzeStep))
  /\ WF_stationVars(VtPart(VtStep))
  /\ WF_stationVars(ProgressPart(SpoolStep))
  /\ WF_stationVars(DisplayPart(ShelfStep)) /\ WF_stationVars(DisplayPart(ListStep))

Spec == Init /\ [][Next]_stationVars /\ Fairness

------------------------------------------------------------------------------
(* Files for keysas-analyze: one of each format with and without something  *)
(* to refuse, archives of two members, ISO images of three directories,     *)
(* some listed twice or by themselves, and what cannot be read, parsed or   *)
(* answered.                                                                *)
Plain ==
  [ext |-> "", kind |-> "", typed |-> TRUE, readable |-> TRUE, marks |-> {},
   entries |-> << >>, tree |-> [root |-> << >>], long |-> FALSE]
Sample(kind) == [Plain EXCEPT !.ext = kind, !.kind = kind]

MCMembers ==
  {{"dir", "exec_name"}, {"error", "exec_name"}, {"exec_name"}, {"encrypted"},
   {"exec_magic"}, {"exec_magic", "undecodable"}}

MCTrees ==
  [root : {<<"other", "a">>, <<"a", "a", "installer">>, <<"b", "a", "script">>,
           <<"a", "b", "other">>, <<"root", "a">>, <<"a", "a", "b">>},
   a : {<<"b">>, <<"executable">>, <<"b", "other", "other">>},
   b : {<< >>, <<"script">>}]

MCSamples ==
  {[Sample(k) EXCEPT !.marks = m] :
     k \in {"lnk", "pdf", "exe", "ps1", "rtf", "docx", "doc", "gz"},
     m \in {{"info"}, {"blocking"}, {"macro", "blocking"}}}
  \cup {[Sample(k) EXCEPT !.entries = <<{}, e>>] : k \in {"zip", "tar.gz"}, e \in MCMembers}
  \cup {[Sample(k) EXCEPT !.entries = <<{"error"}, {"exec_name"}>>] : k \in {"zip", "tar"}}
  \cup {[Sample("iso") EXCEPT !.tree = t] : t \in MCTrees}
  \cup {[Sample("pdf") EXCEPT !.marks = {"blocking"}, !.long = TRUE],
        [Sample("lnk") EXCEPT !.marks = {"blocking"}, !.readable = FALSE],
        [Sample("docx") EXCEPT !.marks = {"macro", "blocking"}, !.ext = "bin"],
        Sample("txt")}

MCIoError == [n \in SpoolNames |-> IF n = "f" THEN "f.ioerror" ELSE NoName]

(* Passages: a file without fault, one ClamAV failed on, and one that two   *)
(* checks refuse.                                                           *)
Faultless ==
  [f \in PassageFields |->
     f \notin {"is_corrupted", "is_toobig", "av_report", "yara_report"}]

MCPassages ==
  {Faultless,
   [Faultless EXCEPT !["av_pass"] = FALSE],
   [Faultless EXCEPT !["yara_pass"] = FALSE, !["yara_report"] = TRUE, !["vt_pass"] = FALSE]}
=============================================================================
