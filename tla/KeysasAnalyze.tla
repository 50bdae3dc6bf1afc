---------------------------- MODULE KeysasAnalyze ----------------------------
(***************************************************************************)
(* keysas-analyze: which analyzer a file gets from its name and its type,  *)
(* what each analyzer refuses, and the calls of keysas-transit, for which  *)
(* a file passes when no answer can be read.                               *)
(*                                                                         *)
(* A file is a record of what the decisions tell apart:                    *)
(*   ext       its extension; "tar.gz", "docx" and "doc" stand for the     *)
(*             extensions treated as they are                              *)
(*   kind      the format of its bytes, named as its usual extension       *)
(*   typed     keysas-transit's file_type tells the category of that kind  *)
(*   readable  its bytes can be read, or copied to a temporary file        *)
(*   marks     what a scan of its bytes finds: "blocking", "info", "macro" *)
(*   entries   the members of an archive: a sequence of sets of flags      *)
(*   tree      the directories of an ISO image: what each one lists        *)
(*   long      the answer does not fit in the 4096 bytes transit reads     *)
(***************************************************************************)
EXTENDS ServiceCall, SequencesExt

CONSTANTS
  Samples,            \* the files
  NoFile, NoAnswer,
  MAX_DEPTH,          \* the directories deeper than this one are not entered
  MAX_FILES,          \* nor any directory after that many files
  AnalyzeMaxDeaths    \* bound: deaths of transit and of keysas-analyze

ASSUME AnalyzeAssumption ==
  /\ MAX_DEPTH \in Nat /\ MAX_FILES \in Nat /\ AnalyzeMaxDeaths \in Nat
  /\ {NoFile, NoRequest} \cap Samples = {}

(* What a directory lists is the name of a directory or the sort of a file. *)
ASSUME SamplesAssumption ==
  \A f \in Samples :
    /\ f.entries \in Seq(SUBSET STRING)
    /\ "root" \in DOMAIN f.tree /\ {"executable", "script"} \cap DOMAIN f.tree = {}
    /\ \A d \in DOMAIN f.tree : f.tree[d] \in Seq(STRING)

VARIABLES
  analyze,        \* the service, whose requests are files
  checking,       \* the file transit waits for
  analyzed,       \* the last file checked, with the specialized_* fields
  analyzeDeaths

analyzeVars == <<analyze, checking, analyzed, analyzeDeaths>>

------------------------------------------------------------------------------
(* The choice of an analyzer.                                               *)

Exts ==
  [lnk |-> {"lnk"}, office |-> {"docx", "doc", "rtf"}, pdf |-> {"pdf"},
   pe |-> {"exe"}, script |-> {"ps1"},
   archive |-> {"zip", "tar", "tar.gz", "gz"}, iso |-> {"iso"}]

Categories == <<"lnk", "office", "pdf", "pe", "script", "archive", "iso">>

(* No type tells a link or a script.                                        *)
Suits(f, category) ==
  \/ f.ext \in Exts[category]
  \/ f.typed /\ f.kind \in Exts[category] /\ category \notin {"lnk", "script"}

(* The first category that suits decides.                                   *)
detect_category(f) ==
  LET i == SelectInSeq(Categories, LAMBDA category : Suits(f, category))
  IN IF i = 0 THEN "unknown" ELSE Categories[i]

------------------------------------------------------------------------------
(* What the analyzers refuse.  A script is readable when it is UTF-8.       *)

Marked(f) == "blocking" \in f.marks

lnk(f) == f.kind = "lnk" /\ Marked(f)

(* The bytes are searched, whatever they are.                               *)
pdf(f) == Marked(f)

pe(f) == f.kind = "exe" /\ Marked(f)

script(f) == Marked(f)

ooxml(f) == f.kind = "docx" /\ "macro" \in f.marks /\ Marked(f)

ole(f) == f.kind = "doc" /\ "macro" \in f.marks /\ Marked(f)

(* The name decides how an office file is read.                             *)
office(f) ==
  \/ f.ext = "docx" /\ ooxml(f)
  \/ f.ext = "doc" /\ ole(f)
  \/ f.ext = "rtf" /\ Marked(f)

(* A member is judged by its name, then by its first bytes.                 *)
Executable(e) ==
  /\ {"error", "dir"} \cap e = {}
  /\ "exec_name" \in e \/ ("exec_magic" \in e /\ "undecodable" \notin e)

zip(f) ==
  /\ f.kind = "zip"
  /\ \E e \in ToSet(f.entries) :
       Executable(e) \/ ("encrypted" \in e /\ {"error", "dir"} \cap e = {})

(* The reader of a tar archive gives no member after one in error.          *)
tar(f) ==
  /\ f.kind = f.ext
  /\ \E i \in DOMAIN f.entries :
       Executable(f.entries[i]) /\ \A j \in 1..i : "error" \notin f.entries[j]

(* The reader follows from the name, and "zip" is for all the others.       *)
archive(f) ==
  CASE f.ext \in {"tar", "tar.gz"} -> tar(f)
    [] f.ext = "gz" -> f.kind = "gz" /\ Marked(f)
    [] OTHER -> zip(f)

(* The records of a directory, in their order: a file is added to those     *)
(* found, a directory is entered.                                           *)
Records(tree, enter, files, records) ==
  FoldLeft(LAMBDA found, e : IF e \in DOMAIN tree THEN enter[e][found]
                             ELSE Append(found, e),
           files, records)

(* Mutant of walk_dir: the last depth is not entered.                       *)
walk_dirShallow(tree, directory) ==
  LET walk[depth \in 0..MAX_DEPTH] ==
        [d \in DOMAIN tree |-> [files \in Seq(STRING) |->
           IF depth >= MAX_DEPTH \/ Len(files) >= MAX_FILES THEN files
           ELSE Records(tree, walk[depth + 1], files, tree[d])]]
  IN walk[0][directory][<< >>]

(* The files found so far, after the walk of a directory: in depth, a       *)
(* directory as often as it is listed.                                      *)
walk_dir(tree, directory) ==
  LET walk[depth \in 0..(MAX_DEPTH + 1)] ==
        [d \in DOMAIN tree |-> [files \in Seq(STRING) |->
           IF depth > MAX_DEPTH \/ Len(files) >= MAX_FILES THEN files
           ELSE Records(tree, walk[depth + 1], files, tree[d])]]
  IN walk[0][directory][<< >>]

iso(f) ==
  f.kind = "iso" /\ {"executable", "script"} \cap ToSet(walk_dir(f.tree, "root")) # {}

(* Whether a file is refused; a file that cannot be read or parsed passes.  *)
Refused(f, category) ==
  /\ f.readable
  /\ CASE category = "lnk" -> lnk(f)
       [] category = "office" -> office(f)
       [] category = "pdf" -> pdf(f)
       [] category = "pe" -> pe(f)
       [] category = "script" -> script(f)
       [] category = "archive" -> archive(f)
       [] category = "iso" -> iso(f)
       [] OTHER -> FALSE

(* The answer of the service, as transit reads it.                          *)
dispatch(f) ==
  LET category == detect_category(f)
  IN IF f.long THEN [passed |-> TRUE, analyzer |-> "unread"]
     ELSE [passed |-> ~Refused(f, category), analyzer |-> category]

------------------------------------------------------------------------------
(* The calls.                                                               *)

AnalyzeInit ==
  /\ analyze = NewService
  /\ checking = NoFile /\ analyzed = NoAnswer
  /\ analyzeDeaths = 0

(* Transit has an answer for the file it checks, or none.                   *)
AnalysisEnds(f, answer) ==
  /\ checking' = NoFile
  /\ analyzed' = [file |-> f, passed |-> answer.passed, analyzer |-> answer.analyzer]

NotAnalyzed == [passed |-> TRUE, analyzer |-> "none"]

call_specialized_analyzer(f) ==
  /\ checking = NoFile
  /\ IF analyze.up
     THEN /\ analyze' = Called(analyze, f)
          /\ checking' = f /\ analyzed' = NoAnswer
     ELSE AnalysisEnds(f, NotAnalyzed) /\ UNCHANGED analyze
  /\ UNCHANGED analyzeDeaths

AnalyzeServe ==
  /\ CanServe(analyze)
  /\ analyze' = Served(analyze)
  /\ UNCHANGED <<checking, analyzed, analyzeDeaths>>

(* Mutant of AnalyzeReply: an answer nobody waits for is kept for later.    *)
AnalyzeReplyHeld ==
  /\ analyze.serving # NoRequest /\ IsAwaited(analyze)
  /\ analyze' = Answered(analyze)
  /\ AnalysisEnds(checking, dispatch(analyze.serving))
  /\ UNCHANGED analyzeDeaths

AnalyzeReply ==
  /\ analyze.serving # NoRequest
  /\ analyze' = Answered(analyze)
  /\ IF IsAwaited(analyze) THEN AnalysisEnds(checking, dispatch(analyze.serving))
     ELSE UNCHANGED <<checking, analyzed>>
  /\ UNCHANGED analyzeDeaths

AnalyzeDies ==
  /\ analyze.up /\ analyzeDeaths < AnalyzeMaxDeaths
  /\ analyze' = ServiceDied(analyze)
  /\ IF analyze.waiting THEN AnalysisEnds(checking, NotAnalyzed)
     ELSE UNCHANGED <<checking, analyzed>>
  /\ analyzeDeaths' = analyzeDeaths + 1

AnalyzeStarts ==
  /\ ~analyze.up
  /\ analyze' = ServiceStarted(analyze)
  /\ UNCHANGED <<checking, analyzed, analyzeDeaths>>

(* Mutant of CheckerDies: the connection of the dead transit counts on.     *)
CheckerDiesConnected ==
  /\ checking # NoFile /\ analyzeDeaths < AnalyzeMaxDeaths
  /\ checking' = NoFile
  /\ analyzeDeaths' = analyzeDeaths + 1
  /\ UNCHANGED <<analyze, analyzed>>

(* Transit dies waiting, and starts again.                                  *)
CheckerDies ==
  /\ checking # NoFile /\ analyzeDeaths < AnalyzeMaxDeaths
  /\ analyze' = CallerDied(analyze)
  /\ checking' = NoFile
  /\ analyzeDeaths' = analyzeDeaths + 1
  /\ UNCHANGED analyzed

(* The steps of a service that is up, weakly fair: an analysis ends, every  *)
(* loop of an analyzer runs over a file that was read, and the walk of an   *)
(* image is bounded by MAX_DEPTH.                                           *)
AnalyzeStep == AnalyzeServe \/ AnalyzeReply

AnalyzeNext ==
  \/ \E f \in Samples : call_specialized_analyzer(f)
  \/ AnalyzeStep \/ AnalyzeDies \/ AnalyzeStarts
  \/ CheckerDies

AnalyzeSpec == AnalyzeInit /\ [][AnalyzeNext]_analyzeVars /\ WF_analyzeVars(AnalyzeStep)

------------------------------------------------------------------------------
(* Each variable has a value of its type; transit waits for exactly the     *)
(* file it checks.                                                          *)
AnalyzeTypeOK ==
  /\ analyze \in Service(Samples)
  /\ checking \in Samples \cup {NoFile}
  /\ analyze.waiting = (checking # NoFile)
  /\ analyzed # NoAnswer =>
       /\ analyzed.file \in Samples /\ analyzed.passed \in BOOLEAN
       /\ analyzed.analyzer \in ToSet(Categories) \cup {"unknown", "unread", "none"}
  /\ analyzeDeaths \in 0..AnalyzeMaxDeaths

(* What the headers of the analyzers promise of a file named after what it  *)
(* is.  A directory is in reach when MAX_DEPTH steps lead to it.            *)
InReach(tree) ==
  LET after[n \in Nat] ==
        IF n = 0 THEN {"root"}
        ELSE after[n - 1] \cup
             {d \in DOMAIN tree : \E p \in after[n - 1] : d \in ToSet(tree[p])}
  IN after[MAX_DEPTH]

Dangerous(f) ==
  CASE f.kind \in {"docx", "doc"} -> {"macro", "blocking"} \subseteq f.marks
    [] f.kind = "iso" -> \E d \in InReach(f.tree) :
                           ToSet(f.tree[d]) \cap {"executable", "script"} # {}
    [] f.kind \in {"zip", "tar", "tar.gz"} ->
         \E e \in ToSet(f.entries) :
           /\ "error" \notin e /\ "dir" \notin e
           /\ \/ f.kind = "zip" /\ "encrypted" \in e
              \/ "exec_name" \in e
              \/ "exec_magic" \in e /\ "undecodable" \notin e
    [] f.kind \in {"lnk", "rtf", "pdf", "exe", "ps1", "gz"} -> "blocking" \in f.marks
    [] OTHER -> FALSE

(* Unless the service was down or its answer is too long, the file transit  *)
(* has just had analysed, named after what it is, passes exactly if nothing *)
(* in it is dangerous: the answer is about this file and not about one      *)
(* transit asked for before it died, and the walk of an image misses        *)
(* nothing before it has found MAX_FILES files.  A tar archive is read up   *)
(* to its first error.                                                      *)
AnalysisIsKept ==
  analyzed # NoAnswer /\ analyzed.analyzer \notin {"none", "unread"} =>
    LET f == analyzed.file
    IN /\ ~f.readable => analyzed.passed
       /\ f.readable /\ f.ext = f.kind =>
            \/ analyzed.passed = ~Dangerous(f)
            \/ f.kind = "iso" /\ Len(walk_dir(f.tree, "root")) >= MAX_FILES
            \/ f.kind \in {"tar", "tar.gz"} /\ \E e \in ToSet(f.entries) : "error" \in e

(* Transit gets an answer, or the end of its connection, for every file,    *)
(* behind whatever the service still had to treat.                          *)
AnalysisComes == checking # NoFile ~> checking = NoFile
=============================================================================
