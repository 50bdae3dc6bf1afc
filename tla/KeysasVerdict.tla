---------------------------- MODULE KeysasVerdict ----------------------------
(***************************************************************************)
(* The checks keysas-transit runs on a file and what keysas-out concludes  *)
(* from their results: no state, only the decisions.                       *)
(*                                                                         *)
(* A content is a model value; the constants below say which checks would  *)
(* object to it.  The metadata of a file is a function from the names the  *)
(* source gives to the boolean fields of FileMetadata to booleans; sizes,  *)
(* reports and summaries are left out, no decision reads them.             *)
(***************************************************************************)
EXTENDS Naturals, Sequences

CONSTANTS
  Contents,     \* what the bytes of a file can be
  TooBig,       \* contents longer than MAX_SIZE
  Infected,     \* contents clamd reports as infected
  YaraHit,      \* contents at least one Yara rule matches
  Forbidden,    \* contents check_is_extension_allowed refuses
  Suspicious,   \* contents keysas-analyze refuses
  Listed,       \* contents whose digest keysas-virustotal refuses
  TypeOff,      \* keysas-transit runs with --type_off
  UseAnalyze,   \* keysas-transit is given a keysas-analyze socket
  UseVt,        \* keysas-transit is given a keysas-virustotal socket
  ErringChecks, \* the checks that may end in an error
  YaraClean,    \* keysas-out runs with --yara_clean (its service file does)
  KrpMode       \* when keysas-out writes a .krp report

(* The fields of FileMetadata that hold the result of a check. *)
CheckFields ==
  {"is_digest_ok", "is_toobig", "av_pass", "yara_pass", "is_type_allowed",
   "specialized_pass", "vt_pass"}

KrpModes == {"always", "never", "pass_only", "fail_only"}

ASSUME VerdictAssumption ==
  /\ TooBig \subseteq Contents
  /\ Infected \subseteq Contents
  /\ YaraHit \subseteq Contents
  /\ Forbidden \subseteq Contents
  /\ Suspicious \subseteq Contents
  /\ Listed \subseteq Contents
  /\ TypeOff \in BOOLEAN
  /\ UseAnalyze \in BOOLEAN
  /\ UseVt \in BOOLEAN
  /\ ErringChecks \subseteq CheckFields
  /\ YaraClean \in BOOLEAN
  /\ KrpMode \in KrpModes

------------------------------------------------------------------------------
(* The checks, by the field each of them sets, in the order check_files    *)
(* runs them.                                                              *)
CheckOrder ==
  << "is_digest_ok", "is_toobig", "av_pass", "yara_pass", "is_type_allowed",
     "specialized_pass", "vt_pass" >>

Fields == CheckFields \cup {"is_corrupted"}

Metadata == [Fields -> BOOLEAN]

(* What parse_messages puts in the metadata of a file it just received: a  *)
(* failed value for every mandatory check, a passed one for the two        *)
(* optional analyses, and keysas-in's own finding.                         *)
ReceivedMetadata(corrupted) ==
  [f \in Fields |->
     CASE f = "is_corrupted" -> corrupted
       [] f \in {"is_toobig", "specialized_pass", "vt_pass"} -> TRUE
       [] OTHER -> FALSE]

(* The result of a check that reads content c of a file announced with     *)
(* digest d (a digest stands for the content it was computed from).        *)
CheckResult(chk, c, d) ==
  CASE chk = "is_digest_ok" -> c = d
    [] chk = "is_toobig" -> c \in TooBig
    [] chk = "av_pass" -> c \notin Infected
    [] chk = "yara_pass" -> c \notin YaraHit
    [] chk = "is_type_allowed" -> TypeOff \/ c \notin Forbidden
    [] chk = "specialized_pass" -> UseAnalyze => c \notin Suspicious
    [] chk = "vt_pass" -> UseVt => d \notin Listed

(* What a check may leave in its field: its result, or after an error what *)
(* parse_messages put there, which fails the checks of keysas-transit      *)
(* itself and passes the two remote analyses.                              *)
CheckOutcomes(chk, c, d) ==
  {CheckResult(chk, c, d)}
    \cup (IF chk \in ErringChecks THEN {ReceivedMetadata(FALSE)[chk]} ELSE {})

------------------------------------------------------------------------------
(* generate_report_metadata: what the report says of the file. *)
IsValid(md) ==
  /\ md["av_pass"]
  /\ md["yara_pass"]
  /\ ~md["is_toobig"]
  /\ ~md["is_corrupted"]
  /\ md["is_digest_ok"]
  /\ md["is_type_allowed"]
  /\ md["specialized_pass"]
  /\ md["vt_pass"]

(* Mutant of Releasable: is_type_allowed is not consulted. *)
ReleasableAnyType(md) ==
  /\ md["is_digest_ok"]
  /\ ~md["is_toobig"]
  /\ md["av_pass"]
  /\ ~md["is_corrupted"]
  /\ md["yara_pass"] \/ ~YaraClean
  /\ md["specialized_pass"]
  /\ md["vt_pass"]

(* output_files: whether the file itself is written to sas_out. *)
Releasable(md) ==
  /\ md["is_digest_ok"]
  /\ ~md["is_toobig"]
  /\ md["is_type_allowed"]
  /\ md["av_pass"]
  /\ ~md["is_corrupted"]
  /\ md["yara_pass"] \/ ~YaraClean
  /\ md["specialized_pass"]
  /\ md["vt_pass"]

(* KrpMode::should_write *)
ShouldWrite(valid) ==
  \/ KrpMode = "always"
  \/ KrpMode = "pass_only" /\ valid
  \/ KrpMode = "fail_only" /\ ~valid

(* Mutant of Redigested: keysas-out trusts the result of keysas-transit. *)
RedigestedNever(md, c, d) == md

(* keysas-out: the digest is computed again, and a difference clears       *)
(* is_digest_ok; an equal digest does not set it.                          *)
Redigested(md, c, d) ==
  [md EXCEPT !["is_digest_ok"] = @ /\ c = d]

------------------------------------------------------------------------------
(* What the mandatory checks are for, stated of a content and not of       *)
(* results: the contents a keysas station may hand over.                   *)
Acceptable(c) ==
  /\ c \notin TooBig
  /\ c \notin Infected
  /\ TypeOff \/ c \notin Forbidden
  /\ YaraClean => c \notin YaraHit
=============================================================================
