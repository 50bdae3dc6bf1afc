-------------------------- MODULE KeysasShownProofs --------------------------
(***************************************************************************)
(* What is proved of what the station shows: the page of sas_out, and the  *)
(* progress of keysas-in.                                                  *)
(***************************************************************************)
EXTENDS KeysasDisplay, KeysasProgress, FiniteSetTheorems, TLAPS

------------------------------------------------------------------------------
(* The statuses parse_krp gives.                                            *)

LEMMA MinIsMember ==
  ASSUME NEW S, S \subseteq Nat, S # {}
  PROVE  Min(S) \in S
<1> DEFINE R == {ss \in Nat \X Nat : ss[1] < ss[2]}
<1>1. IsWellFoundedOn(R, Nat)
  BY NatLessThanWellFounded, Zenon DEF OpToRel
<1> HIDE DEF R
<1>2. PICK n \in S : \A m \in S : ~ (<<m, n>> \in R)
  BY <1>1, WFMin
<1>3. ASSUME NEW m \in S PROVE n <= m
  <2>1. m \in Nat /\ n \in Nat
    OBVIOUS
  <2>2. m < n => <<m, n>> \in R
    <3> DEFINE ss == <<m, n>>
    <3>1. ss \in Nat \X Nat /\ ss[1] = m /\ ss[2] = n
      BY <2>1
    <3> HIDE DEF ss
    <3>2. m < n => ss \in R
      BY <3>1 DEF R
    <3> QED
      BY <3>2 DEF ss
  <2>3. m < n \/ n <= m
    BY <2>1
  <2> QED
    BY <1>2, <2>2, <2>3
<1> QED
  BY <1>3 DEF Min

Reasons == {ReasonOrder[i] : i \in 1 .. 8}

LEMMA ReasonsAre ==
  /\ Len(ReasonOrder) = 8 /\ Range(ReasonOrder) = Reasons
  /\ Reasons = {"corrupted", "toobig", "digest", "forbidden", "antivirus",
                "yara", "specialized", "virustotal"}
<1>1. Len(ReasonOrder) = 8 /\ DOMAIN ReasonOrder = 1 .. 8
  BY DEF ReasonOrder
<1>2. Range(ReasonOrder) = Reasons
  BY <1>1 DEF Range, Reasons
<1>3. Reasons = {"corrupted", "toobig", "digest", "forbidden", "antivirus",
                 "yara", "specialized", "virustotal"}
  <2>1. 1 .. 8 = {1, 2, 3, 4, 5, 6, 7, 8}
    OBVIOUS
  <2> QED
    BY <2>1 DEF Reasons, ReasonOrder
<1> QED
  BY <1>1, <1>2, <1>3

(* A reason found is one the report gives; none is found only when it gives *)
(* none.                                                                    *)
LEMMA ReasonFound ==
  ASSUME NEW r
  PROVE  LET i == SelectInSeq(ReasonOrder, LAMBDA why : Says(r)[why])
         IN \/ i \in 1 .. 8 /\ Says(r)[ReasonOrder[i]]
            \/ i = 0 /\ \A k \in 1 .. 8 : ~Says(r)[ReasonOrder[k]]
<1> DEFINE I == {i \in 1 .. Len(ReasonOrder) : Says(r)[ReasonOrder[i]]}
<1>1. SelectInSeq(ReasonOrder, LAMBDA why : Says(r)[why])
        = IF I # {} THEN Min(I) ELSE 0
  BY DEF SelectInSeq
<1>2. I # {} => Min(I) \in I
  <2>1. I \subseteq Nat
    BY ReasonsAre
  <2> HIDE DEF I
  <2> QED
    BY <2>1, MinIsMember
<1> QED
  BY <1>1, <1>2, ReasonsAre

(* A file of this passage was refused for this reason, or gives no other. *)
Refused(p, why) ==
  \/ Says(p)[why]
  \/ /\ why = "digest"
     /\ \/ ~p["av_pass"] /\ ~p["av_report"]
        \/ ~p["yara_pass"] /\ ~p["yara_report"]

LEMMA KrpTells ==
  ASSUME NEW r
  PROVE  /\ parse_krp(r) \in Statuses
         /\ parse_krp(r).reason # "none" => r \in Passages /\ Refused(r, parse_krp(r).reason)
         /\ parse_krp(r).reason # "unknown"
<1> DEFINE i == SelectInSeq(ReasonOrder, LAMBDA why : Says(r)[why])
<1>1. CASE r \notin Passages \/ (r \in Passages /\ IsValid(r))
  <2>1. parse_krp(r) = Valid
    BY <1>1 DEF parse_krp
  <2> QED
    BY <2>1 DEF Valid, Statuses
<1>2. CASE r \in Passages /\ ~IsValid(r)
  <2>1. parse_krp(r) = [is_valid |-> FALSE,
                        reason |-> IF i = 0 THEN "digest" ELSE ReasonOrder[i]]
    BY <1>2 DEF parse_krp
  <2>2. \/ i \in 1 .. 8 /\ Says(r)[ReasonOrder[i]]
        \/ i = 0 /\ \A k \in 1 .. 8 : ~Says(r)[ReasonOrder[k]]
    BY ReasonFound
  <2> HIDE DEF i
  <2>3. CASE i \in 1 .. 8 /\ Says(r)[ReasonOrder[i]]
    <3>1. ReasonOrder[i] \in Reasons /\ i # 0
      BY <2>3 DEF Reasons
    <3>2. parse_krp(r) = [is_valid |-> FALSE, reason |-> ReasonOrder[i]]
      BY <2>1, <3>1
    <3>3. ReasonOrder[i] \in Range(ReasonOrder) /\ ReasonOrder[i] # "unknown"
      BY <3>1, ReasonsAre
    <3> DEFINE why == ReasonOrder[i]
    <3>4. parse_krp(r).reason = why /\ Says(r)[why] /\ why # "unknown"
      BY <2>3, <3>2, <3>3
    <3>5. parse_krp(r) \in Statuses
      BY <3>2, <3>3 DEF Statuses
    <3> HIDE DEF why
    <3> QED
      BY <1>2, <3>4, <3>5 DEF Refused
  <2>4. CASE i = 0 /\ \A k \in 1 .. 8 : ~Says(r)[ReasonOrder[k]]
    <3>1. parse_krp(r) = [is_valid |-> FALSE, reason |-> "digest"]
      BY <2>1, <2>4
    <3>2. "digest" \in Range(ReasonOrder)
      BY ReasonsAre
    <3>3. \A why \in Reasons : ~Says(r)[why]
      BY <2>4 DEF Reasons
    <3>4. /\ ~r["is_corrupted"] /\ ~r["is_toobig"] /\ r["is_digest_ok"]
          /\ r["is_type_allowed"] /\ ~r["av_report"] /\ ~r["yara_report"]
          /\ r["specialized_pass"] /\ r["vt_pass"]
      <4>1. /\ ~Says(r)["corrupted"] /\ ~Says(r)["toobig"] /\ ~Says(r)["digest"]
            /\ ~Says(r)["forbidden"] /\ ~Says(r)["antivirus"] /\ ~Says(r)["yara"]
            /\ ~Says(r)["specialized"] /\ ~Says(r)["virustotal"]
        BY <3>3, ReasonsAre
      <4>2. /\ Says(r)["corrupted"] = r["is_corrupted"]
            /\ Says(r)["toobig"] = r["is_toobig"]
            /\ Says(r)["digest"] = ~r["is_digest_ok"]
            /\ Says(r)["forbidden"] = ~r["is_type_allowed"]
            /\ Says(r)["antivirus"] = r["av_report"]
            /\ Says(r)["yara"] = r["yara_report"]
            /\ Says(r)["specialized"] = ~r["specialized_pass"]
            /\ Says(r)["virustotal"] = ~r["vt_pass"]
        BY Zenon DEF Says
      <4> QED
        BY <4>1, <4>2, Zenon
    <3>5. ~r["av_pass"] \/ ~r["yara_pass"]
      BY <1>2, <3>4 DEF IsValid
    <3> QED
      BY <1>2, <3>1, <3>2, <3>4, <3>5 DEF Statuses, Refused
  <2> QED
    BY <2>2, <2>3, <2>4
<1> QED
  BY <1>1, <1>2

LEMMA BlockedTells ==
  ASSUME NEW r
  PROVE  /\ Blocked(r) \in Statuses /\ ~Blocked(r).is_valid
         /\ Blocked(r).reason \notin {"none", "unknown"} =>
              r \in Passages /\ Refused(r, Blocked(r).reason)
<1> DEFINE k == parse_krp(r)
           why == IF k.is_valid THEN "unknown" ELSE k.reason
<1>1. /\ k \in Statuses /\ k.reason # "unknown"
      /\ k.reason # "none" => r \in Passages /\ Refused(r, k.reason)
  BY KrpTells
<1> HIDE DEF k
<1>2. Blocked(r) = [is_valid |-> FALSE, reason |-> why]
  BY DEF Blocked, k
<1>3. why \in Range(ReasonOrder) \cup {"none", "unknown"}
  BY <1>1 DEF Statuses
<1> HIDE DEF why
<1>4. Blocked(r) \in Statuses /\ Blocked(r).reason = why /\ ~Blocked(r).is_valid
  BY <1>2, <1>3 DEF Statuses
<1>5. why # "unknown" => why = k.reason
  BY DEF why
<1> QED
  BY <1>1, <1>4, <1>5

------------------------------------------------------------------------------
(* The page: what keysas-out has at hand, and what the listing has met.     *)

AtHand ==
  /\ outStep # "idle" =>
       /\ output \in [name : ShelfNames, passage : Passages]
       /\ output.passage \in told[output.name]
  /\ \A n \in ShelfNames : report[n] \in Passages => report[n] \in told[n]

(* A file that stands in sas_out, or was met there, was accepted.           *)
Met ==
  \A n \in ShelfNames :
    shelved[n] # "absent" \/ <<n, "file">> \in seen => n \in accepted

Page == DisplayTypeOK /\ AtHand /\ Met /\ NeverAcceptedNeverValid /\ ReasonIsTrue

LEMMA PageBounds == MaxPassages \in Nat /\ DisplayMaxFailures \in Nat
BY DisplayAssumption

LEMMA PageInit == DisplayInit => Page
<1> SUFFICES ASSUME DisplayInit PROVE Page
  OBVIOUS
<1>1. Paths # {}
  <2>1. PICK n \in ShelfNames : TRUE
    BY DisplayAssumption
  <2>2. <<n, "file">> \in Paths
    BY DEF Paths
  <2> QED
    BY <2>2
<1>5. passages \in 0 .. MaxPassages /\ displayFailures \in 0 .. DisplayMaxFailures
  BY PageBounds DEF DisplayInit
<1>2. DisplayTypeOK
  BY <1>1, <1>5 DEF DisplayInit, DisplayTypeOK
<1>3. AtHand /\ Met
  BY NothingShownAssumption DEF DisplayInit, AtHand, Met
<1>4. NeverAcceptedNeverValid /\ ReasonIsTrue
  BY DEF DisplayInit, NeverAcceptedNeverValid, ReasonIsTrue
<1> QED
  BY <1>2, <1>3, <1>4 DEF Page

(* Nothing of the page changes, and nothing known of a name is forgotten.   *)
LEMMA PageKept ==
  ASSUME Page, UNCHANGED pageVars, accepted \subseteq accepted',
         \A n \in ShelfNames : told[n] \subseteq told'[n],
         \A n \in ShelfNames : shelved'[n] # "absent" =>
                                 shelved[n] # "absent" \/ n \in accepted'
  PROVE  Met' /\ NeverAcceptedNeverValid' /\ ReasonIsTrue'
<1>1. UNCHANGED <<seen, shown>>
  BY DEF pageVars
<1>2. Met'
  BY <1>1 DEF Page, Met
<1>3. NeverAcceptedNeverValid'
  BY <1>1 DEF Page, NeverAcceptedNeverValid
<1>4. ReasonIsTrue'
  BY <1>1 DEF Page, ReasonIsTrue
<1> QED
  BY <1>2, <1>3, <1>4

LEMMA PageShelf ==
  ASSUME Page, UNCHANGED pageVars,
         \/ ShelfStep \/ OutFails
         \/ \E n \in ShelfNames, p \in Passages : Pass(n, p)
         \/ \E n \in ShelfNames : Collect(n)
  PROVE  Page'
<1>0. DisplayTypeOK /\ AtHand /\ Nothing \notin Passages /\ Torn \notin Passages
  BY NothingShownAssumption DEF Page
<1>1. ASSUME NEW n \in ShelfNames, NEW p \in Passages, Pass(n, p)
      PROVE  Page'
  <2>1. /\ told' = [told EXCEPT ![n] = @ \cup {p}]
        /\ output' = [name |-> n, passage |-> p]
        /\ passages' \in 0 .. MaxPassages
        /\ outStep' \in {"idle", "create report", "create file"}
        /\ UNCHANGED <<shelved, report, displayFailures, accepted>>
    <3>1. passages \in 0 .. MaxPassages /\ passages < MaxPassages /\ passages' = passages + 1
      BY <1>0, <1>1 DEF Pass, DisplayTypeOK
    <3>2. passages' \in 0 .. MaxPassages
      BY <3>1, PageBounds
    <3> QED
      BY <1>1, <3>2 DEF Pass, AfterReport
  <2>2. DisplayTypeOK'
    BY <1>0, <2>1 DEF DisplayTypeOK, pageVars
  <2>3. AtHand'
    BY <1>0, <2>1 DEF AtHand, DisplayTypeOK
  <2>4. \A m \in ShelfNames : told[m] \subseteq told'[m]
    BY <1>0, <2>1 DEF DisplayTypeOK
  <2> QED
    BY <2>1, <2>2, <2>3, <2>4, PageKept DEF Page
<1>2. CASE CreateReport \/ WriteReport \/ CreateFile \/ CopyFile
  <2>1. output.name \in ShelfNames /\ output.passage \in Passages
    BY <1>0, <1>2 DEF CreateReport, WriteReport, CreateFile, CopyFile, AtHand
  <2>2. DisplayTypeOK'
    <3>1. /\ shelved' \in [ShelfNames -> {"absent", "partial", "whole"}]
          /\ report' \in [ShelfNames -> Passages \cup {Nothing, Torn}]
          /\ accepted' \subseteq ShelfNames
      <4>1. CASE CreateReport
        BY <1>0, <4>1 DEF CreateReport, DisplayTypeOK
      <4>2. CASE WriteReport
        BY <1>0, <2>1, <4>2 DEF WriteReport, DisplayTypeOK
      <4>3. CASE CreateFile
        BY <1>0, <2>1, <4>3 DEF CreateFile, DisplayTypeOK
      <4>4. CASE CopyFile
        BY <1>0, <4>4 DEF CopyFile, DisplayTypeOK
      <4> QED
        BY <1>2, <4>1, <4>2, <4>3, <4>4
    <3>2. /\ outStep' \in {"idle", "create report", "write report",
                           "create file", "copy file"}
          /\ UNCHANGED <<output, passages, displayFailures, told>>
      BY <1>2 DEF CreateReport, WriteReport, CreateFile, CopyFile, AfterReport
    <3> QED
      BY <1>0, <3>1, <3>2 DEF DisplayTypeOK, pageVars
  <2>3. AtHand'
    <3>1. /\ UNCHANGED <<output, told>> /\ output \in [name : ShelfNames, passage : Passages]
          /\ output.passage \in told[output.name]
      BY <1>0, <1>2 DEF CreateReport, WriteReport, CreateFile, CopyFile, AtHand
    <3>2. \A n \in ShelfNames : report'[n] \in {report[n], Torn}
                                 \/ (n = output.name /\ report'[n] = output.passage)
      BY <1>0, <1>2 DEF CreateReport, WriteReport, CreateFile, CopyFile, DisplayTypeOK
    <3> QED
      BY <1>0, <3>1, <3>2 DEF AtHand
  <2>4. /\ accepted \subseteq accepted' /\ UNCHANGED told
        /\ \A n \in ShelfNames : shelved'[n] # "absent" =>
                                   shelved[n] # "absent" \/ n \in accepted'
    BY <1>0, <1>2 DEF CreateReport, WriteReport, CreateFile, CopyFile, DisplayTypeOK
  <2> QED
    BY <2>2, <2>3, <2>4, PageKept DEF Page
<1>3. CASE OutFails
  <2>1. /\ displayFailures' \in 0 .. DisplayMaxFailures /\ outStep' = "idle"
        /\ UNCHANGED <<shelved, report, output, passages, accepted, told>>
    <3>1. displayFailures \in 0 .. DisplayMaxFailures /\ displayFailures < DisplayMaxFailures
          /\ displayFailures' = displayFailures + 1
      BY <1>0, <1>3 DEF OutFails, DisplayTypeOK
    <3>2. displayFailures' \in 0 .. DisplayMaxFailures
      BY <3>1, PageBounds
    <3> QED
      BY <1>3, <3>2 DEF OutFails
  <2>2. DisplayTypeOK' /\ AtHand'
    BY <1>0, <2>1 DEF DisplayTypeOK, AtHand, pageVars
  <2> QED
    BY <2>1, <2>2, PageKept DEF Page
<1>4. ASSUME NEW n \in ShelfNames, Collect(n)
      PROVE  Page'
  <2>1. /\ shelved' = shelved \/ shelved' = [shelved EXCEPT ![n] = "absent"]
        /\ report' = report \/ report' = [report EXCEPT ![n] = Nothing]
        /\ UNCHANGED <<outStep, output, passages, displayFailures, accepted, told>>
    BY <1>4 DEF Collect
  <2>2. DisplayTypeOK'
    BY <1>0, <2>1 DEF DisplayTypeOK, pageVars
  <2>3. AtHand' /\ \A m \in ShelfNames : shelved'[m] # "absent" => shelved[m] # "absent"
    BY <1>0, <2>1 DEF DisplayTypeOK, AtHand
  <2> QED
    BY <2>1, <2>2, <2>3, PageKept DEF Page
<1> QED
  BY <1>1, <1>2, <1>3, <1>4 DEF ShelfStep, OutStep

(* The two halves of a listing: the directory is read, then the statuses    *)
(* are made of what it met.                                                 *)
LEMMA PathsThere == Paths # {} /\ ShelfNames # {}
<1>1. PICK n \in ShelfNames : TRUE
  BY DisplayAssumption
<1>2. <<n, "file">> \in Paths
  BY DEF Paths
<1> QED
  BY <1>1, <1>2

LEMMA PageSee ==
  ASSUME Page, UNCHANGED outVars, NEW path \in Paths, See(path)
  PROVE  Page'
<1>0. DisplayTypeOK /\ AtHand /\ Met /\ UNCHANGED outVars
  BY DEF Page
<1>1. /\ toList' = toList \ {path} /\ path \in toList
      /\ seen' = seen \/ seen' = seen \cup {path}
      /\ toShow' = IF toList' = {} THEN ShelfNames ELSE {}
      /\ UNCHANGED shown
  BY DEF See
<1>2. DisplayTypeOK'
  <2>1. /\ toList' \subseteq Paths /\ seen' \subseteq Paths \ toList'
        /\ toShow' \subseteq ShelfNames /\ (toList' = {}) # (toShow' = {})
    BY <1>0, <1>1, PathsThere DEF DisplayTypeOK
  <2> QED
    BY <1>0, <1>1, <2>1 DEF DisplayTypeOK, outVars
<1>3. AtHand'
  BY <1>0 DEF AtHand, outVars
<1>4. Met'
  <2> SUFFICES ASSUME NEW n \in ShelfNames, <<n, "file">> \in seen'
               PROVE  n \in accepted
    BY <1>0 DEF Met, outVars
  <2>1. CASE <<n, "file">> \in seen
    BY <1>0, <2>1 DEF Met
  <2>2. CASE <<n, "file">> \notin seen
    <3>1. path = <<n, "file">>
      BY <1>1, <2>2
    <3>2. path[1] = n /\ path[2] = "file"
      BY <3>1
    <3>3. shelved[n] # "absent"
      BY <2>2, <3>2 DEF See, InListing
    <3> QED
      BY <1>0, <3>3 DEF Met
  <2> QED
    BY <2>1, <2>2
<1>5. NeverAcceptedNeverValid' /\ ReasonIsTrue'
  BY <1>0, <1>1 DEF Page, NeverAcceptedNeverValid, ReasonIsTrue, outVars
<1> QED
  BY <1>2, <1>3, <1>4, <1>5 DEF Page

(* The status computed for a name is true of it by then.                    *)
LEMMA StatusTells ==
  ASSUME Page, NEW n \in ShelfNames
  PROVE  /\ StatusOf(n) \in Statuses \cup {Nothing}
         /\ n \notin accepted /\ StatusOf(n) # Nothing => ~StatusOf(n).is_valid
         /\ StatusOf(n) # Nothing /\ StatusOf(n).reason \notin {"none", "unknown"} =>
              \E p \in told[n] : Refused(p, StatusOf(n).reason)
<1>0. AtHand /\ Met
  BY DEF Page
<1>1. CASE <<n, "file">> \in seen
  <2>1. StatusOf(n) = parse_krp(report[n]) /\ n \in accepted
    BY <1>0, <1>1 DEF StatusOf, Met
  <2>2. report[n] \in Passages => report[n] \in told[n]
    BY <1>0 DEF AtHand
  <2> QED
    BY <2>1, <2>2, KrpTells
<1>2. CASE <<n, "file">> \notin seen /\ <<n, "report">> \in seen
  <2>1. StatusOf(n) = Blocked(report[n])
    BY <1>2 DEF StatusOf
  <2>2. report[n] \in Passages => report[n] \in told[n]
    BY <1>0 DEF AtHand
  <2> QED
    BY <2>1, <2>2, BlockedTells
<1>3. CASE <<n, "file">> \notin seen /\ <<n, "report">> \notin seen
  BY <1>3 DEF StatusOf
<1> QED
  BY <1>1, <1>2, <1>3

LEMMA PageShow ==
  ASSUME Page, UNCHANGED outVars, NEW n \in ShelfNames, Show(n)
  PROVE  Page'
<1>0. DisplayTypeOK /\ AtHand /\ Met /\ UNCHANGED outVars
  BY DEF Page
<1>1. /\ toShow' = toShow \ {n} /\ n \in toShow
      /\ toList' = IF toShow' = {} THEN Paths ELSE {}
      /\ seen' = IF toShow' = {} THEN {} ELSE seen
  BY DEF Show
<1>2. PICK status : /\ shown' = [shown EXCEPT ![n] = status]
                    /\ status = StatusOf(n)
  BY DEF Show
<1>3. DisplayTypeOK'
  <2>1. /\ toList' \subseteq Paths /\ seen' \subseteq Paths \ toList'
        /\ toShow' \subseteq ShelfNames /\ (toList' = {}) # (toShow' = {})
    BY <1>0, <1>1, PathsThere DEF DisplayTypeOK
  <2>2. shown' \in [ShelfNames -> Statuses \cup {Nothing}]
    BY <1>0, <1>2, StatusTells DEF DisplayTypeOK
  <2> QED
    BY <1>0, <2>1, <2>2 DEF DisplayTypeOK, outVars
<1>4. AtHand' /\ Met'
  BY <1>0, <1>1 DEF AtHand, Met, outVars
<1>5. \A m \in ShelfNames : shown'[m] = shown[m] \/ (m = n /\ shown'[m] = status)
  BY <1>0, <1>2 DEF DisplayTypeOK
<1>6. NeverAcceptedNeverValid'
  <2> SUFFICES ASSUME NEW m \in ShelfNames, m \notin accepted, shown'[m] # Nothing
               PROVE  ~shown'[m].is_valid
    BY <1>0 DEF NeverAcceptedNeverValid, outVars
  <2>1. CASE shown'[m] = shown[m]
    BY <2>1 DEF Page, NeverAcceptedNeverValid
  <2>2. CASE m = n /\ shown'[m] = status
    BY <1>2, <2>2, StatusTells
  <2> QED
    BY <1>5, <2>1, <2>2
<1>7. ReasonIsTrue'
  <2> SUFFICES ASSUME NEW m \in ShelfNames, shown'[m] # Nothing,
                      shown'[m].reason \notin {"none", "unknown"}
               PROVE  \E p \in told[m] : Refused(p, shown'[m].reason)
    BY <1>0 DEF ReasonIsTrue, Refused, outVars
  <2>1. CASE shown'[m] = shown[m]
    BY <2>1 DEF Page, ReasonIsTrue, Refused
  <2>2. CASE m = n /\ shown'[m] = status
    BY <1>2, <2>2, StatusTells
  <2> QED
    BY <1>5, <2>1, <2>2
<1> QED
  BY <1>3, <1>4, <1>6, <1>7 DEF Page

LEMMA PageStays == Page /\ [DisplayNext]_displayVars => Page'
<1> SUFFICES ASSUME Page, [DisplayNext]_displayVars
             PROVE  Page'
  OBVIOUS
<1>1. CASE DisplayNext
  <2>1. CASE ListStep
    BY <2>1, PageSee, PageShow DEF ListStep, PageStep
  <2>2. CASE ~ListStep
    BY <1>1, <2>2, PageShelf DEF DisplayNext, ShelfStep
  <2> QED
    BY <2>1, <2>2
<1>2. CASE UNCHANGED displayVars
  BY <1>2 DEF displayVars, Page, DisplayTypeOK, AtHand, Met, NeverAcceptedNeverValid,
              ReasonIsTrue
<1> QED
  BY <1>1, <1>2

(* What every behaviour of the page and of those who change sas_out does,   *)
(* fair or not.                                                             *)
DisplaySpec == DisplayInit /\ [][DisplayNext]_displayVars

LEMMA PageHolds == DisplaySpec => []Page
<1>1. DisplayInit => Page
  BY PageInit
<1>2. Page /\ [DisplayNext]_displayVars => Page'
  BY PageStays
<1> QED
  BY <1>1, <1>2, PTL DEF DisplaySpec

(* Each variable of the page has a value of its type; the names to show and *)
(* the paths to list (list_files_out) are never both, or neither, empty.    *)
THEOREM DisplayTypeCorrect == DisplaySpec => []DisplayTypeOK
<1>1. Page => DisplayTypeOK
  BY DEF Page
<1> QED
  BY <1>1, PageHolds, PTL

(* list_files_out and parse_krp never show as valid a name under which      *)
(* output_files created no file, wherever output_files has got to and       *)
(* whatever keysas-io took away while the directory was read.               *)
THEOREM NeverShownValid == DisplaySpec => []NeverAcceptedNeverValid
<1>1. Page => NeverAcceptedNeverValid
  BY DEF Page
<1> QED
  BY <1>1, PageHolds, PTL

(* The reason list_files_out shows for a name is one that a file of that    *)
(* name was refused for: a torn report, or one that went away since the     *)
(* directory was listed, gives none.                                        *)
THEOREM ReasonsAreTrue == DisplaySpec => []ReasonIsTrue
<1>1. Page => ReasonIsTrue
  BY DEF Page
<1> QED
  BY <1>1, PageHolds, PTL

------------------------------------------------------------------------------
(* The progress of keysas-in: what its operations make of the queue and of  *)
(* the current file.                                                        *)

IsTracker(t) == {"queue", "current_file"} \subseteq DOMAIN t
                /\ t.queue \in [SpoolNames -> Nat]

LEMMA QueueAdds ==
  ASSUME NEW t, IsTracker(t), NEW names, NEW u, u = add_files_to_queue(t, names)
  PROVE  /\ IsTracker(u) /\ u.current_file = t.current_file
         /\ \A n \in SpoolNames : n \notin names => u.queue[n] = t.queue[n]
<1> DEFINE queue == [n \in SpoolNames |-> t.queue[n] + IF n \in names THEN 1 ELSE 0]
<1>1. queue \in [SpoolNames -> Nat]
  BY DEF IsTracker
<1>2. \A n \in SpoolNames : n \notin names => queue[n] = t.queue[n]
  BY DEF IsTracker
<1>3. PICK total : u = [t EXCEPT !.queue = queue, !.total_files = total]
  BY DEF add_files_to_queue
<1> HIDE DEF queue
<1>4. DOMAIN u = DOMAIN t /\ u.queue = queue /\ u.current_file = t.current_file
  BY <1>3 DEF IsTracker
<1> QED
  BY <1>1, <1>2, <1>4 DEF IsTracker

LEMMA QueueStarts ==
  ASSUME NEW t, IsTracker(t), NEW n \in SpoolNames, NEW u, u = start_next_file(t, n)
  PROVE  /\ IsTracker(u) /\ u.current_file = n
         /\ u.queue = [t.queue EXCEPT ![n] = 0]
<1>1. DOMAIN u = DOMAIN t /\ u.queue = [t.queue EXCEPT ![n] = 0] /\ u.current_file = n
  BY DEF start_next_file, IsTracker
<1> QED
  BY <1>1 DEF IsTracker

LEMMA QueueCompletes ==
  ASSUME NEW t, IsTracker(t), NEW success, NEW u, u = complete_current_file(t, success)
  PROVE  IsTracker(u) /\ u.current_file = NoName /\ u.queue = t.queue
<1>1. CASE t.current_file = NoName
  BY <1>1 DEF complete_current_file
<1>2. CASE t.current_file # NoName
  <2>1. DOMAIN u = DOMAIN t /\ u.queue = t.queue /\ u.current_file = NoName
    BY <1>2 DEF complete_current_file, IsTracker
  <2> QED
    BY <2>1 DEF IsTracker
<1> QED
  BY <1>1, <1>2

LEMMA QueueIsNew == IsTracker(NewTracker) /\ NewTracker.current_file = NoName
                    /\ \A n \in SpoolNames : NewTracker.queue[n] = 0
BY DEF NewTracker, IsTracker

(* Where keysas-in is in its pass.                                          *)
AtWork ==
  /\ spool \subseteq SpoolNames /\ gone \subseteq SpoolNames
  /\ IsTracker(tracker)
  /\ inAt \in {"orphaned", "accept", "list", "pass", "open", "send", "unlink"}
  /\ inAt \in {"open", "send", "unlink"} =>
       handled \in SpoolNames \ batch /\ tracker.queue[handled] = 0
  /\ inAt \in {"open", "send"} => tracker.current_file = handled
  /\ inAt = "unlink" => tracker.current_file = NoName

(* All that is listed, queued or current is in sas_in, or was taken away:   *)
(* between the sending of a file and its removal nothing names it any more. *)
Found ==
  /\ batch \subseteq spool \cup gone
  /\ \A n \in SpoolNames :
       tracker.queue[n] # 0 \/ tracker.current_file = n => n \in spool \cup gone

LEMMA WorkInit == ProgressInit => AtWork /\ Found
BY QueueIsNew, ProgressAssumption DEF ProgressInit, AtWork, Found

LEMMA WorkStays ==
  AtWork /\ Found /\ [ProgressNext]_progressVars => AtWork' /\ Found'
<1> SUFFICES ASSUME AtWork, Found, [ProgressNext]_progressVars
             PROVE  AtWork' /\ Found'
  OBVIOUS
<1>0. IsTracker(tracker) /\ NoName \notin SpoolNames
  BY ProgressAssumption DEF AtWork
<1>1. CASE SpoolAccept \/ SpoolEnd \/ TransitRestarts
  BY <1>1 DEF SpoolAccept, SpoolEnd, TransitRestarts, AtWork, Found
<1>2. CASE SpoolList
  <2>1. tracker' = add_files_to_queue(tracker, spool)
    BY <1>2 DEF SpoolList, Publish
  <2>2. /\ IsTracker(tracker') /\ tracker'.current_file = tracker.current_file
        /\ \A n \in SpoolNames : n \notin spool => tracker'.queue[n] = tracker.queue[n]
    BY <1>0, <2>1, QueueAdds
  <2> QED
    BY <1>2, <2>2 DEF SpoolList, AtWork, Found
<1>3. ASSUME NEW n \in SpoolNames, SpoolStart(n)
      PROVE  AtWork' /\ Found'
  <2>1. tracker' = start_next_file(tracker, n)
    BY <1>3 DEF SpoolStart, Publish
  <2>2. /\ IsTracker(tracker') /\ tracker'.current_file = n
        /\ tracker'.queue = [tracker.queue EXCEPT ![n] = 0]
    BY <1>0, <2>1, QueueStarts
  <2>3. /\ tracker'.queue[n] = 0
        /\ \A m \in SpoolNames : tracker'.queue[m] # 0 => tracker.queue[m] # 0
    BY <1>0, <2>2 DEF IsTracker
  <2> QED
    BY <1>3, <2>2, <2>3 DEF SpoolStart, AtWork, Found
<1>4. CASE SpoolOpenFails
  <2>1. tracker' = complete_current_file(tracker, FALSE)
    BY <1>4 DEF SpoolOpenFails, Publish
  <2>2. IsTracker(tracker') /\ tracker'.current_file = NoName
        /\ tracker'.queue = tracker.queue
    BY <1>0, <2>1, QueueCompletes
  <2>3. /\ (inAt' = "pass" /\ batch' = batch) \/ (inAt' = "accept" /\ batch' = {})
        /\ UNCHANGED <<spool, gone>>
    BY <1>4 DEF SpoolOpenFails
  <2>4. AtWork'
    BY <2>2, <2>3 DEF AtWork
  <2>5. Found'
    BY <1>0, <2>2, <2>3 DEF Found
  <2> QED
    BY <2>4, <2>5
<1>5. CASE SpoolOpen
  <2>1. PICK taken : taken \subseteq spool /\ spool' = spool \ taken
                     /\ gone' = gone \cup taken
    BY <1>5 DEF SpoolOpen
  <2>2. inAt' = "send" /\ inAt = "open" /\ UNCHANGED <<batch, handled, tracker>>
    BY <1>5 DEF SpoolOpen
  <2>3. spool' \cup gone' = spool \cup gone /\ spool' \subseteq SpoolNames
        /\ gone' \subseteq SpoolNames
    BY <2>1 DEF AtWork
  <2> QED
    BY <2>2, <2>3 DEF AtWork, Found
<1>6. CASE SpoolSend
  <2>1. tracker' = complete_current_file(tracker, TRUE)
    BY <1>6 DEF SpoolSend, Publish
  <2>2. IsTracker(tracker') /\ tracker'.current_file = NoName
        /\ tracker'.queue = tracker.queue
    BY <1>0, <2>1, QueueCompletes
  <2> QED
    BY <1>0, <1>6, <2>2 DEF SpoolSend, AtWork, Found
<1>7. CASE SpoolUnlink
  BY <1>0, <1>7 DEF SpoolUnlink, AtWork, Found
<1>8. CASE SpoolSendFails
  BY <1>8 DEF SpoolSendFails, AtWork, Found
<1>9. CASE SpoolCrash
  <2>1. /\ tracker' = NewTracker /\ inAt' \in {"orphaned", "accept"} /\ batch' = {}
        /\ UNCHANGED <<spool, gone>>
    BY <1>9 DEF SpoolCrash
  <2> QED
    BY <1>0, <2>1, QueueIsNew DEF AtWork, Found
<1>10. ASSUME NEW n \in SpoolNames, Put(n) \/ TakeAway(n)
       PROVE  AtWork' /\ Found'
  BY <1>10 DEF Put, TakeAway, AtWork, Found
<1>11. CASE UNCHANGED progressVars
  BY <1>11 DEF progressVars, AtWork, Found
<1> QED
  BY <1>1, <1>2, <1>3, <1>4, <1>5, <1>6, <1>7, <1>8, <1>9, <1>10, <1>11
     DEF ProgressNext, SpoolStep

(* What every behaviour of keysas-in and its tracker does, fair or not.     *)
ProgressSpec == ProgressInit /\ [][ProgressNext]_progressVars

(* A name that add_files_to_queue queued, or start_next_file made the       *)
(* current one, and that a lost connection left so, is still in sas_in when *)
(* the next pass begins, unless it was taken away: complete_current_file    *)
(* comes before the file is removed, never after.                           *)
THEOREM NoGhostStays == ProgressSpec => []GhostsAreGone
<1>1. ProgressInit => AtWork /\ Found
  BY WorkInit
<1>2. AtWork /\ Found /\ [ProgressNext]_progressVars => AtWork' /\ Found'
  BY WorkStays
<1>3. AtWork /\ Found => GhostsAreGone
  BY DEF Found, GhostsAreGone
<1> QED
  BY <1>1, <1>2, <1>3, PTL DEF ProgressSpec

------------------------------------------------------------------------------
(* The length of the queue.  FoldFunction adds up the numbers of the queue  *)
(* in an order of its own; that it gives the number of places of the queue  *)
(* is an induction over the sets of names, done by a smallest               *)
(* counterexample, and what an operation does to the length follows from    *)
(* what it does to the places.                                              *)

(* Among subsets of a finite set there is a smallest one: what holds of a   *)
(* set when it holds of the set less any element holds of them all.         *)
LEMMA SmallestSubset ==
  ASSUME NEW S, IsFiniteSet(S), NEW B, B \subseteq SUBSET S, B # {}
  PROVE  \E s \in B : \A x \in s : s \ {x} \notin B
<1> DEFINE R == StrictSubsetOrdering(S)
<1>1. IsWellFoundedOn(R, FiniteSubsetsOf(S)) /\ FiniteSubsetsOf(S) = SUBSET S
  BY FS_StrictSubsetOrderingWellFounded, FS_FiniteSubsetsOfFinite
<1> HIDE DEF R
<1>2. PICK s \in B : \A r \in B : ~ (<<r, s>> \in R)
  BY <1>1, WFMin
<1>3. ASSUME NEW x \in s, s \ {x} \in B PROVE FALSE
  <2> DEFINE pair == <<s \ {x}, s>>
  <2>1. /\ pair \in (SUBSET S) \X (SUBSET S) /\ pair[1] \subseteq pair[2]
        /\ pair[1] # pair[2]
    BY <1>3
  <2> HIDE DEF pair
  <2>2. pair \in R
    BY <2>1 DEF R, StrictSubsetOrdering
  <2> QED
    BY <1>2, <1>3, <2>2 DEF pair
<1> QED
  BY <1>3

(* The places of a queue q where a name of s stands.                        *)
Entries(q, s) == {place \in s \X Nat : place[2] \in 1 .. q[place[1]]}

LEMMA EntriesAdd ==
  ASSUME NEW S, NEW q \in [S -> Nat], NEW s \in SUBSET S, NEW x \in s,
         IsFiniteSet(Entries(q, s \ {x}))
  PROVE  /\ IsFiniteSet(Entries(q, s))
         /\ Cardinality(Entries(q, s)) = q[x] + Cardinality(Entries(q, s \ {x}))
<1> DEFINE old == Entries(q, s \ {x})
           new == {x} \X (1 .. q[x])
<1>1. IsFiniteSet({x}) /\ Cardinality({x}) = 1
  BY FS_Singleton
<1>2. q[x] \in Nat
  OBVIOUS
<1>3. IsFiniteSet(1 .. q[x]) /\ Cardinality(1 .. q[x]) = q[x]
  BY <1>2, FS_Interval
<1>4. IsFiniteSet(new) /\ Cardinality(new) = 1 * q[x]
  BY <1>1, <1>3, FS_Product
<1>5. Entries(q, s) = old \cup new
  BY <1>2 DEF Entries
<1>6. old \cap new = {}
  BY DEF Entries
<1>7. Cardinality(old \cap new) = 0
  BY <1>6, FS_EmptySet
<1> HIDE DEF old, new
<1>8. /\ IsFiniteSet(old \cup new)
      /\ Cardinality(old \cup new) = Cardinality(old) + Cardinality(new)
                                       - Cardinality(old \cap new)
  BY <1>4, FS_Union DEF old
<1>9. Cardinality(old) \in Nat
  BY FS_CardinalityType DEF old
<1> QED
  BY <1>2, <1>4, <1>5, <1>7, <1>8, <1>9 DEF old

LEMMA EntriesFinite ==
  ASSUME NEW S, IsFiniteSet(S), NEW q \in [S -> Nat]
  PROVE  \A s \in SUBSET S : IsFiniteSet(Entries(q, s))
<1> DEFINE B == {s \in SUBSET S : ~ IsFiniteSet(Entries(q, s))}
<1> SUFFICES ASSUME B # {} PROVE FALSE
  OBVIOUS
<1>1. B \subseteq SUBSET S
  OBVIOUS
<1> HIDE DEF B
<1>2. PICK s \in B : \A x \in s : s \ {x} \notin B
  BY <1>1, SmallestSubset
<1>3. s \in SUBSET S /\ ~ IsFiniteSet(Entries(q, s))
  BY DEF B
<1>4. s # {}
  <2>1. Entries(q, {}) = {}
    BY DEF Entries
  <2> QED
    BY <1>3, <2>1, FS_EmptySet
<1>5. PICK x \in s : TRUE
  BY <1>4
<1>6. IsFiniteSet(Entries(q, s \ {x}))
  BY <1>2, <1>3, <1>5 DEF B
<1> QED
  BY <1>3, <1>6, EntriesAdd

(* What FoldFunction computes: an element is taken, and the sum of the      *)
(* others added to it.                                                      *)
Recursion(q, S, iter) ==
  iter = [s \in SUBSET S |->
            IF s = {} THEN 0
            ELSE LET x == CHOOSE x \in s : TRUE IN q[x] + iter[s \ {x}]]

LEMMA CountsRecursion ==
  ASSUME NEW S, IsFiniteSet(S), NEW q \in [S -> Nat]
  PROVE  /\ \E iter : Recursion(q, S, iter)
         /\ \A iter : Recursion(q, S, iter) =>
              \A s \in SUBSET S : iter[s] = Cardinality(Entries(q, s))
<1> DEFINE first(s) == CHOOSE x \in s : TRUE
<1>1. \A s \in SUBSET S : s # {} => first(s) \in s
  OBVIOUS
<1>2. \A s \in SUBSET S : s # {} => 
        Cardinality(Entries(q, s)) = q[first(s)] + Cardinality(Entries(q, s \ {first(s)}))
  <2> TAKE s \in SUBSET S
  <2> HAVE s # {}
  <2>1. first(s) \in s /\ s \ {first(s)} \in SUBSET S
    BY <1>1
  <2> HIDE DEF first
  <2> QED
    BY <2>1, EntriesFinite, EntriesAdd
<1>3. Cardinality(Entries(q, {})) = 0
  <2>1. Entries(q, {}) = {}
    BY DEF Entries
  <2> QED
    BY <2>1, FS_EmptySet
<1>4. Recursion(q, S, [s \in SUBSET S |-> Cardinality(Entries(q, s))])
  <2> DEFINE it == [s \in SUBSET S |-> Cardinality(Entries(q, s))]
  <2>1. ASSUME NEW s \in SUBSET S
        PROVE  Cardinality(Entries(q, s)) =
                 IF s = {} THEN 0 ELSE q[first(s)] + it[s \ {first(s)}]
    <3>1. s \ {first(s)} \in SUBSET S
      OBVIOUS
    <3> QED
      BY <1>2, <1>3, <3>1
  <2> QED
    BY <2>1 DEF Recursion
<1>5. ASSUME NEW iter, Recursion(q, S, iter)
      PROVE  \A s \in SUBSET S : iter[s] = Cardinality(Entries(q, s))
  <2> DEFINE B == {s \in SUBSET S : iter[s] # Cardinality(Entries(q, s))}
  <2> SUFFICES ASSUME B # {} PROVE FALSE
    OBVIOUS
  <2>1. B \subseteq SUBSET S
    OBVIOUS
  <2> HIDE DEF B
  <2>2. PICK s \in B : \A x \in s : s \ {x} \notin B
    BY <2>1, SmallestSubset
  <2>3. s \in SUBSET S /\ iter[s] # Cardinality(Entries(q, s))
    BY DEF B
  <2>4. iter[s] = IF s = {} THEN 0 ELSE q[first(s)] + iter[s \ {first(s)}]
    BY <1>5, <2>3 DEF Recursion
  <2>5. s # {} /\ first(s) \in s
    BY <1>1, <1>3, <2>3, <2>4
  <2>6. iter[s \ {first(s)}] = Cardinality(Entries(q, s \ {first(s)}))
    BY <2>2, <2>3, <2>5 DEF B
  <2> QED
    BY <1>2, <2>3, <2>4, <2>5, <2>6
<1> QED
  BY <1>4, <1>5

LEMMA QueueLengthCounts ==
  ASSUME NEW t, t.queue \in [SpoolNames -> Nat]
  PROVE  /\ QueueLength(t) = Cardinality(Entries(t.queue, SpoolNames))
         /\ IsFiniteSet(Entries(t.queue, SpoolNames))
<1>1. IsFiniteSet(SpoolNames)
  BY ProgressAssumption
<1> DEFINE chosen == CHOOSE iter : Recursion(t.queue, SpoolNames, iter)
<1>2. Recursion(t.queue, SpoolNames, chosen)
  BY <1>1, CountsRecursion
<1>3. QueueLength(t) = chosen[SpoolNames]
  BY DEF QueueLength, FoldFunction, FoldFunctionOnSet, MapThenFoldSet, Recursion
<1> QED
  BY <1>1, <1>2, <1>3, CountsRecursion, EntriesFinite

LEMMA QueueSum ==
  ASSUME NEW t, t.queue \in [SpoolNames -> Nat]
  PROVE  /\ QueueLength(t) \in Nat
         /\ (\A n \in SpoolNames : t.queue[n] = 0) => QueueLength(t) = 0
         /\ \A u : u.queue = t.queue => QueueLength(u) = QueueLength(t)
         /\ \A u : \A n \in SpoolNames :
              u.queue = [t.queue EXCEPT ![n] = 0] =>
                QueueLength(u) \in Nat /\ QueueLength(t) = t.queue[n] + QueueLength(u)
<1> DEFINE q == t.queue
<1>1. IsFiniteSet(SpoolNames)
  BY ProgressAssumption
<1>2. QueueLength(t) = Cardinality(Entries(q, SpoolNames)) /\ QueueLength(t) \in Nat
  BY QueueLengthCounts, FS_CardinalityType
<1>3. ASSUME \A n \in SpoolNames : q[n] = 0 PROVE QueueLength(t) = 0
  <2>1. Entries(q, SpoolNames) = {}
    BY <1>3 DEF Entries
  <2> QED
    BY <1>2, <2>1, FS_EmptySet
<1>4. ASSUME NEW u, u.queue = q PROVE QueueLength(u) = QueueLength(t)
  BY <1>2, <1>4, QueueLengthCounts
<1>5. ASSUME NEW u, NEW n \in SpoolNames, u.queue = [q EXCEPT ![n] = 0]
      PROVE  QueueLength(u) \in Nat /\ QueueLength(t) = q[n] + QueueLength(u)
  <2> DEFINE others == SpoolNames \ {n}
  <2>1. /\ u.queue \in [SpoolNames -> Nat] /\ u.queue[n] = 0
        /\ \A m \in others : u.queue[m] = q[m]
    BY <1>5
  <2>2. Entries(u.queue, others) = Entries(q, others)
    BY <2>1 DEF Entries
  <2>3. IsFiniteSet(Entries(q, others)) /\ Cardinality(Entries(q, others)) \in Nat
    BY <1>1, EntriesFinite, FS_CardinalityType
  <2>4. Cardinality(Entries(q, SpoolNames)) = q[n] + Cardinality(Entries(q, others))
    BY <2>3, EntriesAdd
  <2>5. Cardinality(Entries(u.queue, SpoolNames)) = 0 + Cardinality(Entries(q, others))
    <3>1. IsFiniteSet(Entries(u.queue, others))
      BY <2>2, <2>3
    <3>2. SpoolNames \in SUBSET SpoolNames
      OBVIOUS
    <3>3. Cardinality(Entries(u.queue, SpoolNames))
            = u.queue[n] + Cardinality(Entries(u.queue, others))
      BY <2>1, <3>1, <3>2, EntriesAdd
    <3> QED
      BY <2>1, <2>2, <3>3
  <2>6. QueueLength(u) = Cardinality(Entries(u.queue, SpoolNames))
    BY <2>1, QueueLengthCounts
  <2> QED
    BY <1>2, <2>3, <2>4, <2>5, <2>6
<1> QED
  BY <1>2, <1>3, <1>4, <1>5

------------------------------------------------------------------------------
(* What the operations of the tracker make of its counts. *)

LEMMA TrackerAdds ==
  ASSUME NEW t \in Trackers, NEW names, NEW u, u = add_files_to_queue(t, names)
  PROVE  /\ u \in Trackers /\ u.current_file = t.current_file
         /\ u.processed_files = t.processed_files /\ u.failed_files = t.failed_files
         /\ u.total_files = QueueLength(u) + t.processed_files + t.failed_files
         /\ \A n \in SpoolNames : u.queue[n] = t.queue[n] + IF n \in names THEN 1 ELSE 0
<1> DEFINE queue == [n \in SpoolNames |-> t.queue[n] + IF n \in names THEN 1 ELSE 0]
           length == QueueLength([t EXCEPT !.queue = queue])
<1>1. queue \in [SpoolNames -> Nat]
  BY DEF Trackers
<1>2. \A n \in SpoolNames : queue[n] = t.queue[n] + IF n \in names THEN 1 ELSE 0
  OBVIOUS
<1>3. u = [t EXCEPT !.queue = queue, !.total_files = length + t.processed_files + t.failed_files]
  BY DEF add_files_to_queue
<1> HIDE DEF queue
<1>4. [t EXCEPT !.queue = queue].queue = queue
  BY DEF Trackers
<1>5. length \in Nat
  BY <1>1, <1>4, QueueSum
<1>6. u.queue = queue
  BY <1>3 DEF Trackers
<1>7. QueueLength(u) = length
  BY <1>1, <1>4, <1>6, QueueSum
<1> HIDE DEF length
<1>8. u.total_files = QueueLength(u) + t.processed_files + t.failed_files /\ u.total_files \in Nat
  BY <1>3, <1>5, <1>7 DEF Trackers
<1>9. /\ u \in Trackers /\ u.current_file = t.current_file
      /\ u.processed_files = t.processed_files /\ u.failed_files = t.failed_files
  <2> DEFINE total == length + t.processed_files + t.failed_files
  <2>1. total \in Nat
    BY <1>5 DEF Trackers
  <2>2. u = [t EXCEPT !.queue = queue, !.total_files = total]
    BY <1>3
  <2> HIDE DEF total
  <2> QED
    BY <1>1, <2>1, <2>2 DEF Trackers
<1> QED
  BY <1>2, <1>6, <1>8, <1>9

LEMMA TrackerStarts ==
  ASSUME NEW t \in Trackers, NEW n \in SpoolNames, NEW u, u = start_next_file(t, n)
  PROVE  /\ u \in Trackers /\ u.current_file = n
         /\ u.processed_files = t.processed_files /\ u.failed_files = t.failed_files
         /\ u.total_files = t.total_files
         /\ u.queue = [t.queue EXCEPT ![n] = 0]
         /\ QueueLength(u) \in Nat /\ QueueLength(t) = t.queue[n] + QueueLength(u)
<1>1. u.queue = [t.queue EXCEPT ![n] = 0]
  BY DEF start_next_file, Trackers
<1>2. QueueLength(u) \in Nat /\ QueueLength(t) = t.queue[n] + QueueLength(u)
  <2>1. t.queue \in [SpoolNames -> Nat]
    BY DEF Trackers
  <2> QED
    BY <1>1, <2>1, QueueSum
<1> QED
  BY <1>1, <1>2 DEF start_next_file, Trackers

LEMMA TrackerCompletes ==
  ASSUME NEW t \in Trackers, t.current_file # NoName, NEW success \in BOOLEAN,
         NEW u, u = complete_current_file(t, success)
  PROVE  /\ u \in Trackers
         /\ u.processed_files + u.failed_files = t.processed_files + t.failed_files + 1
         /\ u.total_files = t.total_files /\ u.queue = t.queue
         /\ QueueLength(u) = QueueLength(t)
<1> DEFINE processed == t.processed_files + IF success THEN 1 ELSE 0
           failed == t.failed_files + IF success THEN 0 ELSE 1
           rests == t.is_processing /\ QueueLength(t) # 0
<1>1. u = [t EXCEPT !.current_file = NoName, !.processed_files = processed,
                    !.failed_files = failed, !.is_processing = rests]
  BY DEF complete_current_file
<1>2. /\ processed \in Nat /\ failed \in Nat
      /\ processed + failed = t.processed_files + t.failed_files + 1
  BY DEF Trackers
<1>3. rests \in BOOLEAN
  OBVIOUS
<1> HIDE DEF processed, failed, rests
<1>4. u.queue = t.queue /\ t.queue \in [SpoolNames -> Nat]
  BY <1>1 DEF Trackers
<1>5. QueueLength(u) = QueueLength(t)
  BY <1>4, QueueSum
<1> QED
  BY <1>1, <1>2, <1>3, <1>4, <1>5 DEF Trackers

------------------------------------------------------------------------------
(* The names of a pass that are still to come are queued; and when no pass  *)
(* was cut short, they alone, and once each.                                *)
Queued ==
  /\ inAt \in {"orphaned", "accept", "list"} => batch = {}
  /\ \A n \in batch : tracker.queue[n] # 0
  /\ ~cut => \A n \in SpoolNames : tracker.queue[n] = IF n \in batch THEN 1 ELSE 0

Counted == ProgressTypeOK /\ Queued /\ CountsAddUp

LEMMA NewTrackerCounts ==
  /\ NewTracker \in Trackers /\ QueueLength(NewTracker) = 0
  /\ \A n \in SpoolNames : NewTracker.queue[n] = 0
<1>1. /\ NewTracker.queue \in [SpoolNames -> Nat]
      /\ \A n \in SpoolNames : NewTracker.queue[n] = 0
  BY DEF NewTracker
<1>2. QueueLength(NewTracker) = 0
  BY <1>1, QueueSum
<1> QED
  BY <1>1, <1>2 DEF NewTracker, Trackers

LEMMA CountedInit == ProgressInit => Counted
<1> SUFFICES ASSUME ProgressInit PROVE Counted
  OBVIOUS
<1>1. tracker = NewTracker /\ published = NewTracker /\ inAt = "accept" /\ batch = {}
  BY DEF ProgressInit
<1>2. ProgressTypeOK
  <2>1. 0 \in 0 .. MaxPuts /\ 0 \in 0 .. ProgressMaxMishaps
    BY ProgressAssumption
  <2>2. (handled # NoName) = FALSE /\ (inAt \in {"open", "send", "unlink"}) = FALSE
        /\ (inAt \in {"open", "send"}) = FALSE
    BY DEF ProgressInit
  <2> QED
    BY <1>1, <2>1, <2>2, NewTrackerCounts DEF ProgressInit, ProgressTypeOK
<1>3. Queued
  BY <1>1, NewTrackerCounts DEF Queued
<1>4. CountsAddUp
  <2>1. /\ tracker.processed_files = 0 /\ tracker.failed_files = 0
        /\ tracker.total_files = 0 /\ QueueLength(tracker) = 0
    BY <1>1, NewTrackerCounts DEF NewTracker
  <2> QED
    BY <1>1, <2>1 DEF CountsAddUp
<1> QED
  BY <1>2, <1>3, <1>4 DEF Counted

(* The steps that leave the tracker alone. *)
LEMMA CountedElsewhere ==
  ASSUME Counted,
         \/ SpoolAccept \/ SpoolOpen \/ SpoolUnlink \/ SpoolEnd \/ SpoolSendFails
         \/ TransitRestarts
         \/ \E n \in SpoolNames : Put(n) \/ TakeAway(n)
         \/ UNCHANGED progressVars
  PROVE  Counted'
<1>0. ProgressTypeOK /\ Queued /\ CountsAddUp /\ NoName \notin SpoolNames
      /\ UNCHANGED <<tracker, published>>
      /\ MaxPuts \in Nat /\ ProgressMaxMishaps \in Nat
  BY ProgressAssumption DEF Counted, SpoolAccept, SpoolOpen, SpoolUnlink, SpoolEnd,
       SpoolSendFails, TransitRestarts, Put, TakeAway, progressVars
<1>1. CASE SpoolAccept \/ SpoolUnlink \/ SpoolEnd \/ TransitRestarts
  <2>1. ProgressTypeOK'
    BY <1>0, <1>1 DEF SpoolAccept, SpoolUnlink, SpoolEnd, TransitRestarts, ProgressTypeOK
  <2>2. Queued'
    BY <1>0, <1>1 DEF SpoolAccept, SpoolUnlink, SpoolEnd, TransitRestarts, Queued
  <2>3. CountsAddUp'
    BY <1>0, <1>1 DEF SpoolAccept, SpoolUnlink, SpoolEnd, TransitRestarts, CountsAddUp
  <2> QED
    BY <2>1, <2>2, <2>3 DEF Counted
<1>2. CASE SpoolOpen
  <2>1. /\ inAt = "open" /\ inAt' = "send" /\ spool' \subseteq spool
        /\ gone' \subseteq gone \cup spool
        /\ UNCHANGED <<batch, handled, puts, progressMishaps, cut>>
    BY <1>2 DEF SpoolOpen
  <2>2. ProgressTypeOK'
    BY <1>0, <2>1 DEF ProgressTypeOK
  <2>3. Queued' /\ CountsAddUp'
    BY <1>0, <2>1 DEF Queued, CountsAddUp
  <2> QED
    BY <2>2, <2>3 DEF Counted
<1>3. CASE SpoolSendFails
  <2>1. /\ inAt = "send" /\ inAt' = "accept" /\ batch' = {} /\ handled' = NoName
        /\ cut' = TRUE /\ UNCHANGED <<spool, puts, gone>>
        /\ progressMishaps' = progressMishaps + 1
        /\ progressMishaps < ProgressMaxMishaps
    BY <1>3 DEF SpoolSendFails
  <2>2. ProgressTypeOK'
    BY <1>0, <2>1 DEF ProgressTypeOK
  <2>3. Queued' /\ CountsAddUp'
    BY <1>0, <2>1 DEF Queued, CountsAddUp
  <2> QED
    BY <2>2, <2>3 DEF Counted
<1>4. ASSUME NEW n \in SpoolNames, Put(n) \/ TakeAway(n) PROVE Counted'
  <2>1. ProgressTypeOK'
    BY <1>0, <1>4 DEF Put, TakeAway, ProgressTypeOK
  <2>2. UNCHANGED <<inAt, batch, cut>>
    BY <1>4 DEF Put, TakeAway
  <2>3. Queued' /\ CountsAddUp'
    BY <1>0, <2>2 DEF Queued, CountsAddUp
  <2> QED
    BY <2>1, <2>3 DEF Counted
<1>5. CASE UNCHANGED progressVars
  BY <1>0, <1>5 DEF progressVars, Counted, ProgressTypeOK, Queued, CountsAddUp
<1> QED
  BY <1>1, <1>2, <1>3, <1>4, <1>5

LEMMA CountedList == Counted /\ SpoolList => Counted'
<1> SUFFICES ASSUME Counted, SpoolList PROVE Counted'
  OBVIOUS
<1>0. ProgressTypeOK /\ Queued /\ CountsAddUp /\ tracker \in Trackers
  BY DEF Counted, ProgressTypeOK
<1>1. /\ tracker' = add_files_to_queue(tracker, spool) /\ published' = tracker'
      /\ inAt = "list" /\ inAt' = "pass" /\ batch = {} /\ batch' = spool
      /\ UNCHANGED <<spool, handled, puts, progressMishaps, cut, gone>>
  BY <1>0 DEF SpoolList, Publish, Queued
<1> DEFINE length == QueueLength(tracker')
<1>2. /\ tracker' \in Trackers
      /\ tracker'.processed_files = tracker.processed_files
      /\ tracker'.failed_files = tracker.failed_files
      /\ tracker'.total_files = length + tracker.processed_files + tracker.failed_files
      /\ \A n \in SpoolNames :
           tracker'.queue[n] = tracker.queue[n] + IF n \in spool THEN 1 ELSE 0
  BY <1>0, <1>1, TrackerAdds
<1>3. ProgressTypeOK'
  BY <1>0, <1>1, <1>2 DEF ProgressTypeOK
<1>4. Queued'
  <2>1. \A n \in SpoolNames : tracker.queue[n] \in Nat
    BY <1>0 DEF Trackers
  <2>2. spool \subseteq SpoolNames
    BY <1>0 DEF ProgressTypeOK
  <2>3. \A n \in spool : tracker'.queue[n] # 0
    BY <1>2, <2>1, <2>2
  <2>4. ~cut => \A n \in SpoolNames : tracker'.queue[n] = IF n \in spool THEN 1 ELSE 0
    BY <1>0, <1>1, <1>2 DEF Queued
  <2> QED
    BY <1>1, <2>3, <2>4 DEF Queued
<1>5. CountsAddUp'
  <2>1. length \in Nat /\ tracker.processed_files \in Nat /\ tracker.failed_files \in Nat
    <3>1. tracker'.queue \in [SpoolNames -> Nat]
      BY <1>2 DEF Trackers
    <3> QED
      BY <1>0, <3>1, QueueSum DEF Trackers
  <2> HIDE DEF length
  <2>2. (QueueLength(tracker))' = length
    BY DEF length
  <2> QED
    BY <1>1, <1>2, <2>1, <2>2 DEF CountsAddUp
<1> QED
  BY <1>3, <1>4, <1>5 DEF Counted

LEMMA CountedStart ==
  ASSUME Counted, NEW n \in SpoolNames, SpoolStart(n)
  PROVE  Counted'
<1>0. ProgressTypeOK /\ Queued /\ CountsAddUp /\ tracker \in Trackers
      /\ NoName \notin SpoolNames
  BY ProgressAssumption DEF Counted, ProgressTypeOK
<1>1. /\ tracker' = start_next_file(tracker, n) /\ published' = tracker'
      /\ inAt = "pass" /\ inAt' = "open" /\ n \in batch /\ batch' = batch \ {n}
      /\ handled' = n
      /\ UNCHANGED <<spool, puts, progressMishaps, cut, gone>>
  BY DEF SpoolStart, Publish
<1> DEFINE length == QueueLength(tracker')
<1>2. /\ tracker' \in Trackers /\ tracker'.current_file = n
      /\ tracker'.processed_files = tracker.processed_files
      /\ tracker'.failed_files = tracker.failed_files
      /\ tracker'.total_files = tracker.total_files
      /\ tracker'.queue = [tracker.queue EXCEPT ![n] = 0]
      /\ length \in Nat /\ QueueLength(tracker) = tracker.queue[n] + length
  BY <1>0, <1>1, TrackerStarts
<1>3. ProgressTypeOK'
  BY <1>0, <1>1, <1>2 DEF ProgressTypeOK
<1>4. tracker.queue \in [SpoolNames -> Nat]
  BY <1>0 DEF Trackers
<1>5. Queued'
  BY <1>0, <1>1, <1>2, <1>4 DEF Queued
<1>6. CountsAddUp'
  <2>1. /\ tracker.processed_files \in Nat /\ tracker.failed_files \in Nat
        /\ tracker.total_files \in Nat /\ tracker.queue[n] \in Nat \ {0}
        /\ ~cut => tracker.queue[n] = 1
    BY <1>0, <1>1, <1>4 DEF Trackers, Queued
  <2> HIDE DEF length
  <2>2. (QueueLength(tracker))' = length
    BY DEF length
  <2> QED
    BY <1>0, <1>1, <1>2, <2>1, <2>2 DEF CountsAddUp
<1> QED
  BY <1>3, <1>5, <1>6 DEF Counted

(* A file is done, and keysas-in goes on, or its pass was cut short. *)
LEMMA CountedDone ==
  ASSUME Counted, SpoolOpenFails \/ SpoolSend
  PROVE  Counted'
<1>0. ProgressTypeOK /\ Queued /\ CountsAddUp /\ tracker \in Trackers
      /\ NoName \notin SpoolNames /\ ProgressMaxMishaps \in Nat
  BY ProgressAssumption DEF Counted, ProgressTypeOK
<1>1. PICK success \in BOOLEAN : tracker' = complete_current_file(tracker, success)
  BY DEF SpoolOpenFails, SpoolSend, Publish
<1>2. /\ published' = tracker' /\ inAt \in {"open", "send"}
      /\ UNCHANGED <<spool, puts, gone>>
      /\ \/ inAt' = "pass" /\ handled' = NoName /\ UNCHANGED <<batch, cut>>
         \/ inAt' = "accept" /\ handled' = NoName /\ batch' = {} /\ cut' = TRUE
         \/ inAt' = "unlink" /\ UNCHANGED <<handled, batch, cut>>
  BY DEF SpoolOpenFails, SpoolSend, Publish
<1>3. progressMishaps' \in 0 .. ProgressMaxMishaps
  <2>1. CASE SpoolOpenFails
    <3>1. PICK unread \in {0, 1}, broken \in {0, 1} :
            /\ progressMishaps' = progressMishaps + unread + broken
            /\ progressMishaps' <= ProgressMaxMishaps
      BY <2>1 DEF SpoolOpenFails
    <3>2. unread \in Nat /\ broken \in Nat /\ progressMishaps \in Nat
      BY <1>0 DEF ProgressTypeOK
    <3> QED
      BY <1>0, <3>1, <3>2
  <2>2. CASE SpoolSend
    BY <1>0, <2>2 DEF SpoolSend, ProgressTypeOK
  <2> QED
    BY <2>1, <2>2
<1>4. tracker.current_file # NoName
  BY <1>0, <1>2 DEF ProgressTypeOK
<1> DEFINE done == tracker.processed_files + tracker.failed_files
           length == QueueLength(tracker')
<1>5. /\ tracker' \in Trackers
      /\ tracker'.processed_files + tracker'.failed_files = done + 1
      /\ tracker'.total_files = tracker.total_files /\ tracker'.queue = tracker.queue
      /\ length = QueueLength(tracker)
  BY <1>0, <1>1, <1>4, TrackerCompletes
<1>6. ProgressTypeOK'
  <2>1. /\ spool \subseteq SpoolNames /\ batch \subseteq SpoolNames
        /\ handled \in SpoolNames \cup {NoName} /\ handled # NoName
        /\ puts \in 0 .. MaxPuts /\ cut \in BOOLEAN /\ gone \subseteq SpoolNames
    BY <1>0, <1>2 DEF ProgressTypeOK
  <2>2. /\ inAt' \in {"accept", "pass", "unlink"}
        /\ handled' \in SpoolNames \cup {NoName}
        /\ (handled' # NoName) = (inAt' = "unlink")
        /\ batch' \subseteq SpoolNames /\ cut' \in BOOLEAN
    BY <1>2, <2>1
  <2> HIDE DEF done, length
  <2> QED
    BY <1>2, <1>3, <1>5, <2>1, <2>2 DEF ProgressTypeOK
<1>7. Queued'
  BY <1>0, <1>2, <1>5 DEF Queued
<1>8. CountsAddUp'
  <2>1. done \in Nat /\ tracker.total_files \in Nat /\ QueueLength(tracker) \in Nat
    BY <1>0, QueueSum DEF Trackers
  <2>2. /\ done + 1 + QueueLength(tracker) <= tracker.total_files
        /\ ~cut => done + 1 + QueueLength(tracker) = tracker.total_files
    BY <1>0, <1>2 DEF CountsAddUp
  <2> HIDE DEF done, length
  <2>3. (QueueLength(tracker))' = length
    BY DEF length
  <2> QED
    BY <1>2, <1>5, <2>1, <2>2, <2>3 DEF CountsAddUp
<1> QED
  BY <1>6, <1>7, <1>8 DEF Counted

LEMMA CountedCrash == Counted /\ SpoolCrash => Counted'
<1> SUFFICES ASSUME Counted, SpoolCrash PROVE Counted'
  OBVIOUS
<1>1. ProgressTypeOK /\ ProgressMaxMishaps \in Nat
  BY ProgressAssumption DEF Counted
<1>2. /\ tracker' = NewTracker /\ inAt' \in {"orphaned", "accept"}
      /\ batch' = {} /\ handled' = NoName
      /\ cut' = TRUE /\ UNCHANGED <<spool, published, puts, gone>>
      /\ progressMishaps' = progressMishaps + 1 /\ progressMishaps < ProgressMaxMishaps
  BY DEF SpoolCrash
<1>3. ProgressTypeOK'
  BY <1>1, <1>2, NewTrackerCounts DEF ProgressTypeOK
<1>4. Queued'
  BY <1>2 DEF Queued
<1>5. CountsAddUp'
  <2>1. /\ tracker'.processed_files = 0 /\ tracker'.failed_files = 0
        /\ tracker'.total_files = 0
    BY <1>2 DEF NewTracker
  <2> QED
    BY <1>2, <2>1 DEF CountsAddUp
<1> QED
  BY <1>3, <1>4, <1>5 DEF Counted

LEMMA CountedHolds == ProgressSpec => []Counted
<1>1. Counted /\ [ProgressNext]_progressVars => Counted'
  BY CountedElsewhere, CountedList, CountedStart, CountedDone, CountedCrash
     DEF ProgressNext, SpoolStep
<1> QED
  BY <1>1, CountedInit, PTL DEF ProgressSpec

(* The tracker, the batch and the place of keysas-in have values of their   *)
(* types, and start_next_file's current file is the one keysas-in opens and *)
(* sends, whatever connection is lost and whenever keysas-in dies.          *)
THEOREM ProgressTypeCorrect == ProgressSpec => []ProgressTypeOK
<1>1. Counted => ProgressTypeOK
  BY DEF Counted
<1> QED
  BY <1>1, CountedHolds, PTL

(* Through add_files_to_queue, start_next_file and complete_current_file,   *)
(* the files done, the current one and those queued are never more than the *)
(* total the percentage is taken of, though files are queued again after a  *)
(* lost connection; and exactly as many while no pass was cut short.        *)
THEOREM CountsStayTrue == ProgressSpec => []CountsAddUp
<1>1. Counted => CountsAddUp
  BY DEF Counted
<1> QED
  BY <1>1, CountedHolds, PTL
=============================================================================
