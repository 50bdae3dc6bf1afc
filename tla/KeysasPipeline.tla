---------------------------- MODULE KeysasPipeline ----------------------------
(***************************************************************************)
(* The keysas-core pipeline: keysas-in takes the files deposited in        *)
(* sas_in and sends their descriptors to keysas-transit, which checks them *)
(* and sends them to keysas-out, which writes the reports and the accepted *)
(* files to sas_out.  The three daemons are separate processes linked by   *)
(* two unix stream sockets; each may be killed between any two steps and   *)
(* is restarted by systemd.                                                *)
(*                                                                         *)
(* A path is a base name and a kind: <<f, "file">> is the file f and       *)
(* <<f, "ioerror">> is f.ioerror, which keysas-io leaves when it could not *)
(* read f, and which travels through the pipeline as any other file.       *)
(* Inodes are numbered in the order they are deposited; 0 is no inode.     *)
(***************************************************************************)
EXTENDS KeysasVerdict, FdChannel

CONSTANTS
  Files,        \* base names
  Rewrites,     \* <<c, d>>: a copy still in progress may turn c into d
  Replace,      \* a deposit may replace a file still in sas_in
  IoErrors,     \* keysas-io may fail to read a file, and leave a .ioerror
  Faults,       \* which failures happen
  MaxInodes,    \* bound: deposits
  MaxFaults,    \* bound: failures
  NoFile,       \* a daemon works on no file
  NoData,       \* sas_out has no such file, or no such report
  Partial       \* the content of a file whose copy is not finished

FaultKinds == {"in", "transit", "out", "io"}

ASSUME PipelineAssumption ==
  /\ Rewrites \subseteq Contents \X Contents
  /\ Replace \in BOOLEAN
  /\ IoErrors \in BOOLEAN
  /\ Faults \subseteq FaultKinds
  /\ MaxInodes \in Nat
  /\ MaxFaults \in Nat
  /\ Partial \notin Contents

(* Bytes already read do not come back while a copy is in progress. *)
ASSUME RewritesAssumption ==
  /\ \A c \in Contents : <<c, c>> \notin Rewrites
  /\ \A c, d, e \in Contents :
       <<c, d>> \in Rewrites /\ <<d, e>> \in Rewrites => <<c, e>> \in Rewrites

Paths == Files \X {"file", "ioerror"}
Inodes == 1 .. MaxInodes

(* What the daemons send each other, and what stands in sas_out. *)
InMessage == [path : Paths, ino : Inodes, digest : Contents,
              is_corrupted : BOOLEAN]
OutMessage == [path : Paths, ino : Inodes, digest : Contents, md : Metadata]
Channel(Message) == [snd : SenderStates, rcv : ReceiverStates,
                     dead : Nat, queue : Seq(Message)]
DataFile == [ino : Inodes, digest : Contents, bytes : Contents \cup {Partial}]
Report == [ino : Inodes, file_digest : Contents, is_valid : BOOLEAN]

ASSUME NoDataAssumption == NoData \notin DataFile

(* What stands for nothing is neither a file at hand nor a report. *)
ASSUME NothingAssumption ==
  /\ NoFile \notin InMessage /\ NoFile \notin OutMessage
  /\ NoData \notin Report /\ Partial \notin Report

VARIABLES
  content,      \* the bytes of every inode, Partial for one never deposited
  sasIn,        \* the inode at each path of sas_in, 0 for none
  inPc, batch, inFile,         \* keysas-in
  toTransit,                   \* the socket keysas-in listens on
  trPc, trFile, trCheck,       \* keysas-transit
  toOut,                       \* the socket keysas-transit listens on
  outPc, outFile,              \* keysas-out
  sasOut, krp,                 \* the files and the reports in sas_out
  faults,                      \* failures so far
  deposits,                    \* inodes deposited so far
  corrupt,                     \* history: listed next to their .ioerror
  unlinked,                    \* history: removed by unlinkat in keysas-in
  judged,                      \* history: keysas-out made their report
  newest                       \* history: last inode written at each path

inVars == <<inPc, batch, inFile>>
trVars == <<trPc, trFile, trCheck>>
outVars == <<outPc, outFile, sasOut, krp, judged, newest>>
envVars == <<content, deposits>>
vars == <<envVars, sasIn, inVars, toTransit, trVars, toOut, outVars, faults,
          corrupt, unlinked>>

Digest(i) == content[i]

MayFail(kind) == kind \in Faults /\ faults < MaxFaults
Fails(kind) == MayFail(kind) /\ faults' = faults + 1
------------------------------------------------------------------------------
Init ==
  /\ content = [i \in Inodes |-> Partial]
  /\ sasIn = [p \in Paths |-> 0]
  /\ inPc = "down" /\ batch = {} /\ inFile = NoFile
  /\ toTransit = Unbound
  /\ trPc = "down" /\ trFile = NoFile /\ trCheck = 1
  /\ toOut = Unbound
  /\ outPc = "down" /\ outFile = NoFile
  /\ sasOut = [p \in Paths |-> NoData]
  /\ krp = [p \in Paths |-> NoData]
  /\ faults = 0
  /\ deposits = 0
  /\ corrupt = {} /\ unlinked = {} /\ judged = {}
  /\ newest = [p \in Paths |-> 0]

------------------------------------------------------------------------------
(* The environment: keysas-io or an rsync user renames a complete file     *)
(* into sas_in, keysas-io creates a .ioerror file there, a copy in         *)
(* progress goes on writing, and files and reports are taken from sas_out. *)

DepositedPaths == {p \in Paths : sasIn[p] # 0}

Deposit(p, c) ==
  /\ deposits < MaxInodes
  /\ p[2] = "file" \/ IoErrors
  /\ sasIn[p] = 0 \/ (Replace /\ p[2] = "file")
  /\ deposits' = deposits + 1
  /\ content' = [content EXCEPT ![deposits + 1] = c]
  /\ sasIn' = [sasIn EXCEPT ![p] = deposits + 1]
  /\ UNCHANGED <<inVars, toTransit, trVars, toOut, outVars, faults,
                 corrupt, unlinked>>

WriteInPlace(i, c) ==
  /\ i <= deposits
  /\ <<content[i], c>> \in Rewrites
  /\ content' = [content EXCEPT ![i] = c]
  /\ UNCHANGED <<deposits, sasIn, inVars, toTransit, trVars, toOut, outVars,
                 faults, corrupt, unlinked>>

Collect(p) ==
  /\ sasOut[p] # NoData
  /\ sasOut' = [sasOut EXCEPT ![p] = NoData]
  /\ UNCHANGED <<envVars, sasIn, inVars, toTransit, trVars, toOut, outPc,
                 outFile, krp, judged, newest, faults, corrupt, unlinked>>

CollectReport(p) ==
  /\ krp[p] # NoData
  /\ krp' = [krp EXCEPT ![p] = NoData]
  /\ UNCHANGED <<envVars, sasIn, inVars, toTransit, trVars, toOut, outPc,
                 outFile, sasOut, judged, newest, faults, corrupt, unlinked>>

Environment ==
  \/ \E p \in Paths, c \in Contents : Deposit(p, c)
  \/ \E i \in Inodes, c \in Contents : WriteInPlace(i, c)
  \/ \E p \in Paths : Collect(p) \/ CollectReport(p)

------------------------------------------------------------------------------
(* keysas-in.  "accept" waits for keysas-transit; "batch" goes through the *)
(* last listing of sas_in, in any order, and lists it again when it is     *)
(* done; "opened", "marked" and "sent" are the steps of one file.          *)

InStart ==
  /\ inPc = "down"
  /\ inPc' = "accept"
  /\ toTransit' = Bind(toTransit)
  /\ UNCHANGED <<envVars, sasIn, batch, inFile, trVars, toOut, outVars,
                 faults, corrupt, unlinked>>

InAccept ==
  /\ inPc = "accept" /\ CanAccept(toTransit)
  /\ inPc' = "batch"
  /\ toTransit' = Accept(toTransit)
  /\ UNCHANGED <<envVars, sasIn, batch, inFile, trVars, toOut, outVars,
                 faults, corrupt, unlinked>>

Beside(p, kind) == <<p[1], kind>>

InList ==
  /\ inPc = "batch" /\ batch = {}
  /\ DepositedPaths # {}
  /\ batch' = DepositedPaths
  /\ corrupt' = corrupt \cup
       {sasIn[p] : p \in {q \in DepositedPaths :
          q[2] = "file" /\ sasIn[Beside(q, "ioerror")] # 0}}
  /\ UNCHANGED <<envVars, sasIn, inPc, inFile, toTransit, trVars, toOut,
                 outVars, faults, unlinked>>

(* open and sha256_digest *)
InOpen(p) ==
  /\ inPc = "batch" /\ p \in batch
  /\ sasIn[p] # 0
  /\ inPc' = "opened"
  /\ batch' = batch \ {p}
  /\ inFile' = [path |-> p, ino |-> sasIn[p], digest |-> Digest(sasIn[p]),
                is_corrupted |-> FALSE]
  /\ UNCHANGED <<envVars, sasIn, toTransit, trVars, toOut, outVars, faults,
                 corrupt, unlinked>>

(* The file is gone, or it cannot be read: it is left out of the batch, and *)
(* the empty batch is sent all the same, which a broken pipe refuses.       *)
InSkip(p) ==
  /\ inPc = "batch" /\ p \in batch
  /\ IF sasIn[p] = 0 THEN UNCHANGED faults ELSE Fails("io")
  /\ IF toTransit.snd = "linked"
     THEN /\ batch' = batch \ {p}
          /\ UNCHANGED <<inPc, toTransit>>
     ELSE /\ batch' = {}
          /\ inPc' = "accept"
          /\ toTransit' = Drop(toTransit)
  /\ UNCHANGED <<envVars, sasIn, inFile, trVars, toOut, outVars, corrupt,
                 unlinked>>

(* is_corrupted looks at paths, not at the file that was opened. *)
IsCorrupted(p) ==
  \/ sasIn[p] = 0
  \/ p[2] = "ioerror" /\ sasIn[Beside(p, "file")] # 0
  \/ p[2] = "file" /\ sasIn[Beside(p, "ioerror")] # 0

(* Mutant of InMark: the file is unlinked before it is sent. *)
InMarkUnlinks ==
  /\ inPc = "opened"
  /\ inPc' = "marked"
  /\ inFile' = [inFile EXCEPT !.is_corrupted = IsCorrupted(inFile.path)]
  /\ sasIn' = [sasIn EXCEPT ![inFile.path] = 0]
  /\ unlinked' = unlinked \cup ({sasIn[inFile.path]} \ {0})
  /\ UNCHANGED <<envVars, batch, toTransit, trVars, toOut, outVars, faults,
                 corrupt>>

(* A corrupted file loses its .ioerror file here, before it is sent. *)
InMark ==
  /\ inPc = "opened"
  /\ inPc' = "marked"
  /\ LET p == inFile.path IN
       /\ inFile' = [inFile EXCEPT !.is_corrupted = IsCorrupted(p)]
       /\ sasIn' = IF IsCorrupted(p) /\ p[2] = "file"
                   THEN [sasIn EXCEPT ![Beside(p, "ioerror")] = 0]
                   ELSE sasIn
  /\ UNCHANGED <<envVars, batch, toTransit, trVars, toOut, outVars, faults,
                 corrupt, unlinked>>

InSend ==
  /\ inPc = "marked" /\ toTransit.snd = "linked"
  /\ inPc' = "sent"
  /\ toTransit' = Send(toTransit, inFile)
  /\ UNCHANGED <<envVars, sasIn, batch, inFile, trVars, toOut, outVars,
                 faults, corrupt, unlinked>>

(* Mutant of InSendFails: keysas-in goes on with the broken connection. *)
InSendFailsStays ==
  /\ inPc = "marked" /\ toTransit.snd = "broken"
  /\ inPc' = "batch" /\ inFile' = NoFile
  /\ UNCHANGED <<envVars, sasIn, batch, toTransit, trVars, toOut, outVars,
                 faults, corrupt, unlinked>>

InSendFails ==
  /\ inPc = "marked" /\ toTransit.snd = "broken"
  /\ inPc' = "accept" /\ batch' = {} /\ inFile' = NoFile
  /\ toTransit' = Drop(toTransit)
  /\ UNCHANGED <<envVars, sasIn, trVars, toOut, outVars, faults, corrupt,
                 unlinked>>

(* Mutant of InUnlink: the file stays in sas_in. *)
InUnlinkKeeps ==
  /\ inPc = "sent"
  /\ inPc' = "batch" /\ inFile' = NoFile
  /\ UNCHANGED <<envVars, sasIn, batch, toTransit, trVars, toOut, outVars,
                 faults, corrupt, unlinked>>

(* unlinkat removes whatever the path now names. *)
InUnlink ==
  /\ inPc = "sent"
  /\ inPc' = "batch" /\ inFile' = NoFile
  /\ sasIn' = [sasIn EXCEPT ![inFile.path] = 0]
  /\ unlinked' = unlinked \cup ({sasIn[inFile.path]} \ {0})
  /\ UNCHANGED <<envVars, batch, toTransit, trVars, toOut, outVars, faults,
                 corrupt>>

InUnlinkFails ==
  /\ inPc = "sent" /\ Fails("io")
  /\ inPc' = "batch" /\ inFile' = NoFile
  /\ UNCHANGED <<envVars, sasIn, batch, toTransit, trVars, toOut, outVars,
                 corrupt, unlinked>>

InCrash ==
  /\ inPc # "down" /\ Fails("in")
  /\ inPc' = "down" /\ batch' = {} /\ inFile' = NoFile
  /\ toTransit' = SenderDies(toTransit)
  /\ UNCHANGED <<envVars, sasIn, trVars, toOut, outVars, corrupt, unlinked>>

In ==
  \/ InStart \/ InAccept \/ InList
  \/ \E p \in Paths : InOpen(p) \/ InSkip(p)
  \/ InMark \/ InSend \/ InSendFails \/ InUnlink \/ InUnlinkFails

------------------------------------------------------------------------------
(* keysas-transit.  It connects to keysas-in once, when it starts, then    *)
(* waits for keysas-out; "recv", "check" and "send" are its inner loop.    *)
(* An end of file from keysas-in is received as an empty message: the      *)
(* inner loop goes round without an effect, so it is not an action.        *)

TransitStart ==
  /\ trPc = "down" /\ CanConnect(toTransit)
  /\ trPc' = "accept"
  /\ toTransit' = Connect(toTransit)
  /\ toOut' = Bind(toOut)
  /\ UNCHANGED <<envVars, sasIn, inVars, trFile, trCheck, outVars, faults,
                 corrupt, unlinked>>

TransitAccept ==
  /\ trPc = "accept" /\ CanAccept(toOut)
  /\ trPc' = "recv"
  /\ toOut' = Accept(toOut)
  /\ UNCHANGED <<envVars, sasIn, inVars, toTransit, trFile, trCheck, outVars,
                 faults, corrupt, unlinked>>

(* recv_vectored_with_ancillary and parse_messages *)
TransitRecv ==
  /\ trPc = "recv" /\ toTransit.queue # << >>
  /\ trPc' = "check" /\ trCheck' = 1
  /\ LET m == Head(toTransit.queue) IN
       trFile' = [path |-> m.path, ino |-> m.ino, digest |-> m.digest,
                  md |-> ReceivedMetadata(m.is_corrupted)]
  /\ toTransit' = Receive(toTransit)
  /\ UNCHANGED <<envVars, sasIn, inVars, toOut, outVars, faults, corrupt,
                 unlinked>>

(* One check of check_files; each reads the file anew. *)
TransitCheck ==
  /\ trPc = "check"
  /\ LET chk == CheckOrder[trCheck] IN
       \E r \in CheckOutcomes(chk, content[trFile.ino], trFile.digest) :
         trFile' = [trFile EXCEPT !.md = [@ EXCEPT ![chk] = r]]
  /\ IF trCheck < Len(CheckOrder)
     THEN trCheck' = trCheck + 1 /\ UNCHANGED trPc
     ELSE trCheck' = 1 /\ trPc' = "send"
  /\ UNCHANGED <<envVars, sasIn, inVars, toTransit, toOut, outVars, faults,
                 corrupt, unlinked>>

TransitSend ==
  /\ trPc = "send" /\ toOut.snd = "linked"
  /\ trPc' = "recv" /\ trFile' = NoFile
  /\ toOut' = Send(toOut, trFile)
  /\ UNCHANGED <<envVars, sasIn, inVars, toTransit, trCheck, outVars, faults,
                 corrupt, unlinked>>

(* Mutant of TransitSendFails: the file that could not be sent is kept. *)
TransitSendFailsKeeps ==
  /\ trPc = "send" /\ toOut.snd = "broken"
  /\ trPc' = "accept"
  /\ toOut' = Drop(toOut)
  /\ UNCHANGED <<envVars, sasIn, inVars, toTransit, trCheck, outVars, faults,
                 trFile, corrupt, unlinked>>

(* The broken pipe to keysas-out: the file that could not be sent is gone. *)
TransitSendFails ==
  /\ trPc = "send" /\ toOut.snd = "broken"
  /\ trPc' = "accept" /\ trFile' = NoFile
  /\ toOut' = Drop(toOut)
  /\ UNCHANGED <<envVars, sasIn, inVars, toTransit, trCheck, outVars, faults,
                 corrupt, unlinked>>

TransitDies ==
  /\ trPc' = "down" /\ trFile' = NoFile /\ trCheck' = 1
  /\ toTransit' = ReceiverDies(toTransit)
  /\ toOut' = SenderDies(toOut)
  /\ UNCHANGED <<envVars, sasIn, inVars, outVars, corrupt, unlinked>>

(* A connection reset before keysas-in accepted it: process::exit(1). *)
TransitExit ==
  /\ trPc = "recv" /\ toTransit.rcv = "reset"
  /\ UNCHANGED faults
  /\ TransitDies

TransitCrash == trPc # "down" /\ Fails("transit") /\ TransitDies

Transit ==
  \/ TransitStart \/ TransitAccept \/ TransitRecv \/ TransitCheck
  \/ TransitSend \/ TransitSendFails \/ TransitExit

------------------------------------------------------------------------------
(* keysas-out.  "connect" retries until keysas-transit listens; "digest",  *)
(* "report", "copy" and "copying" are the steps of output_files.           *)

OutStart ==
  /\ outPc = "down"
  /\ outPc' = "connect"
  /\ UNCHANGED <<envVars, sasIn, inVars, toTransit, trVars, toOut, outFile,
                 sasOut, krp, judged, newest, faults, corrupt, unlinked>>

OutConnect ==
  /\ outPc = "connect" /\ CanConnect(toOut)
  /\ outPc' = "recv"
  /\ toOut' = Connect(toOut)
  /\ UNCHANGED <<envVars, sasIn, inVars, toTransit, trVars, outFile, sasOut,
                 krp, judged, newest, faults, corrupt, unlinked>>

OutRecv ==
  /\ outPc = "recv" /\ toOut.queue # << >>
  /\ outPc' = "digest" /\ outFile' = Head(toOut.queue)
  /\ toOut' = Receive(toOut)
  /\ UNCHANGED <<envVars, sasIn, inVars, toTransit, trVars, sasOut, krp,
                 judged, newest, faults, corrupt, unlinked>>

OutClose ==
  /\ outPc = "recv" /\ AtEnd(toOut)
  /\ outPc' = "connect"
  /\ toOut' = Close(toOut)
  /\ UNCHANGED <<envVars, sasIn, inVars, toTransit, trVars, outFile, sasOut,
                 krp, judged, newest, faults, corrupt, unlinked>>

OutDigest ==
  /\ outPc = "digest"
  /\ outPc' = "report"
  /\ outFile' = [outFile EXCEPT
                   !.md = Redigested(@, Digest(outFile.ino), outFile.digest)]
  /\ UNCHANGED <<envVars, sasIn, inVars, toTransit, trVars, toOut, sasOut,
                 krp, judged, newest, faults, corrupt, unlinked>>

ReportOf(m) ==
  [ino |-> m.ino, file_digest |-> m.digest, is_valid |-> IsValid(m.md)]

(* Mutant of OutReport: a refused file makes keysas-out leave its inner     *)
(* loop with the connection open.                                          *)
OutReportLeaves ==
  /\ outPc = "report"
  /\ judged' = judged \cup {outFile.ino}
  /\ krp' = IF ShouldWrite(IsValid(outFile.md))
            THEN [krp EXCEPT ![outFile.path] = ReportOf(outFile)]
            ELSE krp
  /\ IF Releasable(outFile.md)
     THEN outPc' = "copy" /\ UNCHANGED outFile
     ELSE outPc' = "connect" /\ outFile' = NoFile
  /\ UNCHANGED <<envVars, sasIn, inVars, toTransit, trVars, toOut, sasOut,
                 newest, faults, corrupt, unlinked>>

(* The file is dropped, and closed, once nothing is left to do with it. *)
OutReport ==
  /\ outPc = "report"
  /\ judged' = judged \cup {outFile.ino}
  /\ krp' = IF ShouldWrite(IsValid(outFile.md))
            THEN [krp EXCEPT ![outFile.path] = ReportOf(outFile)]
            ELSE krp
  /\ IF Releasable(outFile.md)
     THEN outPc' = "copy" /\ UNCHANGED outFile
     ELSE outPc' = "recv" /\ outFile' = NoFile
  /\ UNCHANGED <<envVars, sasIn, inVars, toTransit, trVars, toOut, sasOut,
                 newest, faults, corrupt, unlinked>>

(* create and truncate, then copy *)
OutCreate ==
  /\ outPc = "copy"
  /\ outPc' = "copying"
  /\ sasOut' = [sasOut EXCEPT ![outFile.path] =
                  [ino |-> outFile.ino, digest |-> outFile.digest,
                   bytes |-> Partial]]
  /\ newest' = [newest EXCEPT ![outFile.path] = outFile.ino]
  /\ UNCHANGED <<envVars, sasIn, inVars, toTransit, trVars, toOut, outFile,
                 krp, judged, faults, corrupt, unlinked>>

(* Mutant of OutCopy: the report is written again after the copy. *)
OutCopyReports ==
  /\ outPc = "copying"
  /\ outPc' = "recv" /\ outFile' = NoFile
  /\ sasOut' = IF sasOut[outFile.path] = NoData
               THEN sasOut
               ELSE [sasOut EXCEPT ![outFile.path].bytes =
                                     content[outFile.ino]]
  /\ krp' = [krp EXCEPT ![outFile.path] = ReportOf(outFile)]
  /\ UNCHANGED <<envVars, sasIn, inVars, toTransit, trVars, toOut, judged,
                 newest, faults, corrupt, unlinked>>

(* A file collected in the meantime is written to no name. *)
OutCopy ==
  /\ outPc = "copying"
  /\ outPc' = "recv" /\ outFile' = NoFile
  /\ sasOut' = IF sasOut[outFile.path] = NoData
               THEN sasOut
               ELSE [sasOut EXCEPT ![outFile.path].bytes =
                                     content[outFile.ino]]
  /\ UNCHANGED <<envVars, sasIn, inVars, toTransit, trVars, toOut, krp,
                 judged, newest, faults, corrupt, unlinked>>

(* A report opened and not written is left empty. *)
ReportLeft ==
  \/ UNCHANGED krp
  \/ /\ outPc = "report" /\ ShouldWrite(IsValid(outFile.md))
     /\ krp' = [krp EXCEPT ![outFile.path] = Partial]

(* Any "?" of output_files abandons the file where it stands. *)
OutAbandon ==
  /\ outPc \in {"digest", "report", "copy", "copying"} /\ Fails("io")
  /\ outPc' = "recv" /\ outFile' = NoFile
  /\ ReportLeft
  /\ UNCHANGED <<envVars, sasIn, inVars, toTransit, trVars, toOut, sasOut,
                 judged, newest, corrupt, unlinked>>

OutCrash ==
  /\ outPc # "down" /\ Fails("out")
  /\ outPc' = "down" /\ outFile' = NoFile
  /\ toOut' = ReceiverDies(toOut)
  /\ ReportLeft
  /\ UNCHANGED <<envVars, sasIn, inVars, toTransit, trVars, sasOut,
                 judged, newest, corrupt, unlinked>>

Out ==
  \/ OutStart \/ OutConnect \/ OutRecv \/ OutClose \/ OutDigest
  \/ OutReport \/ OutCreate \/ OutCopy \/ OutAbandon

------------------------------------------------------------------------------
Next ==
  \/ Environment
  \/ In \/ InCrash
  \/ Transit \/ TransitCrash
  \/ Out \/ OutCrash

Spec == Init /\ [][Next]_vars

(* Each daemon is a thread of its own and systemd restarts the ones that   *)
(* stop: whatever a daemon can do for ever, it does.                       *)
FairSpec == Spec /\ WF_vars(In) /\ WF_vars(Transit) /\ WF_vars(Out)
------------------------------------------------------------------------------
(* What holds of it. *)

(* Every variable keeps to its type, and a daemon holds a file exactly at   *)
(* the steps that work on one.                                              *)
TypeOK ==
  /\ content \in [Inodes -> Contents \cup {Partial}]
  /\ sasIn \in [Paths -> Inodes \cup {0}]
  /\ inPc \in {"down", "accept", "batch", "opened", "marked", "sent"}
  /\ batch \subseteq Paths
  /\ IF inPc \in {"opened", "marked", "sent"}
     THEN inFile \in InMessage ELSE inFile = NoFile
  /\ toTransit \in Channel(InMessage)
  /\ trPc \in {"down", "accept", "recv", "check", "send"}
  /\ IF trPc \in {"check", "send"}
     THEN trFile \in OutMessage ELSE trFile = NoFile
  /\ trCheck \in 1 .. Len(CheckOrder)
  /\ toOut \in Channel(OutMessage)
  /\ outPc \in {"down", "connect", "recv", "digest", "report", "copy",
                "copying"}
  /\ IF outPc \in {"digest", "report", "copy", "copying"}
     THEN outFile \in OutMessage ELSE outFile = NoFile
  /\ sasOut \in [Paths -> DataFile \cup {NoData}]
  /\ krp \in [Paths -> Report \cup {NoData, Partial}]
  /\ faults \in 0 .. MaxFaults
  /\ deposits \in 0 .. MaxInodes
  /\ corrupt \subseteq Inodes
  /\ unlinked \subseteq Inodes
  /\ judged \subseteq Inodes
  /\ newest \in [Paths -> Inodes \cup {0}]

(* A file written to sas_out was announced with the digest of a content    *)
(* every mandatory check accepts, even though the checks and the digests   *)
(* of the three daemons read the file at different moments, while a copy   *)
(* may still be writing to it (is_digest_ok in check_files and in          *)
(* output_files).                                                          *)
ReleasedIsAcceptable ==
  \A p \in Paths :
    sasOut[p] # NoData => Acceptable(sasOut[p].digest)

(* The pipeline implements the gate: the shelf holds the finished copies.   *)
Gate == INSTANCE KeysasGate WITH
          Good <- {c \in Contents : Acceptable(c)},
          Nothing <- NoData,
          latest <- newest,
          shelf <- [p \in Paths |->
                      IF sasOut[p] = NoData \/ sasOut[p].bytes = Partial
                      THEN NoData
                      ELSE [ino |-> sasOut[p].ino,
                            digest |-> sasOut[p].digest]]

RefinesGate == Gate!GateSpec

(* What has left keysas-in and is not finished with, oldest first. *)
Held(f) == IF f = NoFile THEN << >> ELSE <<f>>
Inside ==
  LET Ids(s) == [k \in 1 .. Len(s) |-> s[k].ino] IN
    Ids(Held(outFile)) \o Ids(toOut.queue) \o Ids(Held(trFile))
      \o Ids(toTransit.queue)

(* Every file keysas-in removed is on its way or has been reported on: the  *)
(* file is unlinked as soon as its descriptor is sent, so that from then on *)
(* the sockets hold the only copy.                                          *)
NoSilentLoss ==
  \A i \in unlinked :
    i \in judged \/ \E k \in 1 .. Len(Inside) : Inside[k] = i

(* A report comes before its own file: keysas-out writes none under a name  *)
(* where the file it is about, or one deposited later, already stands.  The *)
(* report written beside a file is thus always one of a later deposit; such *)
(* a report may take the place of that of the file, which still stands, and *)
(* the mode may withhold the report of either.                              *)
ReportPrecedesFile ==
  [][\A p \in Paths :
       krp'[p] # krp[p] /\ krp'[p] \in Report /\ sasOut[p] # NoData
         => sasOut[p].ino < krp'[p].ino]_vars

(* As long as keysas-in lives and can unlink, no file goes through twice:   *)
(* what a broken pipe makes it send again had not been received.            *)
AtMostOnce ==
  /\ \A j, k \in 1 .. Len(Inside) : j # k => Inside[j] # Inside[k]
  /\ \A k \in 1 .. Len(Inside) :
       Inside[k] \in judged =>
         k = 1 /\ outFile # NoFile /\ outPc \in {"copy", "copying"}

(* A file that stood in sas_in next to its .ioerror when keysas-in listed   *)
(* the directory is never handed over (is_corrupted).                       *)
CorruptIsBlocked ==
  \A p \in Paths : sasOut[p] # NoData => sasOut[p].ino \notin corrupt

(* A name with a report of a refused file has no file (list_files_out of    *)
(* keysas-backend reads the two as exclusive).                              *)
RefusedHasNoFile ==
  \A p \in Paths :
    krp[p] \in Report /\ ~krp[p].is_valid => sasOut[p] = NoData

(* Every file in sas_in is eventually taken out of it. *)
EveryFileIsTaken ==
  \A p \in Paths, i \in Inodes : sasIn[p] = i ~> sasIn[p] # i

(* Every file taken out of sas_in eventually gets its verdict. *)
TakenIsJudged ==
  \A i \in Inodes : i \in unlinked ~> i \in judged
=============================================================================
