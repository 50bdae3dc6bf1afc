------------------------ MODULE KeysasPipelineProofs ------------------------
(***************************************************************************)
(* What is proved of KeysasPipeline, for every set of files and contents,  *)
(* every combination of the daemons' options, and any number of deposits   *)
(* and failures.                                                           *)
(***************************************************************************)
EXTENDS KeysasPipeline, TLAPS

------------------------------------------------------------------------------
(* The socket operations keep a channel a channel. *)

LEMMA UnboundChannel ==
  ASSUME NEW M
  PROVE  Unbound \in Channel(M)
<1>1. << >> \in Seq(M)
  OBVIOUS
<1> QED
  BY <1>1 DEF Unbound, Channel, SenderStates, ReceiverStates

(* The operations on the connection alone. *)
LEMMA ConnectionOps ==
  ASSUME NEW M, NEW ch \in Channel(M)
  PROVE  /\ Bind(ch) \in Channel(M)
         /\ Connect(ch) \in Channel(M)
         /\ CanAccept(ch) => Accept(ch) \in Channel(M)
         /\ Drop(ch) \in Channel(M)
         /\ Close(ch) \in Channel(M)
         /\ SenderDies(ch) \in Channel(M)
<1>1. Bind(ch) \in Channel(M) /\ Connect(ch) \in Channel(M)
  BY DEF Channel, Bind, Connect, SenderStates, ReceiverStates
<1>2. CanAccept(ch) => Accept(ch) \in Channel(M)
  <2>1. CASE ch.dead > 0
    <3>1. ch.dead - 1 \in Nat
      BY <2>1 DEF Channel
    <3> QED
      BY <2>1, <3>1 DEF Channel, Accept, SenderStates, ReceiverStates
  <2>2. CASE ~(ch.dead > 0)
    BY <2>2 DEF Channel, Accept, SenderStates, ReceiverStates
  <2> QED
    BY <2>1, <2>2
<1>3. Drop(ch) \in Channel(M) /\ Close(ch) \in Channel(M)
  BY DEF Channel, Drop, Close, SenderStates, ReceiverStates
<1>4. SenderDies(ch) \in Channel(M)
  BY DEF Channel, SenderDies, SenderStates, ReceiverStates
<1> QED
  BY <1>1, <1>2, <1>3, <1>4

(* The operations on the messages. *)
LEMMA QueueOps ==
  ASSUME NEW M, NEW ch \in Channel(M)
  PROVE  /\ \A m \in M : Send(ch, m) \in Channel(M)
         /\ ch.queue # << >> =>
              Receive(ch) \in Channel(M) /\ Head(ch.queue) \in M
         /\ ReceiverDies(ch) \in Channel(M)
<1>1. \A m \in M : Append(ch.queue, m) \in Seq(M)
  BY DEF Channel
<1>2. ch.queue # << >> => Tail(ch.queue) \in Seq(M) /\ Head(ch.queue) \in M
  BY DEF Channel
<1>3. << >> \in Seq(M)
  OBVIOUS
<1>4. \A m \in M : Send(ch, m) \in Channel(M)
  BY <1>1 DEF Channel, Send
<1>5. ch.queue # << >> => Receive(ch) \in Channel(M)
  BY <1>2 DEF Channel, Receive
<1>6. ReceiverDies(ch) \in Channel(M)
  <2>1. CASE ch.rcv = "linked"
    BY <1>3, <2>1 DEF Channel, ReceiverDies, SenderStates, ReceiverStates
  <2>2. CASE ch.rcv = "pending"
    <3>1. ch.dead + 1 \in Nat
      BY DEF Channel
    <3> QED
      BY <1>3, <2>2, <3>1 DEF Channel, ReceiverDies, ReceiverStates
  <2>3. CASE ch.rcv \notin {"linked", "pending"}
    BY <1>3, <2>3 DEF Channel, ReceiverDies, ReceiverStates
  <2> QED
    BY <2>1, <2>2, <2>3
<1> QED
  BY <1>2, <1>4, <1>5, <1>6

------------------------------------------------------------------------------
(* The metadata of a file stays a function from the fields to booleans. *)

LEMMA CheckOrderFacts ==
  /\ Len(CheckOrder) = 7
  /\ \A k \in 1 .. 7 : CheckOrder[k] \in CheckFields
BY DEF CheckOrder, CheckFields

LEMMA ReceivedMetadataType ==
  ASSUME NEW b \in BOOLEAN
  PROVE  ReceivedMetadata(b) \in Metadata
<1> DEFINE V(f) == CASE f = "is_corrupted" -> b
                     [] f \in {"is_toobig", "specialized_pass", "vt_pass"} -> TRUE
                     [] OTHER -> FALSE
<1>1. \A f \in Fields : V(f) \in BOOLEAN
  OBVIOUS
<1>2. ReceivedMetadata(b) = [f \in Fields |-> V(f)]
  BY DEF ReceivedMetadata
<1> HIDE DEF V
<1> QED
  BY <1>1, <1>2 DEF Metadata

LEMMA CheckOutcomesType ==
  ASSUME NEW chk \in CheckFields, NEW c, NEW d,
         NEW r \in CheckOutcomes(chk, c, d)
  PROVE  r \in BOOLEAN
<1>1. CheckResult(chk, c, d) \in BOOLEAN
  <2>1. chk \in {"is_digest_ok", "is_toobig", "av_pass", "yara_pass",
                 "is_type_allowed", "specialized_pass", "vt_pass"}
    BY DEF CheckFields
  <2>2. CASE chk = "is_digest_ok"
    BY <2>2, Zenon DEF CheckResult
  <2>3. CASE chk = "is_toobig"
    BY <2>3 DEF CheckResult
  <2>4. CASE chk = "av_pass"
    BY <2>4 DEF CheckResult
  <2>5. CASE chk = "yara_pass"
    BY <2>5 DEF CheckResult
  <2>6. CASE chk = "is_type_allowed"
    BY <2>6 DEF CheckResult
  <2>7. CASE chk \in {"specialized_pass", "vt_pass"}
    BY <2>7, VerdictAssumption DEF CheckResult
  <2> QED
    BY <2>1, <2>2, <2>3, <2>4, <2>5, <2>6, <2>7
<1>2. ReceivedMetadata(FALSE)[chk] \in BOOLEAN
  BY ReceivedMetadataType DEF Metadata, Fields
<1> QED
  BY <1>1, <1>2 DEF CheckOutcomes

------------------------------------------------------------------------------
(* Type correctness, one step per action.  It is not inductive alone: a    *)
(* digest is one of a content only because what stands in sas_in has been  *)
(* deposited.                                                              *)

Known ==
  /\ \A i \in 1 .. deposits : content[i] \in Contents
  /\ \A p \in Paths : sasIn[p] \in 0 .. deposits

LEMMA InitTypeOK == Init => TypeOK
<1> SUFFICES ASSUME Init PROVE TypeOK
  OBVIOUS
<1>1. toTransit \in Channel(InMessage) /\ toOut \in Channel(OutMessage)
  BY UnboundChannel DEF Init
<1>2. trCheck \in 1 .. Len(CheckOrder)
  BY CheckOrderFacts DEF Init
<1>3. faults \in 0 .. MaxFaults /\ deposits \in 0 .. MaxInodes
  BY PipelineAssumption DEF Init
<1> QED
  BY <1>1, <1>2, <1>3 DEF Init, TypeOK

LEMMA EnvironmentTypeOK == TypeOK /\ Environment => TypeOK'
<1> SUFFICES ASSUME TypeOK, Environment PROVE TypeOK'
  OBVIOUS
<1>1. ASSUME NEW p \in Paths, NEW c \in Contents, Deposit(p, c)
      PROVE  TypeOK'
  <2>1. deposits + 1 \in Inodes /\ deposits' \in 0 .. MaxInodes
    BY <1>1, PipelineAssumption DEF TypeOK, Deposit, Inodes
  <2>2. content' \in [Inodes -> Contents \cup {Partial}]
    BY <1>1, <2>1 DEF TypeOK, Deposit
  <2>3. sasIn' \in [Paths -> Inodes \cup {0}]
    BY <1>1, <2>1 DEF TypeOK, Deposit
  <2> QED
    BY <1>1, <2>1, <2>2, <2>3 DEF TypeOK, Deposit, inVars, trVars, outVars
<1>2. ASSUME NEW i \in Inodes, NEW c \in Contents, WriteInPlace(i, c)
      PROVE  TypeOK'
  <2>1. content' \in [Inodes -> Contents \cup {Partial}]
    BY <1>2 DEF TypeOK, WriteInPlace
  <2> QED
    BY <1>2, <2>1 DEF TypeOK, WriteInPlace, inVars, trVars, outVars
<1>3. ASSUME NEW p \in Paths, Collect(p)
      PROVE  TypeOK'
  <2>1. sasOut' \in [Paths -> DataFile \cup {NoData}]
    BY <1>3 DEF TypeOK, Collect
  <2> QED
    BY <1>3, <2>1 DEF TypeOK, Collect, envVars, inVars, trVars
<1>4. ASSUME NEW p \in Paths, CollectReport(p)
      PROVE  TypeOK'
  <2>1. krp' \in [Paths -> Report \cup {NoData, Partial}]
    BY <1>4 DEF TypeOK, CollectReport
  <2> QED
    BY <1>4, <2>1 DEF TypeOK, CollectReport, envVars, inVars, trVars
<1> QED
  BY <1>1, <1>2, <1>3, <1>4 DEF Environment

LEMMA InTypeOK == TypeOK /\ Known /\ (In \/ InCrash) => TypeOK'
<1> SUFFICES ASSUME TypeOK, Known, In \/ InCrash PROVE TypeOK'
  OBVIOUS
<1> USE DEF envVars, trVars, outVars
<1>0. toTransit \in Channel(InMessage)
  BY DEF TypeOK
<1>1. CASE InStart
  BY <1>0, <1>1, ConnectionOps DEF TypeOK, InStart
<1>2. CASE InAccept
  BY <1>0, <1>2, ConnectionOps DEF TypeOK, InAccept
<1>3. CASE InList
  <2>1. corrupt' \subseteq Inodes
    BY <1>3 DEF TypeOK, InList, DepositedPaths
  <2> QED
    BY <1>3, <2>1 DEF TypeOK, InList, DepositedPaths
<1>4. ASSUME NEW p \in Paths, InOpen(p)
      PROVE  TypeOK'
  <2>1. Digest(sasIn[p]) \in Contents
    BY <1>4 DEF TypeOK, Known, InOpen, Digest
  <2>2. inFile' \in InMessage
    BY <1>4, <2>1 DEF TypeOK, InOpen, InMessage
  <2> QED
    BY <1>4, <2>2 DEF TypeOK, InOpen
<1>5. ASSUME NEW p \in Paths, InSkip(p)
      PROVE  TypeOK'
  BY <1>0, <1>5, ConnectionOps, PipelineAssumption
     DEF TypeOK, InSkip, Fails, MayFail
<1>6. CASE InMark
  BY <1>6 DEF TypeOK, InMark, InMessage, Paths, Beside, IsCorrupted
<1>7. CASE InSend
  BY <1>0, <1>7, QueueOps DEF TypeOK, InSend
<1>8. CASE InSendFails
  BY <1>0, <1>8, ConnectionOps DEF TypeOK, InSendFails
<1>9. CASE InUnlink
  BY <1>9 DEF TypeOK, InUnlink, InMessage
<1>10. CASE InUnlinkFails
  BY <1>10, PipelineAssumption DEF TypeOK, InUnlinkFails, Fails, MayFail
<1>11. CASE InCrash
  BY <1>0, <1>11, ConnectionOps, PipelineAssumption
     DEF TypeOK, InCrash, Fails, MayFail
<1> QED
  BY <1>1, <1>2, <1>3, <1>4, <1>5, <1>6, <1>7, <1>8, <1>9, <1>10, <1>11 DEF In

LEMMA TransitTypeOK == TypeOK /\ (Transit \/ TransitCrash) => TypeOK'
<1> SUFFICES ASSUME TypeOK, Transit \/ TransitCrash PROVE TypeOK'
  OBVIOUS
<1> USE DEF envVars, inVars, outVars
<1>0. toTransit \in Channel(InMessage) /\ toOut \in Channel(OutMessage)
  BY DEF TypeOK
<1>1. CASE TransitStart
  BY <1>0, <1>1, ConnectionOps DEF TypeOK, TransitStart
<1>2. CASE TransitAccept
  BY <1>0, <1>2, ConnectionOps DEF TypeOK, TransitAccept
<1>3. CASE TransitRecv
  <2> DEFINE m == Head(toTransit.queue)
  <2>1. m \in InMessage /\ toTransit' \in Channel(InMessage)
    BY <1>0, <1>3, QueueOps DEF TransitRecv
  <2>2. ReceivedMetadata(m.is_corrupted) \in Metadata
    BY <2>1, ReceivedMetadataType DEF InMessage
  <2>3. trFile' \in OutMessage
    BY <1>3, <2>1, <2>2 DEF TransitRecv, InMessage, OutMessage
  <2>4. trCheck' \in 1 .. Len(CheckOrder)
    BY <1>3, CheckOrderFacts DEF TransitRecv
  <2> QED
    BY <1>3, <2>1, <2>3, <2>4 DEF TypeOK, TransitRecv
<1>4. CASE TransitCheck
  <2> DEFINE chk == CheckOrder[trCheck]
  <2>1. trFile \in OutMessage /\ chk \in CheckFields
    BY <1>4, CheckOrderFacts DEF TypeOK, TransitCheck
  <2>2. PICK r \in CheckOutcomes(chk, content[trFile.ino], trFile.digest) :
          trFile' = [trFile EXCEPT !.md = [@ EXCEPT ![chk] = r]]
    BY <1>4 DEF TransitCheck
  <2>3. r \in BOOLEAN
    BY <2>1, <2>2, CheckOutcomesType
  <2>4. [trFile.md EXCEPT ![chk] = r] \in Metadata
    BY <2>1, <2>3 DEF OutMessage, Metadata, Fields
  <2>5. trFile' \in OutMessage
    BY <2>1, <2>2, <2>4 DEF OutMessage
  <2>6. trCheck' \in 1 .. Len(CheckOrder) /\ trPc' \in {"check", "send"}
    BY <1>4, CheckOrderFacts DEF TypeOK, TransitCheck
  <2> QED
    BY <1>4, <2>5, <2>6 DEF TypeOK, TransitCheck
<1>5. CASE TransitSend
  <2>1. toOut' \in Channel(OutMessage)
    BY <1>0, <1>5, QueueOps DEF TypeOK, TransitSend
  <2> QED
    BY <1>5, <2>1 DEF TypeOK, TransitSend
<1>6. CASE TransitSendFails
  BY <1>0, <1>6, ConnectionOps DEF TypeOK, TransitSendFails
<1>7. ASSUME TransitDies, faults' \in 0 .. MaxFaults
      PROVE  TypeOK'
  <2>1. toTransit' \in Channel(InMessage) /\ toOut' \in Channel(OutMessage)
    BY <1>0, <1>7, ConnectionOps, QueueOps DEF TransitDies
  <2> QED
    BY <1>7, <2>1, CheckOrderFacts DEF TypeOK, TransitDies
<1>8. CASE TransitExit
  BY <1>7, <1>8 DEF TypeOK, TransitExit
<1>9. CASE TransitCrash
  <2>1. faults' \in 0 .. MaxFaults
    BY <1>9, PipelineAssumption DEF TypeOK, TransitCrash, Fails, MayFail
  <2> QED
    BY <1>7, <1>9, <2>1 DEF TransitCrash
<1> QED
  BY <1>1, <1>2, <1>3, <1>4, <1>5, <1>6, <1>8, <1>9 DEF Transit

LEMMA OutTypeOK == TypeOK /\ (Out \/ OutCrash) => TypeOK'
<1> SUFFICES ASSUME TypeOK, Out \/ OutCrash PROVE TypeOK'
  OBVIOUS
<1> USE DEF envVars, inVars, trVars
<1>0. toOut \in Channel(OutMessage)
  BY DEF TypeOK
<1>1. CASE OutStart
  BY <1>1 DEF TypeOK, OutStart
<1>2. CASE OutConnect
  BY <1>0, <1>2, ConnectionOps DEF TypeOK, OutConnect
<1>3. CASE OutRecv
  BY <1>0, <1>3, QueueOps DEF TypeOK, OutRecv
<1>4. CASE OutClose
  BY <1>0, <1>4, ConnectionOps DEF TypeOK, OutClose
<1>5. CASE OutDigest
  <2>1. outFile \in OutMessage
    BY <1>5 DEF TypeOK, OutDigest
  <2>2. Redigested(outFile.md, Digest(outFile.ino), outFile.digest) \in Metadata
    BY <2>1 DEF OutMessage, Metadata, Redigested, Fields, CheckFields
  <2>3. outFile' \in OutMessage
    BY <1>5, <2>1, <2>2 DEF OutDigest, OutMessage
  <2> QED
    BY <1>5, <2>3 DEF TypeOK, OutDigest
<1>6. CASE OutReport
  <2>1. outFile \in OutMessage
    BY <1>6 DEF TypeOK, OutReport
  <2>2. IsValid(outFile.md) \in BOOLEAN
    BY DEF IsValid
  <2>3. ReportOf(outFile) \in Report
    BY <2>1, <2>2 DEF ReportOf, Report, OutMessage
  <2>4. krp' \in [Paths -> Report \cup {NoData, Partial}]
    BY <1>6, <2>3 DEF TypeOK, OutReport
  <2>5. judged' \subseteq Inodes
    BY <1>6, <2>1 DEF TypeOK, OutReport, OutMessage
  <2> QED
    BY <1>6, <2>4, <2>5 DEF TypeOK, OutReport
<1>7. CASE OutCreate
  <2>1. outFile \in OutMessage
    BY <1>7 DEF TypeOK, OutCreate
  <2>2. sasOut' \in [Paths -> DataFile \cup {NoData}]
    BY <1>7, <2>1 DEF TypeOK, OutCreate, OutMessage, DataFile
  <2>3. newest' \in [Paths -> Inodes \cup {0}]
    BY <1>7, <2>1 DEF TypeOK, OutCreate, OutMessage
  <2> QED
    BY <1>7, <2>2, <2>3 DEF TypeOK, OutCreate
<1>8. CASE OutCopy
  <2>1. outFile \in OutMessage
    BY <1>8 DEF TypeOK, OutCopy
  <2>2. content[outFile.ino] \in Contents \cup {Partial}
    BY <2>1 DEF TypeOK, OutMessage
  <2>3. sasOut' \in [Paths -> DataFile \cup {NoData}]
    BY <1>8, <2>1, <2>2 DEF TypeOK, OutCopy, OutMessage, DataFile
  <2> QED
    BY <1>8, <2>3 DEF TypeOK, OutCopy
<1>9. CASE OutAbandon
  <2>1. faults' \in 0 .. MaxFaults
    BY <1>9, PipelineAssumption DEF TypeOK, OutAbandon, Fails, MayFail
  <2>2. krp' \in [Paths -> Report \cup {NoData, Partial}]
    BY <1>9 DEF TypeOK, OutAbandon, ReportLeft
  <2> QED
    BY <1>9, <2>1, <2>2 DEF TypeOK, OutAbandon
<1>10. CASE OutCrash
  <2>1. faults' \in 0 .. MaxFaults
    BY <1>10, PipelineAssumption DEF TypeOK, OutCrash, Fails, MayFail
  <2>2. krp' \in [Paths -> Report \cup {NoData, Partial}]
    BY <1>10 DEF TypeOK, OutCrash, ReportLeft
  <2> QED
    BY <1>0, <1>10, <2>1, <2>2, QueueOps DEF TypeOK, OutCrash
<1> QED
  BY <1>1, <1>2, <1>3, <1>4, <1>5, <1>6, <1>7, <1>8, <1>9, <1>10 DEF Out

LEMMA KnownStep == TypeOK /\ Known /\ [Next]_vars => Known'
<1> SUFFICES ASSUME TypeOK, Known, [Next]_vars PROVE Known'
  OBVIOUS
<1>1. ASSUME NEW p \in Paths, NEW c \in Contents, Deposit(p, c)
      PROVE  Known'
  <2>1. deposits + 1 \in Inodes
    BY <1>1, PipelineAssumption DEF TypeOK, Deposit, Inodes
  <2>2. \A i \in 1 .. deposits' : content'[i] \in Contents
    BY <1>1, <2>1, PipelineAssumption DEF TypeOK, Known, Deposit, Inodes
  <2>3. \A q \in Paths : sasIn'[q] \in 0 .. deposits'
    BY <1>1, PipelineAssumption DEF TypeOK, Known, Deposit
  <2> QED
    BY <2>2, <2>3 DEF Known
<1>2. ASSUME NEW i \in Inodes, NEW c \in Contents, WriteInPlace(i, c)
      PROVE  Known'
  BY <1>2, PipelineAssumption DEF TypeOK, Known, WriteInPlace, Inodes
<1>3. ASSUME UNCHANGED <<content, deposits>>,
             \A p \in Paths : sasIn'[p] \in {0, sasIn[p]}
      PROVE  Known'
  BY <1>3, PipelineAssumption DEF TypeOK, Known
<1>4. ASSUME In \/ InCrash
      PROVE  UNCHANGED <<content, deposits>> /\
             \A p \in Paths : sasIn'[p] \in {0, sasIn[p]}
  BY <1>4 DEF TypeOK, In, InStart, InAccept, InList, InOpen, InSkip, InMark,
              InSend, InSendFails, InUnlink, InUnlinkFails, InCrash, envVars
<1>5. ASSUME \/ \E p \in Paths : Collect(p) \/ CollectReport(p)
             \/ Transit \/ TransitCrash
             \/ Out \/ OutCrash
             \/ UNCHANGED vars
      PROVE  UNCHANGED <<content, deposits, sasIn>>
  BY <1>5 DEF Collect, CollectReport,
              Transit, TransitCrash, TransitStart, TransitAccept, TransitRecv,
              TransitCheck, TransitSend, TransitSendFails, TransitExit,
              TransitDies,
              Out, OutCrash, OutStart, OutConnect, OutRecv, OutClose,
              OutDigest, OutReport, OutCreate, OutCopy, OutAbandon,
              vars, envVars
<1>6. CASE In \/ InCrash
  BY <1>3, <1>4, <1>6
<1>7. CASE \E p \in Paths, c \in Contents : Deposit(p, c)
  BY <1>1, <1>7
<1>8. CASE \E i \in Inodes, c \in Contents : WriteInPlace(i, c)
  BY <1>2, <1>8
<1>9. CASE \/ \E p \in Paths : Collect(p) \/ CollectReport(p)
           \/ Transit \/ TransitCrash
           \/ Out \/ OutCrash
           \/ UNCHANGED vars
  BY <1>3, <1>5, <1>9
<1> QED
  BY <1>6, <1>7, <1>8, <1>9 DEF Next, Environment

LEMMA TypeStep == TypeOK /\ Known /\ [Next]_vars => TypeOK'
<1>1. TypeOK /\ UNCHANGED vars => TypeOK'
  BY DEF TypeOK, vars, envVars, inVars, trVars, outVars
<1> QED
  BY <1>1, EnvironmentTypeOK, InTypeOK, TransitTypeOK, OutTypeOK DEF Next

(* In every behaviour of the pipeline the variables keep their types, and a *)
(* daemon holds a file exactly at the steps that work on one.               *)
THEOREM PipelineTypeOK == Spec => []TypeOK
<1>1. Init => TypeOK /\ Known
  <2>1. Init => Known
    BY PipelineAssumption DEF Init, Known
  <2> QED
    BY <2>1, InitTypeOK
<1>2. TypeOK /\ Known /\ [Next]_vars => (TypeOK /\ Known)'
  BY KnownStep, TypeStep
<1> QED
  BY <1>1, <1>2, PTL DEF Spec

------------------------------------------------------------------------------
(* Why what is released is acceptable.  The checks of keysas-transit and    *)
(* the two digests read a file at different moments, but a copy in progress *)
(* only goes forward (Rewrites is a strict order).  So a content a check    *)
(* has seen lies between the announced digest and the present content; when *)
(* keysas-out finds the announced digest again, it is all of them.          *)

MayBecome(c, d) == c = d \/ <<c, d>> \in Rewrites

Mandatory == {"is_toobig", "av_pass", "yara_pass", "is_type_allowed"}

(* A check left a passing value in its field. *)
Passed(md, chk) == IF chk = "is_toobig" THEN ~md[chk] ELSE md[chk]

(* A check has nothing against a content. *)
Harmless(chk, c) ==
  /\ chk = "is_toobig" => c \notin TooBig
  /\ chk = "av_pass" => c \notin Infected
  /\ chk = "yara_pass" => c \notin YaraHit
  /\ chk = "is_type_allowed" => TypeOff \/ c \notin Forbidden

(* The messages of keysas-in that a deposit accounts for. *)
Announcements ==
  {m \in InMessage :
     /\ m.ino \in 1 .. deposits
     /\ MayBecome(m.digest, content[m.ino])}

(* The files of keysas-transit whose passed checks a past content accounts  *)
(* for.                                                                     *)
Vouchers ==
  {m \in OutMessage :
     /\ m.ino \in 1 .. deposits
     /\ MayBecome(m.digest, content[m.ino])
     /\ \A chk \in Mandatory : Passed(m.md, chk) =>
          \E s \in Contents :
            /\ MayBecome(m.digest, s) /\ MayBecome(s, content[m.ino])
            /\ Harmless(chk, s)}

Vetting ==
  /\ inPc \in {"opened", "marked", "sent"} => inFile \in Announcements
  /\ toTransit \in Channel(Announcements)
  /\ trPc \in {"check", "send"} => trFile \in Vouchers
  /\ toOut \in Channel(Vouchers)
  /\ outPc = "digest" => outFile \in Vouchers
  /\ outPc \in {"report", "copy", "copying"} =>
       (Releasable(outFile.md) => Acceptable(outFile.digest))
  /\ outPc \in {"copy", "copying"} => Releasable(outFile.md)
  /\ ReleasedIsAcceptable

IInv == TypeOK /\ Known /\ Vetting

LEMMA ChannelMonotonic ==
  ASSUME NEW M, NEW N, M \subseteq N, NEW ch \in Channel(M)
  PROVE  ch \in Channel(N)
<1>1. ch.queue \in Seq(N)
  BY DEF Channel
<1> QED
  BY <1>1 DEF Channel

LEMMA MayBecomeTransitive ==
  ASSUME NEW c \in Contents, NEW d \in Contents, NEW e \in Contents,
         MayBecome(c, d), MayBecome(d, e)
  PROVE  MayBecome(c, e)
BY RewritesAssumption DEF MayBecome

LEMMA MayBecomeAntisymmetric ==
  ASSUME NEW c \in Contents, NEW d \in Contents,
         MayBecome(c, d), MayBecome(d, c)
  PROVE  c = d
BY RewritesAssumption DEF MayBecome

(* Whatever happens, contents only go forward. *)
LEMMA ContentsGoForward ==
  ASSUME TypeOK, Known, [Next]_vars
  PROVE  \A i \in 1 .. deposits :
           /\ i \in 1 .. deposits'
           /\ content'[i] \in Contents
           /\ MayBecome(content[i], content'[i])
<1>1. ASSUME NEW p \in Paths, NEW c \in Contents, Deposit(p, c)
      PROVE  \A i \in 1 .. deposits :
               i \in 1 .. deposits' /\ content'[i] = content[i]
  BY <1>1, PipelineAssumption DEF TypeOK, Deposit, Inodes
<1>2. ASSUME NEW i \in Inodes, NEW c \in Contents, WriteInPlace(i, c)
      PROVE  /\ deposits' = deposits
             /\ \A k \in 1 .. deposits :
                  /\ content'[k] \in Contents
                  /\ MayBecome(content[k], content'[k])
  <2>1. UNCHANGED deposits /\ <<content[i], c>> \in Rewrites
    BY <1>2 DEF WriteInPlace
  <2>2. \A k \in Inodes : content'[k] = IF k = i THEN c ELSE content[k]
    BY <1>2 DEF TypeOK, WriteInPlace
  <2>3. \A k \in 1 .. deposits : k \in Inodes
    BY PipelineAssumption DEF TypeOK, Inodes
  <2>4. \A k \in 1 .. deposits : content'[k] \in Contents
    BY <2>2, <2>3 DEF Known
  <2>5. \A k \in 1 .. deposits : MayBecome(content[k], content'[k])
    BY <2>1, <2>2, <2>3 DEF MayBecome
  <2> QED
    BY <2>1, <2>4, <2>5
<1>3. ASSUME \/ In \/ InCrash \/ Transit \/ TransitCrash \/ Out \/ OutCrash
             \/ \E p \in Paths : Collect(p) \/ CollectReport(p)
             \/ UNCHANGED vars
      PROVE  UNCHANGED <<content, deposits>>
  BY <1>3 DEF Collect, CollectReport,
              In, InCrash, InStart, InAccept, InList, InOpen, InSkip, InMark,
              InSend, InSendFails, InUnlink, InUnlinkFails,
              Transit, TransitCrash, TransitStart, TransitAccept, TransitRecv,
              TransitCheck, TransitSend, TransitSendFails, TransitExit,
              TransitDies,
              Out, OutCrash, OutStart, OutConnect, OutRecv, OutClose,
              OutDigest, OutReport, OutCreate, OutCopy, OutAbandon,
              vars, envVars
<1>4. CASE \E p \in Paths, c \in Contents : Deposit(p, c)
  BY <1>1, <1>4 DEF Known, MayBecome
<1>5. CASE \E i \in Inodes, c \in Contents : WriteInPlace(i, c)
  BY <1>2, <1>5
<1>6. CASE \/ In \/ InCrash \/ Transit \/ TransitCrash \/ Out \/ OutCrash
           \/ \E p \in Paths : Collect(p) \/ CollectReport(p)
           \/ UNCHANGED vars
  BY <1>3, <1>6 DEF Known, MayBecome
<1> QED
  BY <1>4, <1>5, <1>6 DEF Next, Environment

(* So what was announced or vouched for remains so. *)
LEMMA VettingGrows ==
  ASSUME TypeOK, Known, [Next]_vars
  PROVE  Announcements \subseteq Announcements' /\ Vouchers \subseteq Vouchers'
<1> USE DEF InMessage, OutMessage
<1>1. ASSUME NEW i \in 1 .. deposits, NEW s \in Contents,
             MayBecome(s, content[i])
      PROVE  MayBecome(s, content'[i])
  BY <1>1, ContentsGoForward, MayBecomeTransitive DEF Known
<1>2. ASSUME NEW m \in Announcements
      PROVE  m \in Announcements'
  BY <1>1, ContentsGoForward DEF Announcements
<1>3. ASSUME NEW m \in Vouchers
      PROVE  m \in Vouchers'
  <2>1. /\ m \in OutMessage
        /\ m.ino \in 1 .. deposits'
        /\ MayBecome(m.digest, content'[m.ino])
    BY <1>1, ContentsGoForward DEF Vouchers
  <2>2. ASSUME NEW chk \in Mandatory, Passed(m.md, chk)
        PROVE  \E s \in Contents :
                 /\ MayBecome(m.digest, s) /\ MayBecome(s, content'[m.ino])
                 /\ Harmless(chk, s)
    BY <1>1, <2>2 DEF Vouchers
  <2> QED
    BY <2>1, <2>2 DEF Vouchers
<1> QED
  BY <1>2, <1>3

(* A check has seen the content it passes. *)
LEMMA PassedIsHarmless ==
  ASSUME NEW chk \in Mandatory, NEW c, NEW d, NEW md \in Metadata,
         md[chk] \in CheckOutcomes(chk, c, d), Passed(md, chk)
  PROVE  Harmless(chk, c)
<1>1. md[chk] = CheckResult(chk, c, d) \/ md[chk] = ReceivedMetadata(FALSE)[chk]
  BY DEF CheckOutcomes
<1>2. ReceivedMetadata(FALSE)[chk] = (chk = "is_toobig")
  BY DEF ReceivedMetadata, Mandatory, Fields, CheckFields
<1>3. md[chk] = CheckResult(chk, c, d)
  BY <1>1, <1>2 DEF Passed
<1>4. CASE chk = "is_toobig"
  BY <1>3, <1>4 DEF CheckResult, Passed, Harmless
<1>5. CASE chk = "av_pass"
  BY <1>3, <1>5 DEF CheckResult, Passed, Harmless
<1>6. CASE chk = "yara_pass"
  BY <1>3, <1>6 DEF CheckResult, Passed, Harmless
<1>7. CASE chk = "is_type_allowed"
  BY <1>3, <1>7 DEF CheckResult, Passed, Harmless
<1> QED
  BY <1>4, <1>5, <1>6, <1>7 DEF Mandatory

(* keysas-out concludes from the passed checks, once the digest is the      *)
(* announced one again.                                                     *)
LEMMA DigestDecides ==
  ASSUME NEW m \in Vouchers, Known,
         Releasable(Redigested(m.md, content[m.ino], m.digest))
  PROVE  Acceptable(m.digest)
<1> DEFINE d == m.digest
           md == Redigested(m.md, content[m.ino], m.digest)
<1>1. d \in Contents /\ m.md \in Metadata
  BY DEF Vouchers, OutMessage
<1>2. /\ md["is_digest_ok"] => content[m.ino] = d
      /\ \A chk \in Mandatory : md[chk] = m.md[chk]
  BY <1>1 DEF Redigested, Metadata, Fields, CheckFields, Mandatory
<1>3. content[m.ino] = d
  BY <1>2 DEF Releasable
<1>4. ASSUME NEW chk \in Mandatory, Passed(m.md, chk)
      PROVE  Harmless(chk, d)
  <2>1. PICK s \in Contents :
          MayBecome(d, s) /\ MayBecome(s, d) /\ Harmless(chk, s)
    BY <1>3, <1>4 DEF Vouchers
  <2> QED
    BY <1>1, <2>1, MayBecomeAntisymmetric
<1>5. /\ ~m.md["is_toobig"] /\ m.md["av_pass"] /\ m.md["is_type_allowed"]
      /\ m.md["yara_pass"] \/ ~YaraClean
  BY <1>2 DEF Releasable, Mandatory
<1>6. d \notin TooBig
  BY <1>4, <1>5 DEF Mandatory, Passed, Harmless
<1>7. d \notin Infected
  BY <1>4, <1>5 DEF Mandatory, Passed, Harmless
<1>8. TypeOff \/ d \notin Forbidden
  BY <1>4, <1>5 DEF Mandatory, Passed, Harmless
<1>9. YaraClean => d \notin YaraHit
  BY <1>4, <1>5 DEF Mandatory, Passed, Harmless
<1> QED
  BY <1>6, <1>7, <1>8, <1>9 DEF Acceptable

(* What a step leaves alone stays vetted. *)
LEMMA InSideKept ==
  ASSUME IInv, [Next]_vars, UNCHANGED inVars
  PROVE  inPc' \in {"opened", "marked", "sent"} => inFile' \in Announcements'
BY VettingGrows DEF IInv, Vetting, inVars

LEMMA ToTransitKept ==
  ASSUME IInv, [Next]_vars, UNCHANGED toTransit
  PROVE  toTransit' \in Channel(Announcements')
BY VettingGrows, ChannelMonotonic DEF IInv, Vetting

LEMMA TransitSideKept ==
  ASSUME IInv, [Next]_vars, UNCHANGED trVars
  PROVE  trPc' \in {"check", "send"} => trFile' \in Vouchers'
BY VettingGrows DEF IInv, Vetting, trVars

LEMMA ToOutKept ==
  ASSUME IInv, [Next]_vars, UNCHANGED toOut
  PROVE  toOut' \in Channel(Vouchers')
BY VettingGrows, ChannelMonotonic DEF IInv, Vetting

LEMMA OutSideKept ==
  ASSUME IInv, [Next]_vars, UNCHANGED <<outPc, outFile>>
  PROVE  /\ outPc' = "digest" => outFile' \in Vouchers'
         /\ outPc' \in {"report", "copy", "copying"} =>
              (Releasable(outFile'.md) => Acceptable(outFile'.digest))
         /\ outPc' \in {"copy", "copying"} => Releasable(outFile'.md)
BY VettingGrows DEF IInv, Vetting

LEMMA ReleasedKept ==
  ASSUME IInv, \A p \in Paths : sasOut'[p] \in {sasOut[p], NoData}
  PROVE  ReleasedIsAcceptable'
BY DEF IInv, Vetting, ReleasedIsAcceptable

LEMMA EnvironmentVetting ==
  ASSUME IInv, Environment \/ UNCHANGED vars
  PROVE  Vetting'
<1>1. [Next]_vars
  BY DEF Next
<1>2. /\ UNCHANGED <<inVars, toTransit, trVars, toOut, outPc, outFile>>
      /\ \A p \in Paths : sasOut'[p] \in {sasOut[p], NoData}
  BY DEF IInv, TypeOK, Environment, Deposit, WriteInPlace, Collect,
         CollectReport, vars, outVars
<1> QED
  BY <1>1, <1>2, InSideKept, ToTransitKept, TransitSideKept, ToOutKept,
     OutSideKept, ReleasedKept DEF Vetting

LEMMA InVetting ==
  ASSUME IInv, In \/ InCrash
  PROVE  Vetting'
<1> USE DEF envVars
<1>1. [Next]_vars
  BY DEF Next
<1>2. /\ UNCHANGED <<trVars, toOut, outPc, outFile, sasOut, content, deposits>>
      /\ TypeOK
  BY DEF IInv, In, InCrash, InStart, InAccept, InList, InOpen, InSkip, InMark,
         InSend, InSendFails, InUnlink, InUnlinkFails, outVars
<1>3. /\ trPc' \in {"check", "send"} => trFile' \in Vouchers'
      /\ toOut' \in Channel(Vouchers')
      /\ outPc' = "digest" => outFile' \in Vouchers'
      /\ outPc' \in {"report", "copy", "copying"} =>
           (Releasable(outFile'.md) => Acceptable(outFile'.digest))
      /\ outPc' \in {"copy", "copying"} => Releasable(outFile'.md)
      /\ ReleasedIsAcceptable'
  BY <1>1, <1>2, TransitSideKept, ToOutKept, OutSideKept, ReleasedKept
<1>4. /\ Announcements' = Announcements
      /\ toTransit \in Channel(Announcements)
  BY <1>2 DEF IInv, Vetting, Announcements
<1>5. SUFFICES
        /\ inPc' \in {"opened", "marked", "sent"} => inFile' \in Announcements
        /\ toTransit' \in Channel(Announcements)
  BY <1>3, <1>4 DEF Vetting
<1>6. CASE InStart \/ InAccept \/ InList
  BY <1>4, <1>6, ConnectionOps DEF InStart, InAccept, InList
<1>7. ASSUME NEW p \in Paths, InOpen(p)
      PROVE  inFile' \in Announcements /\ UNCHANGED toTransit
  <2>1. inFile' = [path |-> p, ino |-> sasIn[p], digest |-> content[sasIn[p]],
                   is_corrupted |-> FALSE]
    BY <1>7 DEF InOpen, Digest
  <2>2. sasIn[p] \in 1 .. deposits /\ sasIn[p] \in Inodes
    BY <1>7 DEF IInv, Known, TypeOK, InOpen
  <2>3. content[sasIn[p]] \in Contents
    BY <2>2 DEF IInv, Known
  <2> QED
    BY <1>7, <2>1, <2>2, <2>3
       DEF InOpen, Announcements, InMessage, MayBecome
<1>8. ASSUME NEW p \in Paths, InSkip(p)
      PROVE  inPc' \in {"batch", "accept"} /\ toTransit' \in Channel(Announcements)
  BY <1>4, <1>8, ConnectionOps DEF InSkip
<1>9. CASE InMark
  <2>1. inFile \in Announcements
    BY <1>9 DEF IInv, Vetting, InMark
  <2>2. inFile' = [inFile EXCEPT !.is_corrupted = IsCorrupted(inFile.path)]
    BY <1>9 DEF InMark
  <2>3. IsCorrupted(inFile.path) \in BOOLEAN
    BY DEF IsCorrupted
  <2>4. inFile' \in Announcements
    BY <2>1, <2>2, <2>3 DEF Announcements, InMessage
  <2> QED
    BY <1>4, <1>9, <2>4 DEF InMark
<1>10. CASE InSend
  <2>1. inFile \in Announcements
    BY <1>10 DEF IInv, Vetting, InSend
  <2> QED
    BY <1>4, <1>10, <2>1, QueueOps DEF InSend
<1>11. CASE InSendFails \/ InUnlink \/ InUnlinkFails \/ InCrash
  BY <1>4, <1>11, ConnectionOps
     DEF InSendFails, InUnlink, InUnlinkFails, InCrash
<1> QED
  BY <1>4, <1>6, <1>7, <1>8, <1>9, <1>10, <1>11 DEF In

LEMMA TransitVetting ==
  ASSUME IInv, Transit \/ TransitCrash
  PROVE  Vetting'
<1> USE DEF envVars
<1>1. [Next]_vars
  BY DEF Next
<1>2. UNCHANGED <<inVars, outPc, outFile, sasOut, content, deposits>>
  BY DEF Transit, TransitCrash, TransitStart, TransitAccept, TransitRecv,
         TransitCheck, TransitSend, TransitSendFails, TransitExit,
         TransitDies, outVars
<1>3. /\ inPc' \in {"opened", "marked", "sent"} => inFile' \in Announcements'
      /\ outPc' = "digest" => outFile' \in Vouchers'
      /\ outPc' \in {"report", "copy", "copying"} =>
           (Releasable(outFile'.md) => Acceptable(outFile'.digest))
      /\ outPc' \in {"copy", "copying"} => Releasable(outFile'.md)
      /\ ReleasedIsAcceptable'
  BY <1>1, <1>2, InSideKept, OutSideKept, ReleasedKept
<1>4. /\ Announcements' = Announcements
      /\ Vouchers' = Vouchers
      /\ toTransit \in Channel(Announcements)
      /\ toOut \in Channel(Vouchers)
  BY <1>2 DEF IInv, Vetting, Announcements, Vouchers
<1>5. SUFFICES
        /\ toTransit' \in Channel(Announcements)
        /\ trPc' \in {"check", "send"} => trFile' \in Vouchers
        /\ toOut' \in Channel(Vouchers)
  BY <1>3, <1>4 DEF Vetting
<1>6. CASE TransitStart \/ TransitAccept
  BY <1>4, <1>6, ConnectionOps DEF TransitStart, TransitAccept
<1>7. CASE TransitRecv
  <2> DEFINE m == Head(toTransit.queue)
  <2>1. m \in Announcements /\ toTransit' \in Channel(Announcements)
    BY <1>4, <1>7, QueueOps DEF TransitRecv
  <2>2. trFile' = [path |-> m.path, ino |-> m.ino, digest |-> m.digest,
                   md |-> ReceivedMetadata(m.is_corrupted)]
    BY <1>7 DEF TransitRecv
  <2>3. m \in InMessage
    BY <2>1 DEF Announcements
  <2>4. ReceivedMetadata(m.is_corrupted) \in Metadata
    BY <2>3, ReceivedMetadataType DEF InMessage
  <2>5. \A chk \in Mandatory : ~Passed(ReceivedMetadata(m.is_corrupted), chk)
    BY DEF Passed, Mandatory, ReceivedMetadata, Fields, CheckFields
  <2> HIDE DEF m
  <2>6. trFile' \in OutMessage
    BY <2>2, <2>3, <2>4 DEF InMessage, OutMessage
  <2>7. trFile' \in Vouchers
    BY <2>1, <2>2, <2>5, <2>6 DEF Announcements, Vouchers
  <2> QED
    BY <1>4, <1>7, <2>1, <2>7 DEF TransitRecv
<1>8. CASE TransitCheck
  <2> DEFINE chk == CheckOrder[trCheck]
             c == content[trFile.ino]
             d == trFile.digest
             md == trFile'.md
  <2>1. trFile \in Vouchers /\ trFile \in OutMessage
    BY <1>8 DEF IInv, Vetting, TransitCheck, Vouchers
  <2>2. chk \in CheckFields
    BY <1>8, CheckOrderFacts DEF IInv, TypeOK, TransitCheck
  <2>3. PICK r \in CheckOutcomes(chk, c, d) :
          trFile' = [trFile EXCEPT !.md = [@ EXCEPT ![chk] = r]]
    BY <1>8 DEF TransitCheck
  <2>4. trFile' \in OutMessage
    <3>1. r \in BOOLEAN
      BY <2>2, <2>3, CheckOutcomesType
    <3>2. [trFile.md EXCEPT ![chk] = r] \in Metadata
      BY <2>1, <2>2, <3>1 DEF OutMessage, Metadata, Fields
    <3> QED
      BY <2>1, <2>3, <3>2 DEF OutMessage
  <2>5. /\ trFile'.ino = trFile.ino /\ trFile'.digest = d
        /\ md = [trFile.md EXCEPT ![chk] = r]
        /\ md \in Metadata
    BY <2>1, <2>3, <2>4 DEF OutMessage
  <2>6. /\ md[chk] \in CheckOutcomes(chk, c, d)
        /\ \A other \in Fields \ {chk} : md[other] = trFile.md[other]
    BY <2>1, <2>2, <2>3, <2>5 DEF OutMessage, Metadata, Fields
  <2>7. c \in Contents /\ d \in Contents /\ MayBecome(d, c) /\ MayBecome(c, c)
    BY <2>1 DEF Vouchers, OutMessage, IInv, Known, MayBecome
  <2> HIDE DEF chk, c, d, md
  <2>8. ASSUME NEW k \in Mandatory, Passed(md, k)
        PROVE  \E s \in Contents :
                 MayBecome(d, s) /\ MayBecome(s, c) /\ Harmless(k, s)
    <3>1. CASE k = chk
      <4>1. Harmless(k, c)
        BY <2>5, <2>6, <2>8, <3>1, PassedIsHarmless
      <4> QED
        BY <2>7, <4>1
    <3>2. CASE k # chk
      <4>1. Passed(trFile.md, k)
        BY <2>6, <2>8, <3>2 DEF Passed, Mandatory, Fields, CheckFields
      <4> QED
        BY <2>1, <4>1 DEF Vouchers, c, d
    <3> QED
      BY <3>1, <3>2
  <2>9. trFile' \in Vouchers
    BY <2>1, <2>4, <2>5, <2>8 DEF Vouchers, c, d, md
  <2> QED
    BY <1>4, <1>8, <2>9 DEF TransitCheck
<1>9. CASE TransitSend
  <2>1. trFile \in Vouchers
    BY <1>9 DEF IInv, Vetting, TransitSend
  <2> QED
    BY <1>4, <1>9, <2>1, QueueOps DEF TransitSend
<1>10. CASE TransitSendFails
  BY <1>4, <1>10, ConnectionOps DEF TransitSendFails
<1>11. CASE TransitExit \/ TransitCrash
  BY <1>4, <1>11, ConnectionOps, QueueOps
     DEF TransitExit, TransitCrash, TransitDies
<1> QED
  BY <1>6, <1>7, <1>8, <1>9, <1>10, <1>11 DEF Transit

LEMMA OutVetting ==
  ASSUME IInv, Out \/ OutCrash
  PROVE  Vetting'
<1> USE DEF envVars
<1>1. [Next]_vars
  BY DEF Next
<1>2. UNCHANGED <<inVars, toTransit, trVars, content, deposits>>
  BY DEF Out, OutCrash, OutStart, OutConnect, OutRecv, OutClose, OutDigest,
         OutReport, OutCreate, OutCopy, OutAbandon
<1>3. /\ inPc' \in {"opened", "marked", "sent"} => inFile' \in Announcements'
      /\ toTransit' \in Channel(Announcements')
      /\ trPc' \in {"check", "send"} => trFile' \in Vouchers'
  BY <1>1, <1>2, InSideKept, ToTransitKept, TransitSideKept
<1>4. /\ Vouchers' = Vouchers
      /\ toOut \in Channel(Vouchers)
      /\ sasOut \in [Paths -> DataFile \cup {NoData}]
  BY <1>2 DEF IInv, TypeOK, Vetting, Vouchers
<1>5. SUFFICES
        /\ toOut' \in Channel(Vouchers)
        /\ outPc' = "digest" => outFile' \in Vouchers
        /\ outPc' \in {"report", "copy", "copying"} =>
             (Releasable(outFile'.md) => Acceptable(outFile'.digest))
        /\ outPc' \in {"copy", "copying"} => Releasable(outFile'.md)
        /\ ReleasedIsAcceptable'
  BY <1>3, <1>4 DEF Vetting
<1>6. UNCHANGED sasOut => ReleasedIsAcceptable'
  BY ReleasedKept
<1>7. CASE OutStart \/ OutConnect \/ OutClose \/ OutAbandon
  BY <1>4, <1>6, <1>7, ConnectionOps
     DEF OutStart, OutConnect, OutClose, OutAbandon
<1>8. CASE OutCrash
  BY <1>4, <1>6, <1>8, QueueOps DEF OutCrash
<1>9. CASE OutRecv
  BY <1>4, <1>6, <1>9, QueueOps DEF OutRecv
<1>10. CASE OutDigest
  <2>1. outFile \in Vouchers /\ outFile \in OutMessage
    BY <1>10 DEF IInv, Vetting, OutDigest, Vouchers
  <2>2. /\ outFile'.md = Redigested(outFile.md, content[outFile.ino],
                                   outFile.digest)
        /\ outFile'.digest = outFile.digest
    BY <1>10, <2>1 DEF OutDigest, OutMessage, Digest
  <2>3. Releasable(outFile'.md) => Acceptable(outFile'.digest)
    BY <2>1, <2>2, DigestDecides DEF IInv
  <2> QED
    BY <1>4, <1>6, <1>10, <2>3 DEF OutDigest
<1>11. CASE OutReport
  BY <1>4, <1>6, <1>11 DEF OutReport, IInv, Vetting
<1>12. CASE OutCreate
  <2>1. /\ outFile \in OutMessage
        /\ Releasable(outFile.md) /\ Acceptable(outFile.digest)
    BY <1>12 DEF IInv, TypeOK, Vetting, OutCreate
  <2>2. ReleasedIsAcceptable'
    BY <1>4, <1>12, <2>1
       DEF OutCreate, IInv, Vetting, ReleasedIsAcceptable, OutMessage
  <2> QED
    BY <1>4, <1>12, <2>1, <2>2 DEF OutCreate
<1>13. CASE OutCopy
  <2>1. \A p \in Paths :
          \/ sasOut'[p] = sasOut[p]
          \/ /\ sasOut[p] # NoData
             /\ sasOut'[p] = [sasOut[p] EXCEPT !.bytes = content[outFile.ino]]
    BY <1>4, <1>13 DEF OutCopy
  <2>2. \A p \in Paths : sasOut[p] # NoData =>
          [sasOut[p] EXCEPT !.bytes = content[outFile.ino]].digest
            = sasOut[p].digest
    BY <1>4 DEF DataFile
  <2>3. ReleasedIsAcceptable'
    BY <2>1, <2>2 DEF IInv, Vetting, ReleasedIsAcceptable
  <2> QED
    BY <1>4, <1>13, <2>3 DEF OutCopy
<1> QED
  BY <1>7, <1>8, <1>9, <1>10, <1>11, <1>12, <1>13 DEF Out

LEMMA InitVetting == Init => Vetting
BY UnboundChannel DEF Init, Vetting, ReleasedIsAcceptable

LEMMA InitIInv == Init => IInv
<1>1. Init => Known
  BY PipelineAssumption DEF Init, Known
<1> QED
  BY <1>1, InitTypeOK, InitVetting DEF IInv

LEMMA IInvStep == IInv /\ [Next]_vars => IInv'
<1> SUFFICES ASSUME IInv, [Next]_vars PROVE IInv'
  OBVIOUS
<1>1. TypeOK' /\ Known'
  BY KnownStep, TypeStep DEF IInv
<1>2. Vetting'
  BY EnvironmentVetting, InVetting, TransitVetting, OutVetting DEF Next
<1> QED
  BY <1>1, <1>2 DEF IInv

(* In every behaviour, whatever crashes, is lost or is rewritten meanwhile, *)
(* a file in sas_out was announced with a digest that all the mandatory     *)
(* checks accept.                                                           *)
THEOREM PipelineReleasesAcceptable == Spec => []ReleasedIsAcceptable
<1>1. IInv => ReleasedIsAcceptable
  BY DEF IInv, Vetting
<1> QED
  BY <1>1, InitIInv, IInvStep, PTL DEF Spec
=============================================================================
