------------------------- MODULE KeysasPassageProofs -------------------------
(***************************************************************************)
(* What is proved of the passage of a file through the pipeline, besides   *)
(* what it may hand over: no file goes through twice and no report comes   *)
(* after its file, as long as keysas-in lives and can unlink; and no file  *)
(* is lost, as long as the other two daemons live and nobody replaces a    *)
(* file that stands in sas_in.                                             *)
(***************************************************************************)
EXTENDS KeysasGateProofs

------------------------------------------------------------------------------
(* The inodes at hand in keysas-out and in keysas-transit, and those in the *)
(* two sockets: together, what Inside lists.                                *)

OutBusy == {"digest", "report", "copy", "copying"}
Inos(q) == {q[k].ino : k \in 1 .. Len(q)}

AtOut == IF outPc \in OutBusy THEN {outFile.ino} ELSE {}
ToOut == Inos(toOut.queue)
AtTransit == IF trPc \in {"check", "send"} THEN {trFile.ino} ELSE {}
ToTransit == Inos(toTransit.queue)

Passing == AtOut \cup ToOut \cup AtTransit \cup ToTransit

(* keysas-in works on a file. *)
InBusy == inPc \in {"opened", "marked", "sent"}

------------------------------------------------------------------------------
(* The invariant of a single passage. *)

Single(q) == \A j, k \in 1 .. Len(q) : q[j].ino = q[k].ino => j = k

(* No inode is in two places of the pipeline. *)
Apart ==
  /\ AtOut \cap ToOut = {} /\ AtOut \cap AtTransit = {} /\ AtOut \cap ToTransit = {}
  /\ ToOut \cap AtTransit = {} /\ ToOut \cap ToTransit = {}
  /\ AtTransit \cap ToTransit = {}
  /\ Single(toOut.queue) /\ Single(toTransit.queue)

(* An inode stands at one path of sas_in, and at none once it was sent but  *)
(* for the file keysas-in is about to unlink.                               *)
Fresh ==
  /\ Passing \cup judged \subseteq 1 .. deposits
  /\ \A p, q \in Paths : sasIn[p] = sasIn[q] /\ sasIn[p] # 0 => p = q
  /\ InBusy => /\ inFile.ino \in 1 .. deposits
               /\ \A p \in Paths : sasIn[p] = inFile.ino => p = inFile.path
  /\ inPc \in {"opened", "marked"} => inFile.ino \notin Passing \cup judged
  /\ \A p \in Paths :
       sasIn[p] \in Passing \cup judged =>
         inPc = "sent" /\ p = inFile.path /\ sasIn[p] = inFile.ino

(* A file is reported on once, just before it is copied, and what stands in *)
(* sas_out has been reported on.                                            *)
Judged ==
  /\ \A i \in Passing \cap judged : outPc \in {"copy", "copying"} /\ i = outFile.ino
  /\ outPc \in {"copy", "copying"} => outFile.ino \in judged
  /\ \A p \in Paths :
       /\ newest[p] \in judged \cup {0}
       /\ sasOut[p] # NoData => sasOut[p].ino = newest[p]

Passage == Apart /\ Fresh /\ Judged

------------------------------------------------------------------------------
(* The invariant of a passage without loss. *)

(* keysas-out never dies and never abandons a file, so that no connection   *)
(* to it breaks; what is in the socket of keysas-in is in a connection that *)
(* was accepted.                                                            *)
Linked ==
  /\ toOut.snd # "broken" /\ toOut.dead = 0
  /\ toTransit.snd = "linked" => toTransit.rcv = "linked"
  /\ toTransit.rcv \in {"none", "pending", "reset"} => toTransit.queue = << >>

(* What keysas-in works on stays at its path until it is unlinked, and it   *)
(* is inside, or reported on, before.                                       *)
Kept ==
  /\ InBusy => sasIn[inFile.path] = inFile.ino
  /\ inPc = "sent" => inFile.ino \in Passing \cup judged
  /\ unlinked \subseteq Passing \cup judged
  /\ outPc \in {"copy", "copying"} => outFile.ino \in judged

------------------------------------------------------------------------------
(* What sending and receiving do to the inodes of a queue. *)

LEMMA AppendInos ==
  ASSUME NEW M, NEW q \in Seq(M), NEW m \in M
  PROVE  /\ Inos(Append(q, m)) = Inos(q) \cup {m.ino}
         /\ Single(q) /\ m.ino \notin Inos(q) => Single(Append(q, m))
<1> DEFINE r == Append(q, m)
<1>1. /\ Len(r) = Len(q) + 1 /\ Len(q) \in Nat
      /\ \A k \in 1 .. Len(q) : r[k] = q[k]
      /\ r[Len(q) + 1] = m
  OBVIOUS
<1> HIDE DEF r
<1>2. Inos(r) = Inos(q) \cup {m.ino}
  BY <1>1 DEF Inos
<1>3. ASSUME Single(q), m.ino \notin Inos(q)
      PROVE  Single(r)
  <2>1. \A k \in 1 .. Len(q) : q[k].ino # m.ino
    BY <1>3 DEF Inos
  <2> QED
    BY <1>1, <1>3, <2>1 DEF Single
<1> QED
  BY <1>2, <1>3 DEF r

LEMMA TailInos ==
  ASSUME NEW M, NEW q \in Seq(M), q # << >>
  PROVE  /\ Inos(q) = Inos(Tail(q)) \cup {Head(q).ino}
         /\ Single(q) => Single(Tail(q)) /\ Head(q).ino \notin Inos(Tail(q))
<1> DEFINE r == Tail(q)
<1>1. /\ Len(q) \in Nat /\ Len(q) >= 1
      /\ Len(r) = Len(q) - 1
      /\ \A k \in 1 .. Len(r) : r[k] = q[k + 1]
      /\ Head(q) = q[1]
  OBVIOUS
<1> HIDE DEF r
<1>2. Inos(q) = Inos(r) \cup {Head(q).ino}
  <2>1. \A k \in 1 .. Len(q) : k = 1 \/ (k - 1 \in 1 .. Len(r) /\ q[k] = r[k - 1])
    BY <1>1
  <2>2. ASSUME NEW i \in Inos(q) PROVE i \in Inos(r) \cup {Head(q).ino}
    <3>1. PICK k \in 1 .. Len(q) : i = q[k].ino
      BY DEF Inos
    <3> QED
      BY <1>1, <2>1, <3>1 DEF Inos
  <2>3. Inos(r) \cup {Head(q).ino} \subseteq Inos(q)
    BY <1>1 DEF Inos
  <2> QED
    BY <2>2, <2>3
<1>3. ASSUME Single(q)
      PROVE  Single(r) /\ Head(q).ino \notin Inos(r)
  <2>1. Single(r)
    BY <1>1, <1>3 DEF Single
  <2>2. \A k \in 1 .. Len(r) : r[k].ino # Head(q).ino
    BY <1>1, <1>3 DEF Single
  <2> QED
    BY <2>1, <2>2 DEF Inos
<1> QED
  BY <1>2, <1>3 DEF r

LEMMA EmptyInos == Inos(<< >>) = {} /\ Single(<< >>)
BY DEF Inos, Single
(* The inodes of the daemons and sockets a step does not concern. *)
LEMMA InosKept ==
  /\ UNCHANGED <<outPc, outFile>> => AtOut' = AtOut
  /\ toOut'.queue = toOut.queue => ToOut' = ToOut
  /\ UNCHANGED <<trPc, trFile>> => AtTransit' = AtTransit
  /\ toTransit'.queue = toTransit.queue => ToTransit' = ToTransit
BY DEF AtOut, ToOut, AtTransit, ToTransit

(* What a step of each daemon leaves alone. *)
LEMMA EnvironmentLeaves ==
  Environment \/ UNCHANGED vars =>
    UNCHANGED <<inVars, toTransit, trVars, toOut, outPc, outFile, judged,
                newest, unlinked>>
BY DEF Environment, Deposit, WriteInPlace, Collect, CollectReport, vars,
       outVars, inVars, trVars

LEMMA InLeaves ==
  In \/ InCrash =>
    UNCHANGED <<content, deposits, trVars, toOut, outVars>>
BY DEF In, InCrash, InStart, InAccept, InList, InOpen, InSkip, InMark, InSend,
       InSendFails, InUnlink, InUnlinkFails, envVars

LEMMA TransitLeaves ==
  Transit \/ TransitCrash =>
    UNCHANGED <<content, deposits, sasIn, inVars, outVars, unlinked>>
BY DEF Transit, TransitCrash, TransitStart, TransitAccept, TransitRecv,
       TransitCheck, TransitSend, TransitSendFails, TransitExit, TransitDies,
       envVars

LEMMA OutLeaves ==
  Out \/ OutCrash =>
    UNCHANGED <<content, deposits, sasIn, inVars, toTransit, trVars, unlinked>>
BY DEF Out, OutCrash, OutStart, OutConnect, OutRecv, OutClose, OutDigest,
       OutReport, OutCreate, OutCopy, OutAbandon, envVars

------------------------------------------------------------------------------
(* Where the inodes go, one lemma for each daemon. *)

(* keysas-in adds to its socket the file it sends, and no other step of it  *)
(* moves an inode.                                                          *)
LEMMA InMoves ==
  ASSUME TypeOK, In \/ InCrash
  PROVE  /\ AtOut' = AtOut /\ ToOut' = ToOut /\ AtTransit' = AtTransit
         /\ \/ /\ InSend /\ ToTransit' = ToTransit \cup {inFile.ino}
               /\ Single(toTransit.queue) /\ inFile.ino \notin ToTransit
                    => Single(toTransit.queue)'
            \/ ~InSend /\ toTransit'.queue = toTransit.queue /\ ToTransit' = ToTransit
<1>1. toTransit \in Channel(InMessage) /\ toTransit.queue \in Seq(InMessage)
  BY DEF TypeOK, Channel
<1>2. AtOut' = AtOut /\ ToOut' = ToOut /\ AtTransit' = AtTransit
  BY InLeaves, InosKept DEF outVars, trVars
<1>3. CASE InSend
  <2>1. inFile \in InMessage /\ toTransit'.queue = Append(toTransit.queue, inFile)
    BY <1>1, <1>3, QueueUnchanged DEF TypeOK, InSend
  <2> QED
    BY <1>1, <1>2, <1>3, <2>1, AppendInos DEF ToTransit
<1>4. CASE ~InSend
  <2>1. toTransit'.queue = toTransit.queue
    BY <1>1, <1>4, QueueUnchanged
       DEF In, InCrash, InStart, InAccept, InList, InOpen, InSkip, InMark,
           InSendFails, InUnlink, InUnlinkFails
  <2> QED
    BY <1>2, <1>4, <2>1, InosKept
<1> QED
  BY <1>3, <1>4

(* keysas-transit takes a file out of one socket and puts it in the other,  *)
(* or loses what it holds.                                                  *)
LEMMA TransitMoves ==
  ASSUME TypeOK, Transit \/ TransitCrash
  PROVE  /\ AtOut' = AtOut
         /\ \/ /\ TransitRecv /\ ToOut' = ToOut /\ toOut'.queue = toOut.queue
               /\ AtTransit = {} /\ ToTransit = ToTransit' \cup AtTransit'
               /\ Single(toTransit.queue) =>
                    Single(toTransit.queue)' /\ AtTransit' \cap ToTransit' = {}
            \/ /\ TransitSend /\ toTransit' = toTransit /\ ToTransit' = ToTransit
               /\ AtTransit' = {} /\ ToOut' = ToOut \cup AtTransit
               /\ Single(toOut.queue) /\ AtTransit \cap ToOut = {}
                    => Single(toOut.queue)'
            \/ /\ TransitSendFails \/ TransitExit \/ TransitCrash
               /\ ToOut' = ToOut /\ toOut'.queue = toOut.queue
               /\ AtTransit' = {}
               /\ \/ toTransit' = toTransit /\ ToTransit' = ToTransit
                  \/ toTransit'.queue = << >> /\ ToTransit' = {}
            \/ /\ ToOut' = ToOut /\ toOut'.queue = toOut.queue
               /\ AtTransit' = AtTransit
               /\ ToTransit' = ToTransit /\ toTransit'.queue = toTransit.queue
<1>1. /\ toTransit \in Channel(InMessage) /\ toTransit.queue \in Seq(InMessage)
      /\ toOut \in Channel(OutMessage) /\ toOut.queue \in Seq(OutMessage)
  BY DEF TypeOK, Channel
<1>2. AtOut' = AtOut
  BY TransitLeaves, InosKept DEF outVars
<1>3. CASE TransitRecv
  <2>1. /\ toOut' = toOut /\ toTransit.queue # << >>
        /\ toTransit'.queue = Tail(toTransit.queue)
    BY <1>1, <1>3, QueueUnchanged DEF TransitRecv
  <2>2. trFile'.ino = Head(toTransit.queue).ino
    BY <1>3 DEF TransitRecv
  <2>3. AtTransit = {} /\ AtTransit' = {Head(toTransit.queue).ino}
    BY <1>3, <2>2 DEF TransitRecv, AtTransit
  <2>4. /\ ToTransit = ToTransit' \cup AtTransit'
        /\ Single(toTransit.queue) =>
             Single(toTransit.queue)' /\ AtTransit' \cap ToTransit' = {}
    BY <1>1, <2>1, <2>3, TailInos DEF ToTransit
  <2> QED
    BY <1>2, <1>3, <2>1, <2>3, <2>4, InosKept
<1>4. CASE TransitSend
  <2>1. /\ toTransit' = toTransit /\ trFile \in OutMessage
        /\ toOut'.queue = Append(toOut.queue, trFile)
    BY <1>1, <1>4, QueueUnchanged DEF TypeOK, TransitSend
  <2>2. AtTransit = {trFile.ino} /\ AtTransit' = {}
    BY <1>4 DEF TransitSend, AtTransit
  <2>3. /\ ToOut' = ToOut \cup AtTransit
        /\ Single(toOut.queue) /\ AtTransit \cap ToOut = {} => Single(toOut.queue)'
    BY <1>1, <2>1, <2>2, AppendInos DEF ToOut
  <2> QED
    BY <1>2, <1>4, <2>1, <2>2, <2>3, InosKept
<1>5. CASE TransitSendFails
  <2>1. toTransit' = toTransit /\ toOut'.queue = toOut.queue /\ AtTransit' = {}
    BY <1>1, <1>5, QueueUnchanged DEF TransitSendFails, AtTransit
  <2> QED
    BY <1>2, <1>5, <2>1, InosKept
<1>6. CASE TransitExit \/ TransitCrash
  <2>1. toTransit'.queue = << >> /\ toOut'.queue = toOut.queue /\ AtTransit' = {}
    BY <1>1, <1>6, QueueUnchanged DEF TransitExit, TransitCrash, TransitDies, AtTransit
  <2> QED
    BY <1>2, <1>6, <2>1, InosKept, EmptyInos DEF ToTransit
<1>7. CASE TransitStart \/ TransitAccept \/ TransitCheck
  <2>1. toTransit'.queue = toTransit.queue /\ toOut'.queue = toOut.queue
    BY <1>1, <1>7, QueueUnchanged DEF TransitStart, TransitAccept, TransitCheck
  <2>2. AtTransit' = AtTransit
    <3>1. CASE TransitStart \/ TransitAccept
      BY <3>1 DEF TransitStart, TransitAccept, AtTransit
    <3>2. CASE TransitCheck
      <4>1. trFile \in OutMessage /\ trPc = "check" /\ trPc' \in {"check", "send"}
        BY <3>2 DEF TypeOK, TransitCheck
      <4>2. trFile'.ino = trFile.ino
        BY <3>2, <4>1 DEF TransitCheck, OutMessage
      <4> QED
        BY <4>1, <4>2 DEF AtTransit
    <3> QED
      BY <1>7, <3>1, <3>2
  <2> QED
    BY <1>2, <2>1, <2>2, InosKept
<1> QED
  BY <1>3, <1>4, <1>5, <1>6, <1>7 DEF Transit

(* keysas-out takes a file out of its socket, and lets it go once it is     *)
(* done with it or when it fails.                                           *)
LEMMA OutMoves ==
  ASSUME TypeOK, Out \/ OutCrash
  PROVE  /\ AtTransit' = AtTransit /\ ToTransit' = ToTransit
         /\ toTransit' = toTransit
         /\ \/ /\ OutRecv /\ AtOut = {} /\ ToOut = ToOut' \cup AtOut'
               /\ Single(toOut.queue) =>
                    Single(toOut.queue)' /\ AtOut' \cap ToOut' = {}
            \/ /\ OutCrash /\ AtOut' = {} /\ ToOut' = {} /\ toOut'.queue = << >>
            \/ /\ ToOut' = ToOut /\ toOut'.queue = toOut.queue
               /\ \/ AtOut' = AtOut
                  \/ (OutReport \/ OutCopy \/ OutAbandon) /\ AtOut' = {}
<1>1. toOut \in Channel(OutMessage) /\ toOut.queue \in Seq(OutMessage)
  BY DEF TypeOK, Channel
<1>2. AtTransit' = AtTransit /\ ToTransit' = ToTransit /\ toTransit' = toTransit
  BY OutLeaves, InosKept DEF trVars
<1>3. CASE OutRecv
  <2>1. toOut.queue # << >> /\ toOut'.queue = Tail(toOut.queue)
    BY <1>1, <1>3, QueueUnchanged DEF OutRecv
  <2>2. AtOut = {} /\ AtOut' = {Head(toOut.queue).ino}
    BY <1>3 DEF OutRecv, AtOut, OutBusy
  <2> QED
    BY <1>1, <1>2, <1>3, <2>1, <2>2, TailInos DEF ToOut
<1>4. CASE OutCrash
  <2>1. toOut'.queue = << >> /\ AtOut' = {}
    BY <1>1, <1>4, QueueUnchanged DEF OutCrash, AtOut, OutBusy
  <2> QED
    BY <1>2, <1>4, <2>1, EmptyInos DEF ToOut
<1>5. CASE OutStart \/ OutConnect \/ OutClose
  <2>1. toOut'.queue = toOut.queue /\ AtOut' = AtOut
    BY <1>1, <1>5, QueueUnchanged DEF OutStart, OutConnect, OutClose, AtOut, OutBusy
  <2> QED
    BY <1>2, <2>1, InosKept
<1>6. CASE OutDigest
  <2>1. outFile \in OutMessage
    BY <1>6 DEF TypeOK, OutDigest
  <2>2. toOut' = toOut /\ outFile'.ino = outFile.ino
    BY <1>6, <2>1 DEF OutDigest, OutMessage
  <2>3. AtOut' = AtOut
    BY <1>6, <2>2 DEF OutDigest, AtOut, OutBusy
  <2> QED
    BY <1>2, <2>2, <2>3, InosKept
<1>7. CASE OutReport \/ OutCreate \/ OutCopy \/ OutAbandon
  <2>1. toOut' = toOut
    BY <1>7 DEF OutReport, OutCreate, OutCopy, OutAbandon
  <2>2. AtOut' = AtOut \/ ((OutReport \/ OutCopy \/ OutAbandon) /\ AtOut' = {})
    BY <1>7 DEF OutReport, OutCreate, OutCopy, OutAbandon, AtOut, OutBusy
  <2> QED
    BY <1>2, <2>1, <2>2, InosKept
<1> QED
  BY <1>3, <1>4, <1>5, <1>6, <1>7 DEF Out

------------------------------------------------------------------------------
(* A single passage is preserved by every step, if keysas-in neither dies   *)
(* nor fails to unlink.                                                     *)

NoInFault == Faults \subseteq {"transit", "out"}

LEMMA PassageInit == Init => Passage
<1> SUFFICES ASSUME Init PROVE Passage
  OBVIOUS
<1>1. /\ AtOut = {} /\ AtTransit = {} /\ ToOut = {} /\ ToTransit = {}
      /\ Single(toOut.queue) /\ Single(toTransit.queue)
  BY EmptyInos DEF Init, Unbound, AtOut, AtTransit, ToOut, ToTransit, OutBusy
<1>2. Fresh /\ Judged
  BY <1>1 DEF Init, Fresh, Judged, Passing, InBusy
<1> QED
  BY <1>1, <1>2 DEF Passage, Apart

(* Once the inodes inside stay inside or are reported on, with sas_in as it *)
(* is, they remain fresh.                                                   *)
LEMMA FreshKept ==
  ASSUME Fresh, UNCHANGED <<sasIn, inVars, deposits>>,
         Passing' \cup judged' \subseteq Passing \cup judged
  PROVE  Fresh'
BY DEF Fresh, InBusy, inVars

LEMMA PassageEnvironment ==
  ASSUME IInv, Passage, Environment \/ UNCHANGED vars
  PROVE  Passage'
<1>0. TypeOK /\ Known
  BY DEF IInv
<1>1. /\ AtOut' = AtOut /\ ToOut' = ToOut /\ AtTransit' = AtTransit
      /\ ToTransit' = ToTransit
      /\ UNCHANGED <<toOut, toTransit, judged, newest, outPc, outFile, inVars>>
  BY EnvironmentLeaves, InosKept DEF trVars
<1>2. Apart'
  BY <1>1 DEF Passage, Apart
<1>3. Passing' = Passing
  BY <1>1 DEF Passing
<1>4. Judged'
  <2>1. \A p \in Paths : sasOut'[p] \in {sasOut[p], NoData}
    BY <1>0 DEF TypeOK, Environment, Deposit, WriteInPlace, Collect, CollectReport,
                vars, outVars
  <2> QED
    BY <1>1, <1>3, <2>1 DEF Passage, Judged
<1>5. ASSUME NEW p \in Paths, NEW c \in Contents, Deposit(p, c)
      PROVE  Fresh'
  <2>1. /\ deposits \in Nat /\ deposits' = deposits + 1
        /\ \A q \in Paths : sasIn'[q] = IF q = p THEN deposits + 1 ELSE sasIn[q]
    BY <1>0, <1>5, PipelineAssumption DEF TypeOK, Deposit
  <2>2. \A q \in Paths : sasIn[q] \in 0 .. deposits
    BY <1>0 DEF Known
  <2>3. /\ Passing \cup judged \subseteq 1 .. deposits
        /\ \A q, r \in Paths : sasIn[q] = sasIn[r] /\ sasIn[q] # 0 => q = r
        /\ InBusy => /\ inFile.ino \in 1 .. deposits
                     /\ \A q \in Paths : sasIn[q] = inFile.ino => q = inFile.path
        /\ inPc \in {"opened", "marked"} => inFile.ino \notin Passing \cup judged
        /\ \A q \in Paths :
             sasIn[q] \in Passing \cup judged =>
               inPc = "sent" /\ q = inFile.path /\ sasIn[q] = inFile.ino
    BY DEF Passage, Fresh
  <2>4. UNCHANGED <<inPc, inFile>> /\ InBusy' = InBusy
    BY <1>1 DEF inVars, InBusy
  <2>5. (Passing \cup judged)' = Passing \cup judged
    BY <1>1, <1>3
  <2>6. (Passing \cup judged)' \subseteq 1 .. deposits'
    BY <2>1, <2>3, <2>5
  <2>7. \A q, r \in Paths : sasIn'[q] = sasIn'[r] /\ sasIn'[q] # 0 => q = r
    BY <2>1, <2>2, <2>3
  <2>8. InBusy' => /\ inFile'.ino \in 1 .. deposits'
                   /\ \A q \in Paths : sasIn'[q] = inFile'.ino => q = inFile'.path
    BY <2>1, <2>3, <2>4
  <2>9. \A q \in Paths :
          sasIn'[q] \in (Passing \cup judged)' =>
            inPc' = "sent" /\ q = inFile'.path /\ sasIn'[q] = inFile'.ino
    BY <2>1, <2>3, <2>4, <2>5
  <2> QED
    BY <2>3, <2>4, <2>5, <2>6, <2>7, <2>8, <2>9 DEF Fresh
<1>6. CASE \E p \in Paths, c \in Contents : Deposit(p, c)
  BY <1>2, <1>4, <1>5, <1>6 DEF Passage
<1>7. CASE \/ \E i \in Inodes, c \in Contents : WriteInPlace(i, c)
           \/ \E p \in Paths : Collect(p) \/ CollectReport(p)
           \/ UNCHANGED vars
  <2>1. UNCHANGED <<sasIn, deposits>>
    BY <1>7 DEF WriteInPlace, Collect, CollectReport, vars, envVars
  <2>2. Fresh'
    BY <1>1, <1>3, <2>1, FreshKept DEF Passage
  <2> QED
    BY <1>2, <1>4, <2>2 DEF Passage
<1> QED
  BY <1>6, <1>7 DEF Environment

LEMMA PassageTransit ==
  ASSUME IInv, Passage, Transit \/ TransitCrash
  PROVE  Passage'
<1>0. TypeOK
  BY DEF IInv
<1>1. UNCHANGED <<sasIn, inVars, deposits, judged, newest, sasOut, outPc, outFile>>
  BY TransitLeaves DEF outVars
<1>2. Apart' /\ Passing' \subseteq Passing
  BY <1>0, TransitMoves, EmptyInos DEF Passage, Apart, Passing
<1>3. Fresh'
  BY <1>1, <1>2, FreshKept DEF Passage
<1>4. Judged'
  BY <1>1, <1>2 DEF Passage, Judged
<1> QED
  BY <1>2, <1>3, <1>4 DEF Passage

LEMMA PassageOut ==
  ASSUME IInv, Passage, NoInFault, Out \/ OutCrash
  PROVE  Passage'
<1>0. TypeOK
  BY DEF IInv
<1>1. UNCHANGED <<sasIn, inVars, deposits>>
  BY OutLeaves
<1>2. Apart' /\ Passing' \subseteq Passing
  BY <1>0, OutMoves, EmptyInos DEF Passage, Apart, Passing
<1>3. CASE OutReport
  <2>1. /\ outFile.ino \in AtOut /\ AtOut \subseteq Passing
        /\ judged' = judged \cup {outFile.ino}
        /\ UNCHANGED <<newest, sasOut, toOut>>
    BY <1>3 DEF OutReport, AtOut, OutBusy, Passing
  <2>2. Fresh'
    BY <1>1, <1>2, <2>1, FreshKept DEF Passage
  <2>3. Passing \cap judged = {}
    BY <1>3 DEF Passage, Judged, OutReport
  <2>4. AtOut = {outFile.ino}
    BY <1>3 DEF OutReport, AtOut, OutBusy
  <2>5. AtOut' = {} \/ (outPc' = "copy" /\ outFile' = outFile /\ AtOut' = {outFile.ino})
    BY <1>3 DEF OutReport, AtOut, OutBusy
  <2>6. outFile.ino \notin ToOut' \cup AtTransit' \cup ToTransit'
    <3>1. ToOut' = ToOut /\ AtTransit' = AtTransit /\ ToTransit' = ToTransit
      BY <1>3, <2>1, OutLeaves, InosKept DEF trVars
    <3> QED
      BY <2>4, <3>1 DEF Passage, Apart
  <2>7. outPc' \in {"copy", "recv"}
    BY <1>3 DEF OutReport
  <2>8. \A i \in Passing' \cap judged' :
          outPc' \in {"copy", "copying"} /\ i = outFile'.ino
    <3> SUFFICES ASSUME NEW i \in Passing', i \in judged'
                 PROVE  outPc' = "copy" /\ i = outFile'.ino
      OBVIOUS
    <3>1. i = outFile.ino
      BY <1>2, <2>1, <2>3
    <3>2. i \in AtOut'
      BY <2>6, <3>1 DEF Passing
    <3> QED
      BY <2>5, <3>1, <3>2
  <2>9. outPc' \in {"copy", "copying"} => outFile'.ino \in judged'
    <3>1. outPc' \in {"copy", "copying"} => UNCHANGED outFile
      BY <1>3 DEF OutReport
    <3> QED
      BY <2>1, <3>1
  <2>10. Judged'
    BY <2>1, <2>8, <2>9 DEF Passage, Judged
  <2> QED
    BY <1>2, <2>2, <2>10 DEF Passage
<1>4. ASSUME ~OutReport PROVE UNCHANGED judged
  BY <1>4 DEF Out, OutCrash, OutStart, OutConnect, OutRecv, OutClose,
              OutDigest, OutCreate, OutCopy, OutAbandon
<1>5. ASSUME ~OutReport PROVE Fresh'
  BY <1>1, <1>2, <1>4, <1>5, FreshKept DEF Passage
<1>6. CASE OutCreate
  <2>1. outFile \in OutMessage /\ outFile.path \in Paths /\ outFile.ino \in judged
    BY <1>0, <1>6 DEF TypeOK, OutCreate, OutMessage, Passage, Judged
  <2>2. ~OutReport
    BY <1>6 DEF OutCreate, OutReport
  <2>3. \A p \in Paths : /\ newest'[p] \in judged' \cup {0}
                         /\ sasOut'[p] # NoData => sasOut'[p].ino = newest'[p]
    BY <1>0, <1>4, <1>6, <2>1, <2>2 DEF TypeOK, OutCreate, Passage, Judged
  <2>4. Judged'
    BY <1>2, <1>4, <1>6, <2>1, <2>2, <2>3 DEF OutCreate, Passage, Judged
  <2> QED
    BY <1>2, <1>5, <2>2, <2>4 DEF Passage
<1>7. CASE OutCopy
  <2>1. ~OutReport /\ outFile.path \in Paths
    BY <1>0, <1>7 DEF TypeOK, OutMessage, OutCopy, OutReport
  <2>2. \A p \in Paths : /\ sasOut'[p] # NoData => sasOut[p] # NoData
                         /\ sasOut[p] # NoData => sasOut'[p].ino = sasOut[p].ino
    BY <1>0, <1>7, <2>1 DEF TypeOK, DataFile, OutCopy
  <2>3. /\ outPc' = "recv" /\ newest' = newest /\ judged' = judged
        /\ AtOut = {outFile.ino} /\ AtOut' = {} /\ toOut' = toOut
    BY <1>7 DEF OutCopy, AtOut, OutBusy
  <2>4. Passing' \cap judged' = {}
    <3>1. ToOut' = ToOut /\ AtTransit' = AtTransit /\ ToTransit' = ToTransit
      BY <2>3, OutLeaves, InosKept DEF trVars
    <3> QED
      BY <2>3, <3>1 DEF Passage, Apart, Judged, Passing
  <2>5. Judged'
    BY <2>2, <2>3, <2>4 DEF Passage, Judged
  <2> QED
    BY <1>2, <1>5, <2>1, <2>5 DEF Passage
<1>8. CASE OutStart \/ OutConnect \/ OutRecv \/ OutClose \/ OutDigest
  <2>1. /\ ~OutReport /\ UNCHANGED <<newest, sasOut>>
        /\ outPc \notin {"copy", "copying"} /\ outPc' \notin {"copy", "copying"}
    BY <1>8 DEF OutStart, OutConnect, OutRecv, OutClose, OutDigest, OutReport
  <2>2. Judged'
    BY <1>2, <1>4, <2>1 DEF Passage, Judged
  <2> QED
    BY <1>2, <1>5, <2>1, <2>2 DEF Passage
<1>9. CASE OutCrash
  <2>1. /\ UNCHANGED <<newest, sasOut, judged>> /\ outPc' = "down"
        /\ AtOut' = {} /\ ToOut' = {}
        /\ AtTransit' = AtTransit /\ ToTransit' = ToTransit
    <3>1. toOut \in Channel(OutMessage)
      BY <1>0 DEF TypeOK
    <3>2. toOut'.queue = << >>
      BY <1>9, <3>1, QueueUnchanged DEF OutCrash
    <3>3. AtTransit' = AtTransit /\ ToTransit' = ToTransit
      BY OutLeaves, InosKept DEF trVars
    <3> QED
      BY <1>9, <3>2, <3>3, EmptyInos DEF OutCrash, AtOut, ToOut, OutBusy
  <2>2. Passing' \cap judged' = {}
    <3> SUFFICES ASSUME NEW i \in Passing', i \in judged' PROVE FALSE
      OBVIOUS
    <3>1. i \in AtTransit \cup ToTransit /\ i \in Passing /\ i \in judged
      BY <2>1 DEF Passing
    <3>2. i \in AtOut
      BY <3>1 DEF Passage, Judged, AtOut, OutBusy
    <3> QED
      BY <3>1, <3>2 DEF Passage, Apart
  <2>3. Judged'
    BY <2>1, <2>2 DEF Passage, Judged
  <2>4. Fresh'
    BY <1>1, <1>2, <2>1, FreshKept DEF Passage
  <2> QED
    BY <1>2, <2>3, <2>4 DEF Passage
<1>10. CASE OutAbandon
  BY <1>10 DEF OutAbandon, Fails, MayFail, NoInFault
<1> QED
  BY <1>3, <1>6, <1>7, <1>8, <1>9, <1>10 DEF Out

LEMMA PassageIn ==
  ASSUME IInv, Passage, NoInFault, In \/ InCrash
  PROVE  Passage'
<1>0. TypeOK /\ Known /\ \A i \in Nat : 0 \notin 1 .. i
  BY DEF IInv
<1>1. UNCHANGED <<deposits, judged, newest, sasOut, outPc, outFile>>
  BY InLeaves DEF outVars
<1>2. ~InCrash /\ ~InUnlinkFails
  BY DEF InCrash, InUnlinkFails, Fails, MayFail, NoInFault
<1>3. CASE InSend
  <2>1. /\ inPc = "marked" /\ inPc' = "sent" /\ UNCHANGED <<sasIn, inFile>>
        /\ InBusy /\ InBusy'
    BY <1>3 DEF InSend, InBusy
  <2>2. inFile.ino \notin Passing \cup judged /\ inFile.ino \in 1 .. deposits
    BY <2>1 DEF Passage, Fresh
  <2>3. /\ AtOut' = AtOut /\ ToOut' = ToOut /\ AtTransit' = AtTransit
        /\ ToTransit' = ToTransit \cup {inFile.ino}
        /\ Single(toTransit.queue) /\ inFile.ino \notin ToTransit
             => Single(toTransit.queue)'
    BY <1>0, <1>3, InMoves
  <2>4. Passing' = Passing \cup {inFile.ino}
    BY <2>3 DEF Passing
  <2>5. Apart'
    <3>1. toOut' = toOut
      BY <1>3 DEF InSend
    <3> QED
      BY <2>2, <2>3, <3>1 DEF Passage, Apart, Passing
  <2>6. Fresh'
    <3>1. (Passing \cup judged)' = Passing \cup judged \cup {inFile.ino}
      BY <1>1, <2>4
    <3> QED
      BY <1>1, <2>1, <2>2, <3>1 DEF Passage, Fresh
  <2>7. Judged'
    BY <1>1, <2>2, <2>4 DEF Passage, Judged
  <2> QED
    BY <2>5, <2>6, <2>7 DEF Passage
<1>4. ASSUME ~InSend
      PROVE  Apart' /\ Passing' = Passing /\ Judged'
  <2>1. /\ AtOut' = AtOut /\ ToOut' = ToOut /\ AtTransit' = AtTransit
        /\ ToTransit' = ToTransit
        /\ toTransit'.queue = toTransit.queue /\ toOut' = toOut
    BY <1>0, <1>4, InMoves, InLeaves
  <2>2. Passing' = Passing
    BY <2>1 DEF Passing
  <2> QED
    BY <1>1, <2>1, <2>2 DEF Passage, Apart, Judged
<1>5. CASE InStart \/ InAccept \/ InList \/ InSendFails \/ \E p \in Paths : InSkip(p)
  <2>1. /\ ~InSend /\ UNCHANGED sasIn /\ inPc # "sent"
        /\ ~InBusy' /\ inPc' # "sent"
    BY <1>5 DEF InStart, InAccept, InList, InSendFails, InSkip, InSend, InBusy
  <2>2. Fresh'
    BY <1>1, <1>4, <2>1 DEF Passage, Fresh, InBusy
  <2> QED
    BY <1>4, <2>1, <2>2 DEF Passage
<1>6. ASSUME NEW p \in Paths, InOpen(p)
      PROVE  Passage'
  <2>1. /\ ~InSend /\ UNCHANGED sasIn /\ inPc = "batch" /\ inPc' = "opened"
        /\ inFile'.ino = sasIn[p] /\ inFile'.path = p /\ sasIn[p] # 0
    BY <1>6 DEF InOpen, InSend
  <2>2. sasIn[p] \in 1 .. deposits /\ deposits \in Nat
    BY <1>0, <2>1, PipelineAssumption DEF Known, TypeOK
  <2>3. \A q \in Paths : sasIn[q] \notin Passing \cup judged
    BY <2>1 DEF Passage, Fresh
  <2>4. \A q \in Paths : sasIn[q] = sasIn[p] => q = p
    BY <2>1 DEF Passage, Fresh
  <2>5. Fresh'
    BY <1>1, <1>4, <2>1, <2>2, <2>3, <2>4 DEF Passage, Fresh, InBusy
  <2> QED
    BY <1>4, <2>1, <2>5 DEF Passage
<1>7. CASE InMark \/ InUnlink
  <2>1. /\ ~InSend /\ InBusy /\ inFile \in InMessage
        /\ \A p \in Paths : sasIn'[p] \in {0, sasIn[p]}
    BY <1>0, <1>7 DEF TypeOK, InMark, InUnlink, InSend, InBusy
  <2>2. 0 \notin Passing \cup judged /\ Passing \cup judged \subseteq 1 .. deposits
    BY DEF Passage, Fresh
  <2>3. (Passing \cup judged)' = Passing \cup judged
    BY <1>1, <1>4, <2>1
  <2>4. \A p, q \in Paths : sasIn'[p] = sasIn'[q] /\ sasIn'[p] # 0 => p = q
    BY <2>1 DEF Passage, Fresh
  <2>5. inFile.ino \in 1 .. deposits /\ inFile.ino # 0
    BY <2>1 DEF Passage, Fresh
  <2>6. CASE InMark
    <3>1. /\ inPc = "opened" /\ inPc' = "marked" /\ InBusy'
          /\ inFile'.ino = inFile.ino /\ inFile'.path = inFile.path
      BY <2>1, <2>6 DEF InMark, InBusy, InMessage
    <3>2. \A p \in Paths : sasIn'[p] = inFile.ino => p = inFile.path
      BY <2>1, <2>5 DEF Passage, Fresh
    <3>3. inFile.ino \notin Passing \cup judged
      BY <3>1 DEF Passage, Fresh
    <3>4. \A p \in Paths : sasIn'[p] \notin Passing \cup judged
      BY <2>1, <2>2, <3>1 DEF Passage, Fresh
    <3>5. Fresh'
      BY <1>1, <2>2, <2>3, <2>4, <2>5, <3>1, <3>2, <3>3, <3>4 DEF Fresh
    <3> QED
      BY <1>4, <2>1, <3>5 DEF Passage
  <2>7. CASE InUnlink
    <3>1. /\ inPc = "sent" /\ inPc' = "batch" /\ ~InBusy'
          /\ sasIn'[inFile.path] = 0
      BY <1>0, <2>1, <2>7 DEF TypeOK, InUnlink, InBusy, InMessage
    <3>2. \A p \in Paths : sasIn'[p] \notin Passing \cup judged
      BY <2>1, <2>2, <3>1 DEF Passage, Fresh
    <3>3. Fresh'
      BY <1>1, <2>2, <2>3, <2>4, <3>1, <3>2 DEF Fresh
    <3> QED
      BY <1>4, <2>1, <3>3 DEF Passage
  <2> QED
    BY <1>7, <2>6, <2>7
<1> QED
  BY <1>2, <1>3, <1>5, <1>6, <1>7 DEF In

LEMMA PassageStep == IInv /\ Passage /\ NoInFault /\ [Next]_vars => Passage'
BY PassageEnvironment, PassageIn, PassageTransit, PassageOut DEF Next

------------------------------------------------------------------------------
(* Inside lists the inodes of Passing, those of keysas-out first.           *)

Elems(s) == {s[k] : k \in 1 .. Len(s)}
Distinct(s) == \A j, k \in 1 .. Len(s) : s[j] = s[k] => j = k
InoSeq(q) == [k \in 1 .. Len(q) |-> q[k].ino]

LEMMA Concatenation ==
  ASSUME NEW S, NEW s \in Seq(S), NEW t \in Seq(S)
  PROVE  /\ s \o t \in Seq(S)
         /\ Elems(s \o t) = Elems(s) \cup Elems(t)
         /\ Distinct(s) /\ Distinct(t) /\ Elems(s) \cap Elems(t) = {}
              => Distinct(s \o t)
         /\ Len(s) > 0 => Len(s \o t) > 0 /\ (s \o t)[1] = s[1]
<1> DEFINE r == s \o t
           m == Len(s)
           n == Len(t)
<1>1. /\ r \in Seq(S) /\ m \in Nat /\ n \in Nat /\ Len(r) = m + n
      /\ \A k \in 1 .. m + n : r[k] = IF k <= m THEN s[k] ELSE t[k - m]
  OBVIOUS
<1>2. /\ \A k \in 1 .. m : r[k] = s[k] /\ k \in 1 .. m + n
      /\ \A k \in 1 .. n : m + k \in 1 .. m + n /\ r[m + k] = t[k]
  BY <1>1
<1>3. \A k \in 1 .. m + n : k \in 1 .. m \/ k - m \in 1 .. n
  BY <1>1
<1> HIDE DEF r, m, n
<1>4. Elems(r) = Elems(s) \cup Elems(t)
  <2>1. Elems(r) = {r[k] : k \in 1 .. m + n}
    BY <1>1 DEF Elems
  <2>2. Elems(s) = {s[k] : k \in 1 .. m} /\ Elems(t) = {t[k] : k \in 1 .. n}
    BY DEF Elems, m, n
  <2>3. Elems(s) \cup Elems(t) \subseteq Elems(r)
    BY <1>2, <2>1, <2>2
  <2>4. ASSUME NEW k \in 1 .. m + n PROVE r[k] \in Elems(s) \cup Elems(t)
    BY <1>1, <1>3, <2>2
  <2> QED
    BY <2>1, <2>3, <2>4
<1>5. ASSUME Distinct(s), Distinct(t), Elems(s) \cap Elems(t) = {}
      PROVE  Distinct(r)
  <2>1. /\ \A j, k \in 1 .. m : s[j] = s[k] => j = k
        /\ \A j, k \in 1 .. n : t[j] = t[k] => j = k
        /\ \A j \in 1 .. m, k \in 1 .. n : s[j] # t[k]
    <3>1. /\ \A j \in 1 .. m : s[j] \in Elems(s)
          /\ \A k \in 1 .. n : t[k] \in Elems(t)
      BY DEF Elems, m, n
    <3>2. \A j \in 1 .. m, k \in 1 .. n : s[j] # t[k]
      BY <1>5, <3>1
    <3> QED
      BY <1>5, <3>2 DEF Distinct, m, n
  <2>2. \A j, k \in 1 .. m + n : r[j] = r[k] => j = k
    BY <1>1, <1>3, <2>1
  <2> QED
    BY <1>1, <2>2 DEF Distinct
<1>6. m > 0 => Len(r) > 0 /\ r[1] = s[1]
  BY <1>1
<1> QED
  BY <1>1, <1>4, <1>5, <1>6 DEF r, m

LEMMA InosOfQueue ==
  ASSUME NEW M, NEW q \in Seq(M), \A m \in M : m.ino \in Inodes
  PROVE  /\ InoSeq(q) \in Seq(Inodes) /\ Len(InoSeq(q)) = Len(q)
         /\ Elems(InoSeq(q)) = Inos(q)
         /\ Single(q) => Distinct(InoSeq(q))
<1> DEFINE s == InoSeq(q)
<1>1. /\ Len(q) \in Nat /\ \A k \in 1 .. Len(q) : q[k] \in M
      /\ s = [k \in 1 .. Len(q) |-> q[k].ino]
  BY DEF InoSeq
<1>2. s \in Seq(Inodes) /\ Len(s) = Len(q) /\ \A k \in 1 .. Len(q) : s[k] = q[k].ino
  BY <1>1
<1> HIDE DEF s
<1>3. Elems(s) = Inos(q) /\ (Single(q) => Distinct(s))
  BY <1>2 DEF Elems, Inos, Single, Distinct
<1> QED
  BY <1>2, <1>3 DEF s

(* A file at hand, as a queue of one or of none. *)
LEMMA InosHeld ==
  ASSUME NEW f, f # NoFile => f.ino \in Inodes
  PROVE  /\ InoSeq(Held(f)) \in Seq(Inodes) /\ Distinct(InoSeq(Held(f)))
         /\ Elems(InoSeq(Held(f))) = IF f = NoFile THEN {} ELSE {f.ino}
         /\ f # NoFile => Len(InoSeq(Held(f))) = 1 /\ InoSeq(Held(f))[1] = f.ino
<1>1. CASE f = NoFile
  BY <1>1, EmptyInos DEF Held, InoSeq, Elems, Distinct
<1>2. CASE f # NoFile
  <2> DEFINE s == InoSeq(Held(f))
  <2>1. s = [k \in 1 .. 1 |-> f.ino]
    BY <1>2 DEF Held, InoSeq
  <2>2. s \in Seq(Inodes) /\ Len(s) = 1 /\ s[1] = f.ino
    BY <1>2, <2>1
  <2> HIDE DEF s
  <2>3. Elems(s) = {f.ino} /\ Distinct(s)
    BY <2>2 DEF Elems, Distinct
  <2> QED
    BY <1>2, <2>2, <2>3 DEF s
<1> QED
  BY <1>1, <1>2

LEMMA InsideIs ==
  ASSUME TypeOK
  PROVE  /\ Inside \in Seq(Inodes)
         /\ Elems(Inside) = Passing
         /\ Apart => Distinct(Inside)
         /\ outPc \in OutBusy =>
              outFile # NoFile /\ Len(Inside) > 0 /\ Inside[1] = outFile.ino
<1> DEFINE a == InoSeq(Held(outFile))
           b == InoSeq(toOut.queue)
           c == InoSeq(Held(trFile))
           d == InoSeq(toTransit.queue)
<1>1. Inside = ((a \o b) \o c) \o d
  BY DEF Inside, InoSeq
<1>2. /\ outPc \in OutBusy => outFile \in OutMessage /\ outFile # NoFile
      /\ outPc \notin OutBusy => outFile = NoFile
      /\ trPc \in {"check", "send"} => trFile \in OutMessage /\ trFile # NoFile
      /\ trPc \notin {"check", "send"} => trFile = NoFile
  BY NothingAssumption DEF TypeOK, OutBusy
<1>3. /\ \A m \in OutMessage : m.ino \in Inodes
      /\ \A m \in InMessage : m.ino \in Inodes
  BY DEF OutMessage, InMessage
<1>4. /\ a \in Seq(Inodes) /\ Elems(a) = AtOut /\ Distinct(a)
      /\ outPc \in OutBusy => Len(a) > 0 /\ a[1] = outFile.ino
  BY <1>2, <1>3, InosHeld DEF AtOut
<1>5. c \in Seq(Inodes) /\ Elems(c) = AtTransit /\ Distinct(c)
  BY <1>2, <1>3, InosHeld DEF AtTransit
<1>6. b \in Seq(Inodes) /\ Elems(b) = ToOut /\ (Single(toOut.queue) => Distinct(b))
  BY <1>3, InosOfQueue DEF TypeOK, Channel, ToOut
<1>7. /\ d \in Seq(Inodes) /\ Elems(d) = ToTransit
      /\ Single(toTransit.queue) => Distinct(d)
  BY <1>3, InosOfQueue DEF TypeOK, Channel, ToTransit
<1> HIDE DEF a, b, c, d
<1>8. /\ a \o b \in Seq(Inodes) /\ Elems(a \o b) = AtOut \cup ToOut
      /\ Apart => Distinct(a \o b)
      /\ outPc \in OutBusy => Len(a \o b) > 0 /\ (a \o b)[1] = outFile.ino
  BY <1>4, <1>6, Concatenation DEF Apart
<1>9. /\ (a \o b) \o c \in Seq(Inodes)
      /\ Elems((a \o b) \o c) = AtOut \cup ToOut \cup AtTransit
      /\ Apart => Distinct((a \o b) \o c)
      /\ outPc \in OutBusy =>
           Len((a \o b) \o c) > 0 /\ ((a \o b) \o c)[1] = outFile.ino
  <2> DEFINE u == a \o b
  <2>1. u \in Seq(Inodes) /\ (Apart => Distinct(u) /\ Elems(u) \cap Elems(c) = {})
    BY <1>5, <1>8 DEF Apart
  <2>2. /\ u \o c \in Seq(Inodes) /\ Elems(u \o c) = Elems(u) \cup Elems(c)
        /\ Apart => Distinct(u \o c)
        /\ Len(u) > 0 => Len(u \o c) > 0 /\ (u \o c)[1] = u[1]
    <3> HIDE DEF u
    <3> QED
      BY <1>5, <2>1, Concatenation
  <2> QED
    BY <1>5, <1>8, <2>2
<1>10. /\ Inside \in Seq(Inodes) /\ Elems(Inside) = Passing
       /\ Apart => Distinct(Inside)
       /\ outPc \in OutBusy => Len(Inside) > 0 /\ Inside[1] = outFile.ino
  <2> DEFINE u == (a \o b) \o c
  <2>1. /\ u \in Seq(Inodes)
        /\ Apart => /\ Distinct(u) /\ Distinct(d)
                    /\ Elems(u) \cap Elems(d) = {}
    BY <1>7, <1>9 DEF Apart
  <2>2. /\ u \o d \in Seq(Inodes) /\ Elems(u \o d) = Elems(u) \cup Elems(d)
        /\ Apart => Distinct(u \o d)
        /\ Len(u) > 0 => Len(u \o d) > 0 /\ (u \o d)[1] = u[1]
    <3> HIDE DEF u
    <3> QED
      BY <1>7, <2>1, Concatenation
  <2> QED
    BY <1>1, <1>7, <1>9, <2>2 DEF Passing
<1> QED
  BY <1>2, <1>10

------------------------------------------------------------------------------
LEMMA PassageIsOnce ==
  ASSUME IInv, Passage
  PROVE  AtMostOnce
<1>1. /\ Inside \in Seq(Inodes) /\ Elems(Inside) = Passing /\ Distinct(Inside)
      /\ outPc \in OutBusy =>
           outFile # NoFile /\ Len(Inside) > 0 /\ Inside[1] = outFile.ino
  BY InsideIs DEF IInv, Passage
<1>2. ASSUME NEW k \in 1 .. Len(Inside), Inside[k] \in judged
      PROVE  k = 1 /\ outFile # NoFile /\ outPc \in {"copy", "copying"}
  <2>1. Inside[k] \in Passing
    BY <1>1 DEF Elems
  <2>2. outPc \in {"copy", "copying"} /\ Inside[k] = outFile.ino
    BY <1>2, <2>1 DEF Passage, Judged
  <2>3. outFile # NoFile /\ Inside[1] = Inside[k] /\ 1 \in 1 .. Len(Inside)
    BY <1>1, <2>2 DEF OutBusy
  <2> QED
    BY <1>1, <2>2, <2>3 DEF Distinct
<1>3. \A j, k \in 1 .. Len(Inside) : j # k => Inside[j] # Inside[k]
  BY <1>1 DEF Distinct
<1> QED
  BY <1>2, <1>3 DEF AtMostOnce

(* As long as keysas-in neither dies nor fails to unlink, no file is twice  *)
(* in the pipeline, and none comes back to it once keysas-out has reported  *)
(* on it, whatever else crashes.                                            *)
THEOREM EachFileGoesThroughOnce ==
  ASSUME NoInFault
  PROVE  Spec => []AtMostOnce
<1>1. Init => IInv /\ Passage
  BY InitIInv, PassageInit
<1>2. IInv /\ Passage /\ [Next]_vars => (IInv /\ Passage)'
  BY IInvStep, PassageStep
<1>3. IInv /\ Passage => AtMostOnce
  BY PassageIsOnce
<1> QED
  BY <1>1, <1>2, <1>3, PTL DEF Spec

------------------------------------------------------------------------------
(* The report of a file: what stands in sas_out at its path is older.       *)

LEMMA ReportStep ==
  ASSUME IInv, Order, Passage, [Next]_vars,
         NEW p \in Paths,
         krp'[p] # krp[p], krp'[p] \in Report, sasOut[p] # NoData
  PROVE  sasOut[p].ino < krp'[p].ino
<1>0. TypeOK
  BY DEF IInv
<1>1. CASE OutReport
  <2> DEFINE i == outFile.ino
  <2>1. p = outFile.path /\ krp'[p] = ReportOf(outFile) /\ outFile \in OutMessage
    BY <1>0, <1>1 DEF TypeOK, OutReport
  <2>2. krp'[p].ino = i /\ i \in Nat
    BY <2>1 DEF ReportOf, OutMessage, Inodes
  <2>3. sasOut[p].ino = newest[p] /\ newest[p] \in judged \cup {0}
    BY DEF Passage, Judged
  <2>4. newest[p] <= i
    <3>1. Older(Stage0, Stage1)
      BY StagesAre DEF Order, InOrder
    <3>2. <<p, newest[p]>> \in Stage0 /\ <<p, i>> \in Stage1
      BY <1>1, <2>1 DEF OutReport, Stage0, Stage1, Label
    <3> QED
      BY <3>1, <3>2 DEF Older
  <2>5. newest[p] # i
    <3>1. i \in Passing
      BY <1>1 DEF OutReport, Passing, AtOut, OutBusy
    <3>2. i \notin judged
      BY <1>1, <3>1 DEF Passage, Judged, OutReport
    <3>3. i # 0
      BY <3>1, <1>0, PipelineAssumption DEF Passage, Fresh, TypeOK
    <3> QED
      BY <2>3, <3>2, <3>3
  <2>6. newest[p] \in Nat
    BY <1>0 DEF TypeOK, Inodes
  <2> QED
    BY <2>2, <2>3, <2>4, <2>5, <2>6
<1>2. CASE OutAbandon \/ OutCrash
  <2>1. krp' = krp \/ krp' = [krp EXCEPT ![outFile.path] = Partial]
    BY <1>2 DEF OutAbandon, OutCrash, ReportLeft
  <2>2. krp'[p] = Partial
    BY <1>0, <2>1 DEF TypeOK
  <2> QED
    BY <2>2, NothingAssumption
<1>3. ASSUME NEW q \in Paths, CollectReport(q)
      PROVE  FALSE
  <2>1. krp'[p] = NoData
    BY <1>0, <1>3 DEF TypeOK, CollectReport
  <2> QED
    BY <2>1, NothingAssumption
<1>4. CASE \/ \E q \in Paths, c \in Contents : Deposit(q, c)
           \/ \E i \in Inodes, c \in Contents : WriteInPlace(i, c)
           \/ \E q \in Paths : Collect(q)
           \/ UNCHANGED vars
  BY <1>4 DEF Deposit, WriteInPlace, Collect, vars, outVars
<1>5. CASE In \/ InCrash
  BY <1>5, InLeaves DEF outVars
<1>6. CASE Transit \/ TransitCrash
  BY <1>6, TransitLeaves DEF outVars
<1>7. CASE OutStart \/ OutConnect \/ OutRecv \/ OutClose \/ OutDigest
           \/ OutCreate \/ OutCopy
  BY <1>7 DEF OutStart, OutConnect, OutRecv, OutClose, OutDigest, OutCreate,
              OutCopy
<1> QED
  BY <1>1, <1>2, <1>3, <1>4, <1>5, <1>6, <1>7 DEF Next, Environment, Out

(* On the same condition, a report is written before the file it is about,  *)
(* if at all: the file that stands at a name when a report is written there *)
(* comes from an earlier deposit.                                           *)
THEOREM ReportComesFirst ==
  ASSUME NoInFault
  PROVE  Spec => ReportPrecedesFile
<1>1. Init => IInv /\ Order /\ Passage
  BY InitIInv, OrderInit, PassageInit
<1>2. IInv /\ Order /\ Passage /\ [Next]_vars => (IInv /\ Order /\ Passage)'
  <2>1. IInv /\ Order /\ [Next]_vars => Order'
    BY OrderEnvironment, OrderIn, OrderTransit, OrderOut DEF Next
  <2> QED
    BY <2>1, IInvStep, PassageStep
<1> DEFINE ReportsAhead ==
      \A p \in Paths :
        krp'[p] # krp[p] /\ krp'[p] \in Report /\ sasOut[p] # NoData
          => sasOut[p].ino < krp'[p].ino
<1>3. IInv /\ Order /\ Passage /\ [Next]_vars => [ReportsAhead]_vars
  BY ReportStep
<1> HIDE DEF ReportsAhead
<1>4. Spec => [][ReportsAhead]_vars
  BY <1>1, <1>2, <1>3, PTL DEF Spec
<1> QED
  BY <1>4 DEF ReportPrecedesFile, ReportsAhead

------------------------------------------------------------------------------
(* Nothing is lost, if the daemons that receive live and a file of sas_in   *)
(* is not replaced before it is taken.                                      *)

NoReceiverFault == Faults \subseteq {"in"}
NoReplacement == Replace = FALSE

LEMMA LinkedInit == Init => Linked /\ Kept
BY DEF Init, Unbound, Linked, Kept, InBusy

LEMMA LinkedStep ==
  ASSUME IInv, Linked, NoReceiverFault, [Next]_vars
  PROVE  Linked'
<1>0. /\ TypeOK /\ toTransit \in Channel(InMessage) /\ toOut \in Channel(OutMessage)
      /\ toTransit.queue \in Seq(InMessage)
  BY DEF IInv, TypeOK, Channel
<1>1. ~TransitCrash /\ ~OutCrash /\ ~OutAbandon /\ ~InUnlinkFails
  BY DEF TransitCrash, OutCrash, OutAbandon, InUnlinkFails, Fails, MayFail,
         NoReceiverFault
<1>2. ASSUME UNCHANGED <<toTransit, toOut>> PROVE Linked'
  BY <1>2 DEF Linked
<1>3. CASE Environment \/ UNCHANGED vars
  BY <1>2, <1>3, EnvironmentLeaves
<1>4. CASE In \/ InCrash
  <2>1. UNCHANGED toOut
    BY <1>4, InLeaves
  <2>2. toTransit' \in {toTransit, Bind(toTransit), Drop(toTransit), SenderDies(toTransit)}
          => Linked'
    BY <1>0, <2>1 DEF Linked, Channel, Bind, Drop, SenderDies
  <2>3. InAccept => Linked'
    BY <1>0, <2>1 DEF InAccept, CanAccept, Accept, Linked, Channel
  <2>4. InSend => Linked'
    BY <1>0, <2>1 DEF InSend, Send, Linked, Channel
  <2> QED
    BY <1>1, <1>2, <1>4, <2>2, <2>3, <2>4
       DEF In, InCrash, InStart, InList, InOpen, InSkip, InMark, InSendFails,
           InUnlink
<1>5. CASE Transit
  <2>1. TransitStart => Linked'
    BY <1>0 DEF TransitStart, CanConnect, Connect, Bind, Linked, Channel
  <2>2. TransitAccept => Linked'
    BY <1>0 DEF TransitAccept, CanAccept, Accept, Linked, Channel
  <2>3. TransitRecv => Linked'
    BY <1>0 DEF TransitRecv, Receive, Linked, Channel
  <2>4. TransitSend => Linked'
    BY <1>0 DEF TransitSend, Send, Linked, Channel
  <2>5. ~TransitSendFails
    BY DEF TransitSendFails, Linked
  <2>6. TransitExit => Linked'
    BY <1>0 DEF TransitExit, TransitDies, ReceiverDies, SenderDies, Linked, Channel
  <2> QED
    BY <1>2, <1>5, <2>1, <2>2, <2>3, <2>4, <2>5, <2>6 DEF Transit, TransitCheck
<1>6. CASE Out
  <2>1. UNCHANGED toTransit
    BY <1>6, OutLeaves
  <2>2. toOut'.snd = toOut.snd /\ toOut'.dead = toOut.dead
    BY <1>0, <1>1, <1>6
       DEF Out, OutStart, OutConnect, OutRecv, OutClose, OutDigest, OutReport,
           OutCreate, OutCopy, Connect, Receive, Close, Channel
  <2> QED
    BY <2>1, <2>2 DEF Linked
<1> QED
  BY <1>1, <1>3, <1>4, <1>5, <1>6 DEF Next

(* What is inside stays inside until keysas-out has reported on it.         *)
LEMMA PassingKept ==
  ASSUME IInv, Linked, Kept, NoReceiverFault, [Next]_vars
  PROVE  Passing \cup judged \subseteq Passing' \cup judged'
<1>0. TypeOK /\ ~TransitCrash /\ ~OutCrash /\ ~OutAbandon
  BY DEF IInv, TransitCrash, OutCrash, OutAbandon, Fails, MayFail, NoReceiverFault
<1>1. CASE Environment \/ UNCHANGED vars
  BY <1>1, EnvironmentLeaves, InosKept DEF Passing, trVars
<1>2. CASE In \/ InCrash
  BY <1>0, <1>2, InMoves, InLeaves DEF Passing, outVars
<1>3. CASE Transit
  <2>1. UNCHANGED judged
    BY <1>3, TransitLeaves DEF outVars
  <2>2. ~TransitSendFails
    BY DEF TransitSendFails, Linked
  <2>3. TransitExit => ToTransit = {} /\ AtTransit = {}
    BY EmptyInos DEF TransitExit, Linked, ToTransit, AtTransit
  <2> QED
    BY <1>0, <1>3, <2>1, <2>2, <2>3, TransitMoves DEF Passing
<1>4. CASE Out
  <2>1. judged \subseteq judged'
    BY <1>4 DEF Out, OutStart, OutConnect, OutRecv, OutClose, OutDigest,
                OutReport, OutCreate, OutCopy, OutAbandon
  <2>2. OutReport \/ OutCopy => AtOut \subseteq judged'
    BY DEF OutReport, OutCopy, AtOut, Kept
  <2> QED
    BY <1>0, <1>4, <2>1, <2>2, OutMoves DEF Passing
<1> QED
  BY <1>0, <1>1, <1>2, <1>3, <1>4 DEF Next

LEMMA KeptStep ==
  ASSUME IInv, Linked, Kept, NoReceiverFault, NoReplacement, [Next]_vars
  PROVE  Kept'
<1>0. TypeOK /\ ~InUnlinkFails
  BY DEF IInv, InUnlinkFails, Fails, MayFail, NoReceiverFault
<1>1. Passing \cup judged \subseteq Passing' \cup judged'
  BY PassingKept
<1>2. InBusy => inFile \in InMessage /\ inFile.path \in Paths /\ inFile.ino # 0
  BY <1>0 DEF TypeOK, InBusy, InMessage, Inodes
<1>3. ASSUME UNCHANGED <<inPc, inFile, unlinked>>,
             InBusy => sasIn'[inFile.path] = sasIn[inFile.path]
      PROVE  /\ InBusy' => sasIn'[inFile'.path] = inFile'.ino
             /\ inPc' = "sent" => inFile'.ino \in Passing' \cup judged'
             /\ unlinked' \subseteq Passing' \cup judged'
  BY <1>1, <1>3 DEF Kept, InBusy
<1>4. CASE Environment \/ UNCHANGED vars
  <2>1. UNCHANGED <<inPc, inFile, unlinked, outPc, outFile, judged>>
    BY <1>4, EnvironmentLeaves DEF inVars
  <2>2. InBusy => sasIn'[inFile.path] = sasIn[inFile.path]
    <3>1. ASSUME NEW p \in Paths, NEW c \in Contents, Deposit(p, c), InBusy
          PROVE  p # inFile.path
      BY <1>2, <3>1 DEF Deposit, NoReplacement, Kept
    <3> QED
      BY <1>0, <1>2, <1>4, <3>1
         DEF TypeOK, Environment, Deposit, WriteInPlace, Collect, CollectReport, vars
  <2> QED
    BY <1>3, <2>1, <2>2 DEF Kept
<1>5. CASE Transit \/ TransitCrash
  <2>1. UNCHANGED <<sasIn, inPc, inFile, unlinked, outPc, outFile, judged>>
    BY <1>5, TransitLeaves DEF inVars, outVars
  <2> QED
    BY <1>3, <2>1 DEF Kept
<1>6. CASE Out \/ OutCrash
  <2>1. UNCHANGED <<sasIn, inPc, inFile, unlinked>>
    BY <1>6, OutLeaves DEF inVars
  <2>2. outPc' \in {"copy", "copying"} => outFile'.ino \in judged'
    BY <1>6 DEF Out, OutCrash, OutStart, OutConnect, OutRecv, OutClose,
                OutDigest, OutReport, OutCreate, OutCopy, OutAbandon, Kept
  <2> QED
    BY <1>3, <2>1, <2>2 DEF Kept
<1>7. CASE In \/ InCrash
  <2>1. UNCHANGED <<outPc, outFile, judged>>
    BY <1>7, InLeaves DEF outVars
  <2>2. CASE InStart \/ InAccept \/ InList \/ InSendFails \/ InCrash
             \/ \E p \in Paths : InSkip(p)
    <3>1. UNCHANGED <<unlinked>> /\ ~InBusy' /\ inPc' # "sent"
      BY <2>2 DEF InStart, InAccept, InList, InSendFails, InCrash, InSkip, InBusy
    <3> QED
      BY <1>1, <2>1, <3>1 DEF Kept
  <2>3. ASSUME NEW p \in Paths, InOpen(p) PROVE Kept'
    <3>1. /\ UNCHANGED <<sasIn, unlinked>> /\ inPc' = "opened"
          /\ inFile'.path = p /\ inFile'.ino = sasIn[p]
      BY <2>3 DEF InOpen
    <3> QED
      BY <1>1, <2>1, <3>1 DEF Kept
  <2>4. CASE InMark
    <3>1. /\ UNCHANGED unlinked /\ inPc' = "marked" /\ InBusy
          /\ inFile'.path = inFile.path /\ inFile'.ino = inFile.ino
      BY <1>2, <2>4 DEF InMark, InBusy, InMessage
    <3>2. sasIn'[inFile.path] = sasIn[inFile.path]
      <4> DEFINE p == inFile.path
      <4>1. p[2] = "file" => Beside(p, "ioerror") # p
        BY <1>2, <3>1 DEF Beside, Paths
      <4> QED
        BY <1>0, <2>4, <4>1 DEF InMark, TypeOK
    <3> QED
      BY <1>1, <2>1, <3>1, <3>2 DEF Kept
  <2>5. CASE InSend
    <3>1. /\ UNCHANGED <<sasIn, inFile, unlinked>> /\ inPc' = "sent" /\ InBusy
      BY <2>5 DEF InSend, InBusy
    <3>2. inFile.ino \in Passing'
      BY <1>0, <1>7, <2>5, InMoves DEF Passing
    <3> QED
      BY <1>1, <2>1, <3>1, <3>2 DEF Kept
  <2>6. CASE InUnlink
    <3>1. /\ inPc = "sent" /\ inPc' = "batch" /\ InBusy
          /\ unlinked' = unlinked \cup ({sasIn[inFile.path]} \ {0})
      BY <2>6 DEF InUnlink, InBusy
    <3>2. sasIn[inFile.path] \in Passing \cup judged
      BY <3>1 DEF Kept
    <3>3. unlinked' \subseteq Passing' \cup judged'
      BY <1>1, <3>1, <3>2 DEF Kept
    <3> QED
      BY <2>1, <3>1, <3>3 DEF Kept, InBusy
  <2> QED
    BY <1>0, <1>7, <2>2, <2>3, <2>4, <2>5, <2>6 DEF In
<1> QED
  BY <1>4, <1>5, <1>6, <1>7 DEF Next

(* As long as keysas-transit and keysas-out live and no deposit replaces a  *)
(* file that is still in sas_in, whatever keysas-in has removed is on its   *)
(* way or has been reported on, however often keysas-in itself crashes.     *)
THEOREM NothingIsLost ==
  ASSUME NoReceiverFault, NoReplacement
  PROVE  Spec => []NoSilentLoss
<1>1. Init => IInv /\ Linked /\ Kept
  BY InitIInv, LinkedInit
<1>2. IInv /\ Linked /\ Kept /\ [Next]_vars => (IInv /\ Linked /\ Kept)'
  BY IInvStep, LinkedStep, KeptStep
<1>3. IInv /\ Kept => NoSilentLoss
  BY InsideIs DEF IInv, Kept, NoSilentLoss, Elems
<1> QED
  BY <1>1, <1>2, <1>3, PTL DEF Spec

=============================================================================
