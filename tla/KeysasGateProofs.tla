-------------------------- MODULE KeysasGateProofs --------------------------
(***************************************************************************)
(* The pipeline implements the gate (KeysasGate).  Two things have to be   *)
(* shown of it besides what KeysasPipelineProofs shows: the deposits made  *)
(* at one path keep their order all the way to sas_out, and the file       *)
(* keysas-out is copying is the one it created.                            *)
(***************************************************************************)
EXTENDS KeysasPipelineProofs

------------------------------------------------------------------------------
(* The stages a deposit goes through, backwards: each is a set of <<path,   *)
(* inode>>.                                                                 *)

Label(m) == <<m.path, m.ino>>
Labels(q) == {Label(q[k]) : k \in 1 .. Len(q)}

Stage0 == {<<p, newest[p]>> : p \in Paths}
Stage1 == IF outPc \in {"digest", "report", "copy", "copying"}
          THEN {Label(outFile)} ELSE {}
Stage2 == Labels(toOut.queue)
Stage3 == IF trPc \in {"check", "send"} THEN {Label(trFile)} ELSE {}
Stage4 == Labels(toTransit.queue)
Stage5 == IF inPc \in {"opened", "marked", "sent"} THEN {Label(inFile)} ELSE {}
Stage6 == {<<p, sasIn[p]>> : p \in DepositedPaths}

Stages ==
  [k \in 0 .. 6 |->
     CASE k = 0 -> Stage0 [] k = 1 -> Stage1 [] k = 2 -> Stage2
       [] k = 3 -> Stage3 [] k = 4 -> Stage4 [] k = 5 -> Stage5
       [] k = 6 -> Stage6]

(* Of one path, nothing in X was deposited after anything in Y. *)
Older(X, Y) == \A x \in X, y \in Y : x[1] = y[1] => x[2] <= y[2]

Sorted(q) ==
  \A j, k \in 1 .. Len(q) :
    j < k /\ q[j].path = q[k].path => q[j].ino <= q[k].ino

InOrder(s) == \A a, b \in 0 .. 6 : a < b => Older(s[a], s[b])

Within(s, n) == \A k \in 0 .. 6 : \A x \in s[k] : x[2] \in 0 .. n

Order ==
  /\ Within(Stages, deposits)
  /\ InOrder(Stages)
  /\ Sorted(toOut.queue)
  /\ Sorted(toTransit.queue)

(* The file being copied is the last one created at its path, or has been   *)
(* collected.                                                               *)
Copying ==
  outPc = "copying" =>
    /\ newest[outFile.path] = outFile.ino
    /\ \/ sasOut[outFile.path] = NoData
       \/ sasOut[outFile.path] = [ino |-> outFile.ino,
                                  digest |-> outFile.digest,
                                  bytes |-> Partial]

------------------------------------------------------------------------------
LEMMA StagesAre ==
  /\ Stages[0] = Stage0 /\ Stages[1] = Stage1 /\ Stages[2] = Stage2
  /\ Stages[3] = Stage3 /\ Stages[4] = Stage4 /\ Stages[5] = Stage5
  /\ Stages[6] = Stage6
  /\ Stages'[0] = Stage0' /\ Stages'[1] = Stage1' /\ Stages'[2] = Stage2'
  /\ Stages'[3] = Stage3' /\ Stages'[4] = Stage4' /\ Stages'[5] = Stage5'
  /\ Stages'[6] = Stage6'
BY DEF Stages

(* Labels may leave their stage. *)
LEMMA Shrink ==
  ASSUME NEW s, NEW t, NEW n, InOrder(s), Within(s, n),
         \A i \in 0 .. 6 : t[i] \subseteq s[i]
  PROVE  InOrder(t) /\ Within(t, n)
BY DEF InOrder, Within, Older

(* A label may come into the next stage, if what remains behind it in its   *)
(* own is not older.                                                        *)
LEMMA Advance ==
  ASSUME NEW s, NEW t, NEW n, NEW k \in 0 .. 5, NEW x \in s[k + 1],
         InOrder(s), Within(s, n),
         \A i \in 0 .. 6 : i # k => t[i] \subseteq s[i],
         t[k] \subseteq s[k] \cup {x},
         Older({x}, t[k + 1])
  PROVE  InOrder(t) /\ Within(t, n)
<1>1. Within(t, n)
  BY DEF Within
<1>2. ASSUME NEW a \in 0 .. 6, NEW b \in 0 .. 6, a < b
      PROVE  Older(t[a], t[b])
  <2>1. Older(s[a], s[b])
    BY <1>2 DEF InOrder
  <2>2. CASE a # k /\ b # k
    BY <2>1, <2>2 DEF Older
  <2>3. CASE b = k
    <3>1. a # k /\ Older(s[a], s[k + 1])
      BY <1>2, <2>3 DEF InOrder
    <3> QED
      BY <2>1, <2>3, <3>1 DEF Older
  <2>4. CASE a = k /\ b = k + 1
    BY <2>1, <2>4 DEF Older
  <2>5. CASE a = k /\ b # k + 1
    <3>1. b # k /\ Older(s[k + 1], s[b])
      BY <1>2, <2>5 DEF InOrder
    <3> QED
      BY <2>1, <2>5, <3>1 DEF Older
  <2> QED
    BY <2>2, <2>3, <2>4, <2>5
<1> QED
  BY <1>1, <1>2 DEF InOrder

(* One message before or after a queue. *)
LEMMA OlderQueue ==
  ASSUME NEW q, NEW m
  PROVE  /\ Older(Labels(q), {Label(m)}) <=>
              \A k \in 1 .. Len(q) : q[k].path = m.path => q[k].ino <= m.ino
         /\ Older({Label(m)}, Labels(q)) <=>
              \A k \in 1 .. Len(q) : m.path = q[k].path => m.ino <= q[k].ino
<1>1. \A n : Label(n)[1] = n.path /\ Label(n)[2] = n.ino
  BY DEF Label
<1>2. \A k \in 1 .. Len(q) : Label(q[k]) \in Labels(q)
  BY DEF Labels
<1>3. \A x \in Labels(q) : \E k \in 1 .. Len(q) : x = Label(q[k])
  BY DEF Labels
<1> QED
  BY <1>1, <1>2, <1>3 DEF Older

(* The queues: what Append and Tail do to the labels and to the order. *)
LEMMA AppendLabels ==
  ASSUME NEW M, NEW q \in Seq(M), NEW m \in M
  PROVE  /\ Labels(Append(q, m)) = Labels(q) \cup {Label(m)}
         /\ Sorted(q) /\ Older(Labels(q), {Label(m)}) => Sorted(Append(q, m))
<1> DEFINE r == Append(q, m)
<1>1. /\ Len(r) = Len(q) + 1
      /\ \A k \in 1 .. Len(q) : r[k] = q[k]
      /\ r[Len(q) + 1] = m
      /\ Len(q) \in Nat
  OBVIOUS
<1> HIDE DEF r
<1>2. Labels(r) = Labels(q) \cup {Label(m)}
  BY <1>1 DEF Labels
<1>3. ASSUME Sorted(q), Older(Labels(q), {Label(m)})
      PROVE  Sorted(r)
  <2>1. \A j \in 1 .. Len(q) : q[j].path = m.path => q[j].ino <= m.ino
    BY <1>3, OlderQueue
  <2> QED
    BY <1>1, <1>3, <2>1 DEF Sorted
<1> QED
  BY <1>2, <1>3 DEF r

LEMMA TailLabels ==
  ASSUME NEW M, NEW q \in Seq(M), q # << >>
  PROVE  /\ Labels(Tail(q)) \subseteq Labels(q)
         /\ Label(Head(q)) \in Labels(q)
         /\ Sorted(q) => /\ Sorted(Tail(q))
                         /\ Older({Label(Head(q))}, Labels(Tail(q)))
<1> DEFINE r == Tail(q)
<1>1. /\ Len(q) \in Nat /\ Len(q) >= 1
      /\ Len(r) = Len(q) - 1
      /\ \A k \in 1 .. Len(r) : r[k] = q[k + 1]
      /\ Head(q) = q[1]
  OBVIOUS
<1> HIDE DEF r
<1>2. Labels(r) \subseteq Labels(q) /\ Label(Head(q)) \in Labels(q)
  BY <1>1 DEF Labels
<1>3. ASSUME Sorted(q)
      PROVE  Sorted(r) /\ Older({Label(Head(q))}, Labels(r))
  <2>1. Sorted(r)
    BY <1>1, <1>3 DEF Sorted
  <2>2. \A k \in 1 .. Len(r) :
          Head(q).path = r[k].path => Head(q).ino <= r[k].ino
    BY <1>1, <1>3 DEF Sorted
  <2> QED
    BY <2>1, <2>2, OlderQueue
<1> QED
  BY <1>2, <1>3 DEF r

LEMMA EmptyLabels == Labels(<< >>) = {} /\ Sorted(<< >>)
BY DEF Labels, Sorted

(* What the other socket operations do to the queue. *)
LEMMA QueueUnchanged ==
  ASSUME NEW M, NEW ch \in Channel(M)
  PROVE  /\ Bind(ch).queue = ch.queue
         /\ Connect(ch).queue = ch.queue
         /\ Accept(ch).queue = ch.queue
         /\ Drop(ch).queue = ch.queue
         /\ Close(ch).queue = ch.queue
         /\ SenderDies(ch).queue = ch.queue
         /\ ReceiverDies(ch).queue = << >>
         /\ Receive(ch).queue = Tail(ch.queue)
         /\ \A m : Send(ch, m).queue = Append(ch.queue, m)
BY DEF Channel, Bind, Connect, Accept, Drop, Close, SenderDies, ReceiverDies,
       Receive, Send

------------------------------------------------------------------------------
(* What leaves the deposits in their stages, or lets some go, keeps them in *)
(* order.                                                                   *)
LEMMA OrderShrinks ==
  ASSUME Order, UNCHANGED deposits,
         Stage0' \subseteq Stage0, Stage1' \subseteq Stage1,
         Stage2' \subseteq Stage2, Stage3' \subseteq Stage3,
         Stage4' \subseteq Stage4, Stage5' \subseteq Stage5,
         Stage6' \subseteq Stage6,
         Sorted(toOut.queue)', Sorted(toTransit.queue)'
  PROVE  Order'
<1>1. \A i \in 0 .. 6 : Stages'[i] \subseteq Stages[i]
  BY StagesAre
<1>2. InOrder(Stages') /\ Within(Stages', deposits)
  BY <1>1, Shrink DEF Order
<1> QED
  BY <1>2 DEF Order

(* The stages of the daemons a step does not concern. *)
LEMMA StagesKept ==
  /\ UNCHANGED newest => Stage0' = Stage0
  /\ UNCHANGED <<outPc, outFile>> => Stage1' = Stage1
  /\ UNCHANGED toOut => Stage2' = Stage2
  /\ UNCHANGED trVars => Stage3' = Stage3
  /\ UNCHANGED toTransit => Stage4' = Stage4
  /\ UNCHANGED inVars => Stage5' = Stage5
  /\ UNCHANGED sasIn => Stage6' = Stage6
BY DEF Stage0, Stage1, Stage2, Stage3, Stage4, Stage5, Stage6, DepositedPaths,
       trVars, inVars

LEMMA OrderInit == Init => Order /\ Copying
<1> SUFFICES ASSUME Init PROVE Order /\ Copying
  OBVIOUS
<1>1. /\ \A x \in Stage0 : x[2] = 0
      /\ Stage1 = {} /\ Stage3 = {} /\ Stage5 = {} /\ Stage6 = {}
  BY DEF Init, Stage0, Stage1, Stage3, Stage5, Stage6, DepositedPaths
<1>2. Stage2 = {} /\ Stage4 = {} /\ Sorted(toOut.queue) /\ Sorted(toTransit.queue)
  BY EmptyLabels DEF Init, Unbound, Stage2, Stage4
<1>3. /\ \A k \in 1 .. 6 : Stages[k] = {}
      /\ \A x \in Stages[0] : x[2] = 0
  BY <1>1, <1>2, StagesAre
<1>4. InOrder(Stages) /\ Within(Stages, deposits)
  BY <1>3 DEF InOrder, Within, Older, Init
<1> QED
  BY <1>2, <1>4 DEF Order, Copying, Init

LEMMA OrderEnvironment ==
  ASSUME IInv, Order, Environment \/ UNCHANGED vars
  PROVE  Order'
<1>0. TypeOK
  BY DEF IInv
<1>1. UNCHANGED <<newest, outPc, outFile, toOut, trVars, toTransit, inVars>>
  BY DEF Environment, Deposit, WriteInPlace, Collect, CollectReport, vars,
         outVars
<1>2. /\ Stage0' = Stage0 /\ Stage1' = Stage1 /\ Stage2' = Stage2
      /\ Stage3' = Stage3 /\ Stage4' = Stage4 /\ Stage5' = Stage5
      /\ Sorted(toOut.queue)' /\ Sorted(toTransit.queue)'
  BY <1>1, StagesKept DEF Order
<1>3. ASSUME NEW p \in Paths, NEW c \in Contents, Deposit(p, c)
      PROVE  Order'
  <2>1. /\ deposits \in Nat /\ deposits' = deposits + 1
        /\ \A q \in Paths : sasIn'[q] = IF q = p THEN deposits + 1 ELSE sasIn[q]
    BY <1>0, <1>3, PipelineAssumption DEF TypeOK, Deposit
  <2>2. \A x \in Stage6' : x \in Stage6 \/ x[2] = deposits + 1
    BY <2>1 DEF Stage6, DepositedPaths
  <2>3. Within(Stages, deposits) /\ InOrder(Stages)
    BY DEF Order
  <2>4. /\ \A i \in 0 .. 5 : Stages'[i] = Stages[i]
        /\ \A x \in Stages'[6] : x \in Stages[6] \/ x[2] = deposits + 1
    BY <1>2, <2>2, StagesAre
  <2>5. Within(Stages', deposits')
    BY <2>1, <2>3, <2>4 DEF Within
  <2>6. ASSUME NEW a \in 0 .. 6, NEW b \in 0 .. 6, a < b
        PROVE  Older(Stages'[a], Stages'[b])
    <3>1. a \in 0 .. 5 /\ Older(Stages[a], Stages[b])
      BY <2>3, <2>6 DEF InOrder
    <3>2. CASE b \in 0 .. 5
      BY <2>4, <3>1, <3>2
    <3>3. CASE b = 6
      <4>1. \A x \in Stages'[a] : x[2] <= deposits + 1
        BY <2>1, <2>3, <2>4, <3>1 DEF Within
      <4> QED
        BY <2>4, <3>1, <3>3, <4>1 DEF Older
    <3> QED
      BY <3>2, <3>3
  <2>7. InOrder(Stages')
    BY <2>6 DEF InOrder
  <2> QED
    BY <1>2, <2>5, <2>7 DEF Order
<1>4. ASSUME UNCHANGED <<sasIn, deposits>>
      PROVE  Order'
  BY <1>2, <1>4, StagesKept, OrderShrinks
<1>5. CASE \E p \in Paths, c \in Contents : Deposit(p, c)
  BY <1>3, <1>5
<1>6. CASE \/ \E i \in Inodes, c \in Contents : WriteInPlace(i, c)
           \/ \E p \in Paths : Collect(p) \/ CollectReport(p)
           \/ UNCHANGED vars
  BY <1>4, <1>6 DEF WriteInPlace, Collect, CollectReport, vars, envVars
<1> QED
  BY <1>5, <1>6 DEF Environment

LEMMA OrderIn ==
  ASSUME IInv, Order, In \/ InCrash
  PROVE  Order'
<1> USE DEF envVars
<1>0. /\ TypeOK
      /\ toTransit \in Channel(InMessage) /\ toTransit.queue \in Seq(InMessage)
  BY DEF IInv, TypeOK, Channel
<1>1. UNCHANGED <<newest, outPc, outFile, toOut, trVars, deposits>>
  BY DEF In, InCrash, InStart, InAccept, InList, InOpen, InSkip, InMark,
         InSend, InSendFails, InUnlink, InUnlinkFails, outVars
<1>2. /\ Stage0' = Stage0 /\ Stage1' = Stage1 /\ Stage2' = Stage2
      /\ Stage3' = Stage3 /\ Sorted(toOut.queue)'
  BY <1>1, StagesKept DEF Order
<1>3. ASSUME toTransit'.queue = toTransit.queue
      PROVE  Stage4' = Stage4 /\ Sorted(toTransit.queue)'
  BY <1>3 DEF Stage4, Order
<1>4. ASSUME toTransit'.queue = toTransit.queue,
             Stage5' \subseteq Stage5, Stage6' \subseteq Stage6
      PROVE  Order'
  BY <1>1, <1>2, <1>3, <1>4, OrderShrinks
<1>5. CASE InStart \/ InAccept \/ InList
  <2>1. UNCHANGED sasIn /\ toTransit'.queue = toTransit.queue
    BY <1>0, <1>5, QueueUnchanged DEF InStart, InAccept, InList
  <2>2. Stage5' \subseteq Stage5
    BY <1>5 DEF InStart, InAccept, InList, Stage5
  <2> QED
    BY <1>4, <2>1, <2>2, StagesKept
<1>6. ASSUME NEW p \in Paths, InSkip(p)
      PROVE  Order'
  <2>1. UNCHANGED sasIn /\ toTransit'.queue = toTransit.queue
    BY <1>0, <1>6, QueueUnchanged DEF InSkip
  <2>2. Stage5' \subseteq Stage5
    BY <1>6 DEF InSkip, Stage5
  <2> QED
    BY <1>4, <2>1, <2>2, StagesKept
<1>7. ASSUME NEW p \in Paths, InOpen(p)
      PROVE  Order'
  <2> DEFINE x == <<p, sasIn[p]>>
  <2>1. UNCHANGED sasIn /\ UNCHANGED toTransit
    BY <1>7 DEF InOpen
  <2>2. x \in Stage6 /\ Stage5' = {x}
    BY <1>7 DEF InOpen, Stage5, Stage6, DepositedPaths, Label
  <2>3. Stage4' = Stage4 /\ Stage6' = Stage6 /\ Sorted(toTransit.queue)'
    BY <2>1, StagesKept DEF Order
  <2>4. sasIn[p] \in Nat
    BY <1>0, PipelineAssumption DEF TypeOK, Inodes
  <2>5. Older({x}, Stage6)
    BY <2>4 DEF Older, Stage6
  <2> HIDE DEF x
  <2>6. /\ \A i \in 0 .. 6 : i # 5 => Stages'[i] \subseteq Stages[i]
        /\ Stages'[5] \subseteq Stages[5] \cup {x}
        /\ x \in Stages[5 + 1] /\ Older({x}, Stages'[5 + 1])
    BY <1>2, <2>2, <2>3, <2>5, StagesAre
  <2>7. InOrder(Stages') /\ Within(Stages', deposits)
    <3>1. InOrder(Stages) /\ Within(Stages, deposits)
      BY DEF Order
    <3> QED
      BY <2>6, <3>1, Advance
  <2> QED
    BY <1>1, <1>2, <2>3, <2>7 DEF Order
<1>8. CASE InMark
  <2>1. inFile \in InMessage /\ UNCHANGED toTransit
    BY <1>0, <1>8 DEF TypeOK, InMark
  <2>2. Stage5' = Stage5
    BY <1>8, <2>1 DEF InMark, Stage5, Label, InMessage
  <2>3. Stage6' \subseteq Stage6
    <3>1. \A q \in Paths : sasIn'[q] \in {0, sasIn[q]}
      BY <1>0, <1>8 DEF TypeOK, InMark
    <3> QED
      BY <3>1 DEF Stage6, DepositedPaths
  <2> QED
    BY <1>4, <2>1, <2>2, <2>3
<1>9. CASE InSend
  <2> DEFINE x == Label(inFile)
  <2>1. inFile \in InMessage /\ Stage5 = {x} /\ Stage5' = {x} /\ UNCHANGED sasIn
    BY <1>0, <1>9 DEF TypeOK, InSend, Stage5
  <2>2. toTransit'.queue = Append(toTransit.queue, inFile)
    BY <1>0, <1>9, QueueUnchanged DEF InSend
  <2>3. Stage4' = Stage4 \cup {x}
    BY <1>0, <2>1, <2>2, AppendLabels DEF Stage4
  <2>4. InOrder(Stages) /\ Within(Stages, deposits)
    BY DEF Order
  <2>5. Older(Stage4, {x})
    BY <2>1, <2>4, StagesAre DEF InOrder
  <2>6. Sorted(toTransit.queue)'
    BY <1>0, <2>1, <2>2, <2>5, AppendLabels DEF Order, Stage4
  <2>7. Older({x}, {x})
    BY <2>1, <2>4, StagesAre DEF Within, Older
  <2>8. Stage6' = Stage6
    BY <2>1, StagesKept
  <2> HIDE DEF x
  <2>9. /\ \A i \in 0 .. 6 : i # 4 => Stages'[i] \subseteq Stages[i]
        /\ Stages'[4] \subseteq Stages[4] \cup {x}
        /\ x \in Stages[4 + 1] /\ Older({x}, Stages'[4 + 1])
    BY <1>2, <2>1, <2>3, <2>7, <2>8, StagesAre
  <2>10. InOrder(Stages') /\ Within(Stages', deposits)
    BY <2>4, <2>9, Advance
  <2> QED
    BY <1>1, <1>2, <2>6, <2>10 DEF Order
<1>10. CASE InSendFails \/ InUnlinkFails \/ InCrash
  <2>1. UNCHANGED sasIn /\ toTransit'.queue = toTransit.queue
    BY <1>0, <1>10, QueueUnchanged DEF InSendFails, InUnlinkFails, InCrash
  <2>2. Stage5' \subseteq Stage5
    BY <1>10 DEF InSendFails, InUnlinkFails, InCrash, Stage5
  <2> QED
    BY <1>4, <2>1, <2>2, StagesKept
<1>11. CASE InUnlink
  <2>1. UNCHANGED toTransit /\ Stage5' \subseteq Stage5
    BY <1>11 DEF InUnlink, Stage5
  <2>2. Stage6' \subseteq Stage6
    BY <1>0, <1>11 DEF TypeOK, InUnlink, Stage6, DepositedPaths
  <2> QED
    BY <1>4, <2>1, <2>2
<1> QED
  BY <1>5, <1>6, <1>7, <1>8, <1>9, <1>10, <1>11 DEF In

LEMMA OrderTransit ==
  ASSUME IInv, Order, Transit \/ TransitCrash
  PROVE  Order'
<1> USE DEF envVars
<1>0. /\ TypeOK
      /\ toTransit \in Channel(InMessage) /\ toTransit.queue \in Seq(InMessage)
      /\ toOut \in Channel(OutMessage) /\ toOut.queue \in Seq(OutMessage)
  BY DEF IInv, TypeOK, Channel
<1>1. UNCHANGED <<newest, outPc, outFile, inVars, sasIn, deposits>>
  BY DEF Transit, TransitCrash, TransitStart, TransitAccept, TransitRecv,
         TransitCheck, TransitSend, TransitSendFails, TransitExit,
         TransitDies, outVars
<1>2. /\ Stage0' = Stage0 /\ Stage1' = Stage1 /\ Stage5' = Stage5
      /\ Stage6' = Stage6
  BY <1>1, StagesKept
<1>3. InOrder(Stages) /\ Within(Stages, deposits)
  BY DEF Order
<1>4. ASSUME toTransit'.queue \in {toTransit.queue, << >>},
             toOut'.queue = toOut.queue, Stage3' \subseteq Stage3
      PROVE  Order'
  <2>1. Stage4' \subseteq Stage4 /\ Sorted(toTransit.queue)'
    BY <1>4, EmptyLabels DEF Stage4, Order
  <2>2. Stage2' = Stage2 /\ Sorted(toOut.queue)'
    BY <1>4 DEF Stage2, Order
  <2> QED
    BY <1>1, <1>2, <1>4, <2>1, <2>2, OrderShrinks
<1>5. CASE TransitStart \/ TransitAccept \/ TransitSendFails
  <2>1. toTransit'.queue = toTransit.queue /\ toOut'.queue = toOut.queue
    BY <1>0, <1>5, QueueUnchanged
       DEF TransitStart, TransitAccept, TransitSendFails
  <2>2. Stage3' \subseteq Stage3
    BY <1>5 DEF TransitStart, TransitAccept, TransitSendFails, Stage3
  <2> QED
    BY <1>4, <2>1, <2>2
<1>6. CASE TransitExit \/ TransitCrash
  <2>1. toTransit'.queue = << >> /\ toOut'.queue = toOut.queue
    BY <1>0, <1>6, QueueUnchanged DEF TransitExit, TransitCrash, TransitDies
  <2>2. Stage3' \subseteq Stage3
    BY <1>6 DEF TransitExit, TransitCrash, TransitDies, Stage3
  <2> QED
    BY <1>4, <2>1, <2>2
<1>7. CASE TransitRecv
  <2> DEFINE m == Head(toTransit.queue)
             x == Label(m)
  <2>1. /\ toTransit.queue # << >> /\ UNCHANGED toOut
        /\ toTransit'.queue = Tail(toTransit.queue)
    BY <1>0, <1>7, QueueUnchanged DEF TransitRecv
  <2>2. /\ x \in Stage4 /\ Stage4' \subseteq Stage4
        /\ Older({x}, Stage4') /\ Sorted(toTransit.queue)'
    BY <1>0, <2>1, TailLabels DEF Stage4, Order
  <2>3. Stage3' = {x}
    BY <1>7 DEF TransitRecv, Stage3, Label
  <2>4. Stage2' = Stage2 /\ Sorted(toOut.queue)'
    BY <2>1, StagesKept DEF Order
  <2> HIDE DEF x
  <2>5. /\ \A i \in 0 .. 6 : i # 3 => Stages'[i] \subseteq Stages[i]
        /\ Stages'[3] \subseteq Stages[3] \cup {x}
        /\ x \in Stages[3 + 1] /\ Older({x}, Stages'[3 + 1])
    BY <1>2, <2>2, <2>3, <2>4, StagesAre
  <2>6. InOrder(Stages') /\ Within(Stages', deposits)
    BY <1>3, <2>5, Advance
  <2> QED
    BY <1>1, <2>2, <2>4, <2>6 DEF Order
<1>8. CASE TransitCheck
  <2>1. trFile \in OutMessage /\ UNCHANGED <<toTransit, toOut>>
    BY <1>0, <1>8 DEF TypeOK, TransitCheck
  <2>2. trFile'.path = trFile.path /\ trFile'.ino = trFile.ino
    BY <1>8, <2>1 DEF TransitCheck, OutMessage
  <2>3. Stage3' = Stage3
    BY <1>8, <2>2 DEF TransitCheck, Stage3, Label
  <2> QED
    BY <1>4, <2>1, <2>3
<1>9. CASE TransitSend
  <2> DEFINE x == Label(trFile)
  <2>1. /\ trFile \in OutMessage /\ UNCHANGED toTransit
        /\ toOut'.queue = Append(toOut.queue, trFile)
    BY <1>0, <1>9, QueueUnchanged DEF TypeOK, TransitSend
  <2>2. Stage3 = {x} /\ Stage3' = {}
    BY <1>9 DEF TransitSend, Stage3
  <2>3. Stage2' = Stage2 \cup {x}
    BY <1>0, <2>1, AppendLabels DEF Stage2
  <2>4. Older(Stage2, {x})
    BY <1>3, <2>2, StagesAre DEF InOrder
  <2>5. Sorted(toOut.queue)'
    <3>1. Sorted(toOut.queue) /\ Older(Labels(toOut.queue), {Label(trFile)})
      BY <2>4 DEF Order, Stage2
    <3>2. Sorted(Append(toOut.queue, trFile))
      BY <1>0, <2>1, <3>1, AppendLabels
    <3> QED
      BY <2>1, <3>2
  <2>6. Stage4' = Stage4 /\ Sorted(toTransit.queue)'
    BY <2>1, StagesKept DEF Order
  <2>7. Older({x}, {})
    BY DEF Older
  <2> HIDE DEF x
  <2>8. /\ \A i \in 0 .. 6 : i # 2 => Stages'[i] \subseteq Stages[i]
        /\ Stages'[2] \subseteq Stages[2] \cup {x}
        /\ x \in Stages[2 + 1] /\ Older({x}, Stages'[2 + 1])
    BY <1>2, <2>2, <2>3, <2>6, <2>7, StagesAre
  <2>9. InOrder(Stages') /\ Within(Stages', deposits)
    BY <1>3, <2>8, Advance
  <2> QED
    BY <1>1, <2>5, <2>6, <2>9 DEF Order
<1> QED
  BY <1>5, <1>6, <1>7, <1>8, <1>9 DEF Transit

LEMMA OrderOut ==
  ASSUME IInv, Order, Out \/ OutCrash
  PROVE  Order'
<1> USE DEF envVars
<1>0. /\ TypeOK
      /\ toOut \in Channel(OutMessage) /\ toOut.queue \in Seq(OutMessage)
  BY DEF IInv, TypeOK, Channel
<1>1. UNCHANGED <<toTransit, trVars, inVars, sasIn, deposits>>
  BY DEF Out, OutCrash, OutStart, OutConnect, OutRecv, OutClose, OutDigest,
         OutReport, OutCreate, OutCopy, OutAbandon
<1>2. /\ Stage3' = Stage3 /\ Stage4' = Stage4 /\ Stage5' = Stage5
      /\ Stage6' = Stage6 /\ Sorted(toTransit.queue)'
  BY <1>1, StagesKept DEF Order
<1>3. InOrder(Stages) /\ Within(Stages, deposits)
  BY DEF Order
<1>4. ASSUME UNCHANGED newest, Stage1' \subseteq Stage1,
             toOut'.queue \in {toOut.queue, << >>}
      PROVE  Order'
  <2>1. Stage2' \subseteq Stage2 /\ Sorted(toOut.queue)'
    BY <1>4, EmptyLabels DEF Stage2, Order
  <2> QED
    BY <1>1, <1>2, <1>4, <2>1, StagesKept, OrderShrinks
<1>5. CASE OutStart \/ OutConnect \/ OutClose
  <2>1. UNCHANGED newest /\ toOut'.queue = toOut.queue
    BY <1>0, <1>5, QueueUnchanged DEF OutStart, OutConnect, OutClose
  <2>2. Stage1' \subseteq Stage1
    BY <1>5 DEF OutStart, OutConnect, OutClose, Stage1
  <2> QED
    BY <1>4, <2>1, <2>2
<1>6. CASE OutCrash
  <2>1. UNCHANGED newest /\ toOut'.queue = << >>
    BY <1>0, <1>6, QueueUnchanged DEF OutCrash
  <2>2. Stage1' \subseteq Stage1
    BY <1>6 DEF OutCrash, Stage1
  <2> QED
    BY <1>4, <2>1, <2>2
<1>7. CASE OutRecv
  <2> DEFINE x == Label(Head(toOut.queue))
  <2>1. /\ toOut.queue # << >> /\ UNCHANGED newest
        /\ toOut'.queue = Tail(toOut.queue)
    BY <1>0, <1>7, QueueUnchanged DEF OutRecv
  <2>2. /\ x \in Stage2 /\ Stage2' \subseteq Stage2
        /\ Older({x}, Stage2') /\ Sorted(toOut.queue)'
    BY <1>0, <2>1, TailLabels DEF Stage2, Order
  <2>3. Stage1' = {x}
    BY <1>7 DEF OutRecv, Stage1
  <2>4. Stage0' = Stage0
    BY <2>1, StagesKept
  <2> HIDE DEF x
  <2>5. /\ \A i \in 0 .. 6 : i # 1 => Stages'[i] \subseteq Stages[i]
        /\ Stages'[1] \subseteq Stages[1] \cup {x}
        /\ x \in Stages[1 + 1] /\ Older({x}, Stages'[1 + 1])
    BY <1>2, <2>2, <2>3, <2>4, StagesAre
  <2>6. InOrder(Stages') /\ Within(Stages', deposits)
    BY <1>3, <2>5, Advance
  <2> QED
    BY <1>1, <1>2, <2>2, <2>6 DEF Order
<1>8. CASE OutDigest
  <2>1. outFile \in OutMessage /\ UNCHANGED <<toOut, newest>>
    BY <1>0, <1>8 DEF TypeOK, OutDigest
  <2>2. outFile'.path = outFile.path /\ outFile'.ino = outFile.ino
    BY <1>8, <2>1 DEF OutDigest, OutMessage
  <2>3. Stage1' = Stage1
    BY <1>8, <2>2 DEF OutDigest, Stage1, Label
  <2> QED
    BY <1>4, <2>1, <2>3
<1>9. CASE OutReport \/ OutCopy \/ OutAbandon
  <2>1. UNCHANGED <<toOut, newest>>
    BY <1>9 DEF OutReport, OutCopy, OutAbandon
  <2>2. Stage1' \subseteq Stage1
    BY <1>9 DEF OutReport, OutCopy, OutAbandon, Stage1
  <2> QED
    BY <1>4, <2>1, <2>2
<1>10. CASE OutCreate
  <2> DEFINE x == Label(outFile)
  <2>1. /\ outFile \in OutMessage /\ UNCHANGED toOut
        /\ Stage1 = {x} /\ Stage1' = {x}
    BY <1>0, <1>10 DEF TypeOK, OutCreate, Stage1
  <2>2. Stage0' \subseteq Stage0 \cup {x}
    BY <1>0, <1>10 DEF TypeOK, OutCreate, Stage0, Label
  <2>3. Stage2' = Stage2 /\ Sorted(toOut.queue)'
    BY <2>1, StagesKept DEF Order
  <2>4. Older({x}, {x})
    BY <1>3, <2>1, StagesAre DEF Within, Older
  <2> HIDE DEF x
  <2>5. /\ \A i \in 0 .. 6 : i # 0 => Stages'[i] \subseteq Stages[i]
        /\ Stages'[0] \subseteq Stages[0] \cup {x}
        /\ x \in Stages[0 + 1] /\ Older({x}, Stages'[0 + 1])
    BY <1>2, <2>1, <2>2, <2>3, <2>4, StagesAre
  <2>6. InOrder(Stages') /\ Within(Stages', deposits)
    BY <1>3, <2>5, Advance
  <2> QED
    BY <1>1, <1>2, <2>3, <2>6 DEF Order
<1> QED
  BY <1>5, <1>6, <1>7, <1>8, <1>9, <1>10 DEF Out

LEMMA CopyingStep ==
  ASSUME IInv, Copying, [Next]_vars
  PROVE  Copying'
<1>0. TypeOK
  BY DEF IInv
<1>1. CASE Environment \/ In \/ InCrash \/ Transit \/ TransitCrash \/ UNCHANGED vars
  <2>1. UNCHANGED <<outPc, outFile, newest>>
    BY <1>1 DEF Environment, Deposit, WriteInPlace, Collect, CollectReport,
           In, InCrash, InStart, InAccept, InList, InOpen, InSkip, InMark,
           InSend, InSendFails, InUnlink, InUnlinkFails,
           Transit, TransitCrash, TransitStart, TransitAccept, TransitRecv,
           TransitCheck, TransitSend, TransitSendFails, TransitExit,
           TransitDies, vars, outVars
  <2>2. \A p \in Paths : sasOut'[p] \in {sasOut[p], NoData}
    BY <1>0, <1>1
       DEF TypeOK, Environment, Deposit, WriteInPlace, Collect, CollectReport,
           In, InCrash, InStart, InAccept, InList, InOpen, InSkip, InMark,
           InSend, InSendFails, InUnlink, InUnlinkFails,
           Transit, TransitCrash, TransitStart, TransitAccept, TransitRecv,
           TransitCheck, TransitSend, TransitSendFails, TransitExit,
           TransitDies, vars, outVars
  <2>3. outPc = "copying" => outFile.path \in Paths
    BY <1>0 DEF TypeOK, OutMessage
  <2> QED
    BY <2>1, <2>2, <2>3 DEF Copying
<1>2. CASE OutCreate
  <2>1. outFile \in OutMessage
    BY <1>0, <1>2 DEF TypeOK, OutCreate
  <2> QED
    BY <1>0, <1>2, <2>1 DEF TypeOK, OutCreate, OutMessage, Copying
<1>3. CASE OutStart \/ OutConnect \/ OutRecv \/ OutClose \/ OutDigest
           \/ OutReport \/ OutCopy \/ OutAbandon \/ OutCrash
  BY <1>3 DEF OutStart, OutConnect, OutRecv, OutClose, OutDigest, OutReport,
              OutCopy, OutAbandon, OutCrash, Copying
<1> QED
  BY <1>1, <1>2, <1>3 DEF Next, Out

------------------------------------------------------------------------------
(* The step of the gate each step of the pipeline is. *)

Shelf == [p \in Paths |->
            IF sasOut[p] = NoData \/ sasOut[p].bytes = Partial
            THEN NoData
            ELSE [ino |-> sasOut[p].ino, digest |-> sasOut[p].digest]]

LEMMA GateStep ==
  ASSUME IInv, Order, Copying, [Next]_vars
  PROVE  [Gate!GateNext]_(Gate!gateVars)
<1>0. TypeOK
  BY DEF IInv
<1>1. ASSUME UNCHANGED <<sasOut, newest>>
      PROVE  UNCHANGED Gate!gateVars
  BY <1>1 DEF Gate!gateVars
<1>2. ASSUME NEW p \in Paths, Collect(p)
      PROVE  Gate!Withdraw(p)
  BY <1>0, <1>2 DEF TypeOK, Collect, Gate!Withdraw
<1>3. CASE OutCreate
  <2> DEFINE p == outFile.path
             i == outFile.ino
  <2>1. p \in Paths /\ i \in Inodes
    BY <1>0, <1>3 DEF TypeOK, OutCreate, OutMessage
  <2>2. i >= newest[p]
    <3>1. Older(Stage0, Stage1)
      BY StagesAre DEF Order, InOrder
    <3>2. <<p, newest[p]>> \in Stage0 /\ <<p, i>> \in Stage1
      BY <1>3, <2>1 DEF OutCreate, Stage0, Stage1, Label
    <3> QED
      BY <3>1, <3>2 DEF Older
  <2>3. newest' = [newest EXCEPT ![p] = i]
    BY <1>3 DEF OutCreate
  <2>4. Shelf' = [Shelf EXCEPT ![p] = NoData]
    BY <1>0, <1>3, <2>1 DEF TypeOK, OutCreate, Shelf
  <2>5. \E q \in Paths : \E j \in Inodes : Gate!Clear(q, j)
    <3>1. PICK q \in Paths : q = p
      BY <2>1
    <3>2. PICK j \in Inodes : j = i
      BY <2>1
    <3>3. Gate!Clear(q, j)
      BY <2>2, <2>3, <2>4, <3>1, <3>2 DEF Gate!Clear, Shelf
    <3> QED
      BY <3>3
  <2> QED
    BY <2>5 DEF Gate!GateNext
<1>4. CASE OutCopy
  <2> DEFINE p == outFile.path
             d == outFile.digest
  <2>1. /\ p \in Paths /\ d \in Contents /\ outFile.ino \in Inodes
        /\ UNCHANGED newest
    BY <1>0, <1>4 DEF TypeOK, OutCopy, OutMessage
  <2>2. CASE sasOut[p] = NoData
    <3>1. UNCHANGED <<sasOut, newest>>
      BY <1>4, <2>1, <2>2 DEF OutCopy
    <3>2. UNCHANGED Gate!gateVars
      BY <1>1, <3>1
    <3> QED
      BY <3>2
  <2>3. CASE sasOut[p] # NoData
    <3>1. /\ sasOut[p] = [ino |-> newest[p], digest |-> d, bytes |-> Partial]
          /\ newest[p] = outFile.ino
      BY <1>4, <2>3 DEF OutCopy, Copying
    <3>2. content[outFile.ino] \in Contents \cup {Partial}
      BY <1>0, <2>1 DEF TypeOK
    <3>3. sasOut' = [sasOut EXCEPT ![p] =
                       [ino |-> newest[p], digest |-> d,
                        bytes |-> content[outFile.ino]]]
      <4> DEFINE b == content[outFile.ino]
      <4>1. sasOut' = [sasOut EXCEPT ![p] = [sasOut[p] EXCEPT !.bytes = b]]
        BY <1>4, <2>3 DEF OutCopy
      <4>2. [sasOut[p] EXCEPT !.bytes = b]
              = [ino |-> newest[p], digest |-> d, bytes |-> b]
        BY <3>1
      <4> QED
        BY <4>1, <4>2
    <3>4. CASE content[outFile.ino] = Partial
      <4>1. UNCHANGED sasOut
        BY <1>0, <3>1, <3>3, <3>4 DEF TypeOK
      <4>2. UNCHANGED Gate!gateVars
        BY <1>1, <2>1, <4>1
      <4> QED
        BY <4>2
    <3>5. CASE content[outFile.ino] # Partial
      <4>1. sasOut'[p] # NoData
        BY <1>0, <2>1, <3>1, <3>2, <3>3, NoDataAssumption DEF TypeOK, DataFile
      <4>2. Shelf' = [Shelf EXCEPT ![p] = [ino |-> newest[p], digest |-> d]]
        BY <1>0, <2>1, <3>3, <3>5, <4>1 DEF TypeOK, Shelf
      <4>3. Shelf[p] = NoData
        BY <2>1, <3>1 DEF Shelf
      <4>4. Acceptable(d)
        BY <1>4 DEF IInv, Vetting, OutCopy
      <4>5. \E q \in Paths : \E e \in {c \in Contents : Acceptable(c)} :
              Gate!Place(q, e)
        <5>1. PICK q \in Paths : q = p
          BY <2>1
        <5>2. PICK e \in {c \in Contents : Acceptable(c)} : e = d
          BY <2>1, <4>4
        <5>3. Gate!Place(q, e)
          BY <2>1, <4>2, <4>3, <4>4, <5>1, <5>2 DEF Gate!Place, Shelf
        <5> QED
          BY <5>3
      <4> QED
        BY <4>5 DEF Gate!GateNext
    <3> QED
      BY <3>4, <3>5
  <2> QED
    BY <2>2, <2>3
<1>5. ASSUME \/ \E p \in Paths, c \in Contents : Deposit(p, c)
             \/ \E i \in Inodes, c \in Contents : WriteInPlace(i, c)
             \/ \E p \in Paths : CollectReport(p)
             \/ In \/ InCrash \/ Transit \/ TransitCrash
             \/ OutStart \/ OutConnect \/ OutRecv \/ OutClose \/ OutDigest
             \/ OutReport \/ OutAbandon \/ OutCrash
             \/ UNCHANGED vars
      PROVE  UNCHANGED <<sasOut, newest>>
  BY <1>5 DEF Deposit, WriteInPlace, CollectReport,
              In, InCrash, InStart, InAccept, InList, InOpen, InSkip, InMark,
              InSend, InSendFails, InUnlink, InUnlinkFails,
              Transit, TransitCrash, TransitStart, TransitAccept, TransitRecv,
              TransitCheck, TransitSend, TransitSendFails, TransitExit,
              TransitDies,
              OutStart, OutConnect, OutRecv, OutClose, OutDigest, OutReport,
              OutAbandon, OutCrash, vars, outVars
<1> QED
  BY <1>1, <1>2, <1>3, <1>4, <1>5 DEF Next, Environment, Out, Gate!GateNext

(* Every behaviour of the pipeline is one of the gate: a file stands in     *)
(* sas_out only with a content the station may hand over, and a deposit     *)
(* never takes the place of a later one.                                    *)
THEOREM PipelineImplementsGate == Spec => RefinesGate
<1>1. Init => Gate!GateInit
  BY DEF Init, Gate!GateInit
<1>2. Init => IInv /\ Order /\ Copying
  BY InitIInv, OrderInit
<1>3. IInv /\ Order /\ Copying /\ [Next]_vars => (IInv /\ Order /\ Copying)'
  <2> SUFFICES ASSUME IInv, Order, Copying, [Next]_vars
               PROVE  (IInv /\ Order /\ Copying)'
    OBVIOUS
  <2>1. Order'
    BY OrderEnvironment, OrderIn, OrderTransit, OrderOut DEF Next
  <2> QED
    BY <2>1, IInvStep, CopyingStep
<1>4. IInv /\ Order /\ Copying /\ [Next]_vars => [Gate!GateNext]_(Gate!gateVars)
  BY GateStep
<1> QED
  BY <1>1, <1>2, <1>3, <1>4, PTL DEF Spec, RefinesGate, Gate!GateSpec
=============================================================================
