------------------------ MODULE KeysasServicesProofs ------------------------
(***************************************************************************)
(* What is proved of the services keysas-transit calls.                    *)
(*   KeysasVirusTotal, for every set of digests, every lifetime of the     *)
(*   cache, every number of engines and any number of deaths of the        *)
(*   service and of transit: the types, and VerdictIsFresh.                *)
(*   KeysasAnalyze, for every set of files, every MAX_DEPTH and MAX_FILES: *)
(*   the types, what the walk of an ISO image finds, and AnalysisIsKept.   *)
(***************************************************************************)
EXTENDS KeysasAnalyze, KeysasVirusTotal, FiniteSetTheorems, TLAPS

------------------------------------------------------------------------------
(* The operations on a service keep it one. *)

LEMMA NewServiceType ==
  ASSUME NEW Requests
  PROVE  NewService \in Service(Requests)
<1>1. << >> \in Seq(Requests)
  OBVIOUS
<1> QED
  BY <1>1 DEF NewService, Service

LEMMA ServiceOps ==
  ASSUME NEW Requests, NEW s \in Service(Requests)
  PROVE  /\ \A request \in Requests : Called(s, request) \in Service(Requests)
         /\ CanServe(s) => Served(s) \in Service(Requests) /\ Head(s.backlog) \in Requests
         /\ Answered(s) \in Service(Requests)
         /\ ServiceDied(s) \in Service(Requests)
         /\ ServiceStarted(s) \in Service(Requests)
         /\ CallerDied(s) \in Service(Requests)
<1>1. \A request \in Requests : Append(s.backlog, request) \in Seq(Requests)
  BY DEF Service
<1>2. s.backlog # << >> => Tail(s.backlog) \in Seq(Requests) /\ Head(s.backlog) \in Requests
  BY DEF Service
<1>3. << >> \in Seq(Requests)
  OBVIOUS
<1>4. \A request \in Requests : Called(s, request) \in Service(Requests)
  BY <1>1 DEF Service, Called
<1>5. CanServe(s) => Served(s) \in Service(Requests) /\ Head(s.backlog) \in Requests
  BY <1>2 DEF Service, CanServe, Served
<1>6. Answered(s) \in Service(Requests)
  BY DEF Service, Answered, IsAwaited
<1>7. ServiceDied(s) \in Service(Requests)
  BY <1>3 DEF Service, ServiceDied, NewService
<1>8. ServiceStarted(s) \in Service(Requests) /\ CallerDied(s) \in Service(Requests)
  BY DEF Service, ServiceStarted, CallerDied
<1> QED
  BY <1>4, <1>5, <1>6, <1>7, <1>8

(* The last request of a backlog: the one just added, and the one that is   *)
(* left when the first is taken.                                            *)
LEMMA LastRequest ==
  ASSUME NEW Requests, NEW q \in Seq(Requests)
  PROVE  /\ \A r \in Requests : /\ Append(q, r) # << >>
                                /\ Append(q, r)[Len(Append(q, r))] = r
         /\ q # << >> /\ Tail(q) = << >> => Head(q) = q[Len(q)]
         /\ q # << >> /\ Tail(q) # << >> => Tail(q)[Len(Tail(q))] = q[Len(q)]
<1>1. \A r \in Requests : Append(q, r) # << >> /\ Append(q, r)[Len(Append(q, r))] = r
  OBVIOUS
<1>2. ASSUME q # << >> PROVE Len(Tail(q)) = Len(q) - 1 /\ Len(q) \in Nat \ {0}
  BY <1>2
<1>3. ASSUME q # << >>, Tail(q) = << >> PROVE Head(q) = q[Len(q)]
  <2>1. Len(<< >>) = 0
    OBVIOUS
  <2>2. Len(Tail(q)) = 0
    BY <2>1, <1>3
  <2>3. Len(q) = 1
    BY <1>2, <1>3, <2>2
  <2> QED
    BY <2>3, <1>3
<1>4. ASSUME q # << >>, Tail(q) # << >> PROVE Tail(q)[Len(Tail(q))] = q[Len(q)]
  <2>1. Len(Tail(q)) \in 1..Len(Tail(q))
    BY <1>2, <1>4
  <2> QED
    BY <1>2, <1>4, <2>1
<1> QED
  BY <1>1, <1>3, <1>4

------------------------------------------------------------------------------
(* The type invariant. *)

LEMMA Bounds ==
  /\ MaxClock \in Nat /\ MaxDetections \in Nat /\ MaxOpinions \in Nat
  /\ VtMaxDeaths \in Nat /\ BlockThreshold \in Nat /\ CacheTtl \in Nat
  /\ 0 \in Detections /\ Detections \subseteq Nat /\ Opinions \ {Unknown} = Detections
  /\ Entries \subseteq [detections : Nat, inserted : Nat] /\ NoEntry \notin Entries
<1>1. /\ MaxClock \in Nat /\ MaxDetections \in Nat /\ MaxOpinions \in Nat
      /\ VtMaxDeaths \in Nat /\ BlockThreshold \in Nat /\ CacheTtl \in Nat
  BY VtAssumption
<1>2. 0 \in Detections /\ Detections \subseteq Nat
  BY <1>1 DEF Detections
<1>3. Opinions \ {Unknown} = Detections
  BY <1>2, VtAssumption DEF Opinions
<1>4. Entries \subseteq [detections : Nat, inserted : Nat]
  <2>1. 0..MaxClock \subseteq Nat
    BY <1>1
  <2> QED
    BY <1>2, <2>1 DEF Entries
<1> QED
  BY <1>1, <1>2, <1>3, <1>4, VtAssumption

LEMMA VtInitTypeOK == VtInit => VtTypeOK
<1> SUFFICES ASSUME VtInit PROVE VtTypeOK
  OBVIOUS
<1>1. vt \in Service(Digests) /\ vt.waiting = FALSE
  BY NewServiceType DEF VtInit, NewService
<1>2. held \in [Digests -> [Opinions -> 0..Never]]
  BY Bounds DEF VtInit, Never
<1>3. engines \in [Digests -> Opinions] /\ cache \in [Digests -> Entries \cup {NoEntry}]
  BY DEF VtInit, Opinions
<1>4. clock \in 0..MaxClock /\ asked \in 0..clock /\ query = NoQuery
  BY Bounds DEF VtInit
<1>5. opinions \in 0..MaxOpinions /\ vtDeaths \in 0..VtMaxDeaths
  BY Bounds DEF VtInit
<1>6. awaited = NoDigest /\ verdict = NoVerdict
  BY DEF VtInit
<1> QED
  BY <1>1, <1>2, <1>3, <1>4, <1>5, <1>6 DEF VtTypeOK

(* An answer goes to the digest transit waits for, or nowhere. *)
LEMMA ReplyTypeOK ==
  ASSUME VtTypeOK, vt.serving # NoRequest,
         NEW passed \in BOOLEAN, NEW detections \in Detections,
         NEW source \in {"service", "error"},
         Reply(passed, detections, source)
  PROVE  /\ vt' \in Service(Digests) /\ awaited' \in Digests \cup {NoDigest}
         /\ vt'.waiting = (awaited' # NoDigest)
         /\ verdict' # NoVerdict =>
              /\ verdict'.digest \in Digests /\ verdict'.pass \in BOOLEAN
              /\ verdict'.detections \in Detections
              /\ verdict'.source \in {"transit", "service", "error"}
<1>1. vt \in Service(Digests) /\ vt.waiting = (awaited # NoDigest)
  BY DEF VtTypeOK
<1>2. vt' \in Service(Digests) /\ vt'.waiting = (vt.waiting /\ ~IsAwaited(vt))
  BY <1>1, ServiceOps DEF Reply, Answered, Service
<1>3. CASE IsAwaited(vt)
  <2>1. vt.waiting /\ awaited \in Digests
    BY <1>1, <1>3 DEF IsAwaited, VtTypeOK
  <2> QED
    BY <1>2, <1>3, <2>1 DEF Reply, LookupEnds
<1>4. CASE ~IsAwaited(vt)
  BY <1>1, <1>2, <1>4 DEF Reply, VtTypeOK
<1> QED
  BY <1>3, <1>4

(* The steps of the world. *)
LEMMA WorldTypeOK ==
  VtTypeOK /\ (Tick \/ (\E d \in Digests : Opine(d))) => VtTypeOK'
<1> SUFFICES ASSUME VtTypeOK PROVE (Tick \/ (\E d \in Digests : Opine(d))) => VtTypeOK'
  OBVIOUS
<1>1. CASE Tick
  <2>1. clock' \in 0..MaxClock /\ 0..clock \subseteq 0..clock'
    BY <1>1, Bounds DEF Tick, VtTypeOK
  <2>2. held' \in [Digests -> [Opinions -> 0..Never]]
    BY <1>1, <2>1, Bounds DEF Tick, Hold, VtTypeOK, Never
  <2> QED
    BY <1>1, <2>1, <2>2 DEF Tick, VtTypeOK
<1>2. ASSUME NEW d \in Digests, Opine(d) PROVE VtTypeOK'
  <2>1. engines' \in [Digests -> Opinions]
    BY <1>2 DEF Opine, VtTypeOK, Opinions
  <2>2. clock \in 0..Never
    BY Bounds DEF VtTypeOK, Never
  <2>3. held' \in [Digests -> [Opinions -> 0..Never]]
    BY <1>2, <2>1, <2>2 DEF Opine, Hold, VtTypeOK
  <2>4. opinions' \in 0..MaxOpinions
    BY <1>2, Bounds DEF Opine, VtTypeOK
  <2> QED
    BY <1>2, <2>1, <2>3, <2>4 DEF Opine, VtTypeOK
<1> QED
  BY <1>1, <1>2

(* The steps of transit, and the deaths. *)
LEMMA TransitTypeOK ==
  VtTypeOK /\ ((\E d \in Digests : call_vt_analyzer(d)) \/ VtDies \/ VtStarts \/ LookerDies)
    => VtTypeOK'
<1> SUFFICES ASSUME VtTypeOK
             PROVE  (\E d \in Digests : call_vt_analyzer(d)) \/ VtDies \/ VtStarts \/ LookerDies
                      => VtTypeOK'
  OBVIOUS
<1>1. vt \in Service(Digests) /\ vt.waiting = (awaited # NoDigest)
  BY DEF VtTypeOK
<1>2. ASSUME NEW d \in Digests, call_vt_analyzer(d) PROVE VtTypeOK'
  <2>1. CASE vt.up
    <3>1. /\ Called(vt, d) \in Service(Digests) /\ Called(vt, d).waiting = TRUE
          /\ Called(vt, d).serving = vt.serving
      BY <1>1, ServiceOps DEF Called, Service
    <3>2. vt' = Called(vt, d)
      BY <1>2, <2>1 DEF call_vt_analyzer
    <3> QED
      BY <1>2, <2>1, <3>1, <3>2, VtAssumption DEF call_vt_analyzer, VtTypeOK
  <2>2. CASE ~vt.up
    <3>1. /\ awaited' = NoDigest /\ awaited = NoDigest
          /\ verdict' = [digest |-> d, pass |-> TRUE, detections |-> 0,
                         source |-> "transit"]
          /\ UNCHANGED <<vt, cache, query, engines, clock, opinions, vtDeaths, held,
                         asked>>
      BY <1>2, <2>2 DEF call_vt_analyzer, NotLookedUp, LookupEnds
    <3>2. 0 \in Detections
      BY Bounds
    <3> QED
      BY <3>1, <3>2 DEF VtTypeOK
  <2> QED
    BY <2>1, <2>2
<1>3. CASE VtDies
  <2>1. vt' \in Service(Digests) /\ vt'.waiting = FALSE
    BY <1>1, <1>3, ServiceOps DEF VtDies, ServiceDied, NewService
  <2>2. vtDeaths' \in 0..VtMaxDeaths
    BY <1>3, Bounds DEF VtDies, VtTypeOK
  <2>3. /\ awaited' = NoDigest
        /\ verdict' # NoVerdict =>
              /\ verdict'.digest \in Digests /\ verdict'.pass \in BOOLEAN
              /\ verdict'.detections \in Detections
              /\ verdict'.source \in {"transit", "service", "error"}
    <3>1. CASE vt.waiting
      <4>1. awaited \in Digests /\ 0 \in Detections
        BY <1>1, <3>1, Bounds DEF VtTypeOK
      <4>2. /\ awaited' = NoDigest
            /\ verdict' = [digest |-> awaited, pass |-> TRUE, detections |-> 0,
                           source |-> "transit"]
        BY <1>3, <3>1 DEF VtDies, NotLookedUp, LookupEnds
      <4> QED
        BY <4>1, <4>2
    <3>2. CASE ~vt.waiting
      BY <1>1, <1>3, <3>2 DEF VtDies, VtTypeOK
    <3> QED
      BY <3>1, <3>2
  <2> QED
    BY <1>3, <2>1, <2>2, <2>3 DEF VtDies, VtTypeOK
<1>4. CASE VtStarts
  <2>1. /\ vt' \in Service(Digests) /\ vt'.waiting = vt.waiting
        /\ vt'.serving = vt.serving
    BY <1>1, <1>4, ServiceOps DEF VtStarts, ServiceStarted, Service
  <2> QED
    BY <1>4, <2>1 DEF VtStarts, VtTypeOK
<1>5. CASE LookerDies
  <2>1. /\ vt' \in Service(Digests) /\ vt'.waiting = FALSE
        /\ vt'.serving = vt.serving
    BY <1>1, <1>5, ServiceOps DEF LookerDies, CallerDied, Service
  <2>2. vtDeaths' \in 0..VtMaxDeaths
    BY <1>5, Bounds DEF LookerDies, VtTypeOK
  <2> QED
    BY <1>5, <2>1, <2>2 DEF LookerDies, VtTypeOK
<1> QED
  BY <1>2, <1>3, <1>4, <1>5

(* The steps of the service. *)
LEMMA StepTypeOK == VtTypeOK /\ VtStep => VtTypeOK'
<1> SUFFICES ASSUME VtTypeOK, VtStep PROVE VtTypeOK'
  OBVIOUS
<1>1. vt \in Service(Digests) /\ vt.waiting = (awaited # NoDigest)
  BY DEF VtTypeOK
<1>2. vt.serving # NoRequest => vt.serving \in Digests
  BY <1>1 DEF Service
<1>3. clock \in 0..MaxClock /\ MaxClock \in Nat /\ clock \in 0..clock
  BY Bounds DEF VtTypeOK
<1>4. CASE VtServe
  <2>1. query = NoQuery
    BY <1>4 DEF VtServe, CanServe, VtTypeOK
  <2>2. vt' \in Service(Digests)
    BY <1>1, <1>4, ServiceOps DEF VtServe
  <2>3. vt'.waiting = vt.waiting
    BY <1>1, <1>4 DEF VtServe, Served, Service
  <2> QED
    BY <1>4, <2>1, <2>2, <2>3 DEF VtServe, VtTypeOK
<1>5. CASE LookupCached
  <2>1. vt.serving \in Digests /\ cache[vt.serving] \in Entries
    BY <1>2, <1>5 DEF LookupCached, VtTypeOK
  <2>2. cache[vt.serving].detections \in Detections
    BY <2>1 DEF Entries
  <2>3. (cache[vt.serving].detections < BlockThreshold) \in BOOLEAN
    OBVIOUS
  <2>4. Reply(cache[vt.serving].detections < BlockThreshold,
              cache[vt.serving].detections, "service")
    BY <1>5 DEF LookupCached
  <2>5. query = NoQuery /\ asked' = clock
        /\ UNCHANGED <<cache, query, engines, clock, opinions, vtDeaths, held>>
    BY <1>5 DEF LookupCached
  <2>6. vt.serving # NoRequest
    BY <1>5 DEF LookupCached
  <2> HIDE DEF Reply
  <2> QED
    BY <1>3, <2>2, <2>3, <2>4, <2>5, <2>6, ReplyTypeOK DEF VtTypeOK
<1>6. CASE LookupAsks
  <2>1. vt.serving # NoRequest /\ vt.serving \in Digests
    BY <1>2, <1>6 DEF LookupAsks
  <2>2. /\ cache' \in [Digests -> Entries \cup {NoEntry}]
        /\ cache'[vt.serving] = NoEntry
    BY <1>6, <2>1 DEF LookupAsks, VtTypeOK
  <2> QED
    BY <1>3, <1>6, <2>1, <2>2 DEF LookupAsks, VtTypeOK
<1>7. CASE LookupAnswered
  <2>1. vt.serving # NoRequest /\ vt.serving \in Digests /\ query \in 0..MaxClock
    BY <1>2, <1>3, <1>7 DEF LookupAnswered, VtTypeOK
  <2>2. PICK passed \in BOOLEAN, detections \in Detections :
          Reply(passed, detections, "service") /\ insert_cache(vt.serving, detections)
    <3>1. CASE engines[vt.serving] = Unknown
      BY <1>7, <3>1, Bounds DEF LookupAnswered
    <3>2. CASE engines[vt.serving] # Unknown
      <4>1. engines[vt.serving] \in Detections
        BY <2>1, <3>2, Bounds DEF VtTypeOK
      <4>2. (engines[vt.serving] < BlockThreshold) \in BOOLEAN
        OBVIOUS
      <4> QED
        BY <1>7, <3>2, <4>1, <4>2 DEF LookupAnswered
    <3> QED
      BY <3>1, <3>2
  <2>3. cache' \in [Digests -> Entries \cup {NoEntry}]
    BY <2>1, <2>2 DEF insert_cache, Entries, VtTypeOK
  <2>4. query' = NoQuery /\ UNCHANGED <<engines, clock, opinions, vtDeaths, held, asked>>
    BY <1>7 DEF LookupAnswered
  <2> QED
    BY <2>1, <2>2, <2>3, <2>4, ReplyTypeOK DEF VtTypeOK
<1>8. CASE LookupFails
  <2>1. vt.serving # NoRequest /\ FailOpen \in BOOLEAN /\ 0 \in Detections
    BY <1>8, Bounds, VtAssumption DEF LookupFails, VtTypeOK
  <2>2. /\ Reply(FailOpen, 0, "error") /\ query' = NoQuery
        /\ UNCHANGED <<cache, engines, clock, opinions, vtDeaths, held, asked>>
    BY <1>8 DEF LookupFails
  <2> QED
    BY <2>1, <2>2, ReplyTypeOK DEF VtTypeOK
<1> QED
  BY <1>4, <1>5, <1>6, <1>7, <1>8 DEF VtStep

LEMMA VtTypeStep == VtTypeOK /\ [VtNext]_vtVars => VtTypeOK'
<1> SUFFICES ASSUME VtTypeOK, [VtNext]_vtVars PROVE VtTypeOK'
  OBVIOUS
<1>1. CASE UNCHANGED vtVars
  BY <1>1 DEF vtVars, VtTypeOK
<1> QED
  BY <1>1, WorldTypeOK, TransitTypeOK, StepTypeOK DEF VtNext

(* Whatever dies and in whatever order requests and answers cross, the      *)
(* cache, the clock and the connection have values of their types, and a    *)
(* question in progress is about the request served.                        *)
THEOREM VtTypeCorrect == VtSpec => []VtTypeOK
  BY VtInitTypeOK, VtTypeStep, PTL DEF VtSpec

------------------------------------------------------------------------------
(* VerdictIsFresh.  Transit waits for the last request made, so that the    *)
(* answer it gets is about the digest it asked for; and what the cache      *)
(* holds was said by the engines after the time its entry has.              *)

Pending ==
  /\ vt.waiting /\ vt.backlog = << >> /\ vt.serving # NoRequest => vt.serving = awaited
  /\ vt.waiting /\ vt.backlog # << >> => vt.backlog[Len(vt.backlog)] = awaited
  /\ awaited # NoDigest => verdict = NoVerdict
  /\ verdict # NoVerdict /\ verdict.source = "service" =>
       vt.backlog = << >> /\ vt.serving = NoRequest

Count(o) == IF o = Unknown THEN 0 ELSE o

(* The engines said o of d at t or later.                                   *)
SaidSince(d, o, t) == held[d][o] # Never /\ held[d][o] >= t

Remembered ==
  /\ \A d \in Digests : held[d][engines[d]] = clock
  /\ \A d \in Digests, o \in Opinions : held[d][o] # Never => held[d][o] <= clock
  /\ \A d \in Digests : cache[d] # NoEntry =>
       \E o \in Opinions : /\ cache[d].detections = Count(o)
                           /\ SaidSince(d, o, cache[d].inserted)
  /\ query # NoQuery => asked = query

VtIInv == VtTypeOK /\ Pending /\ Remembered /\ VerdictIsFresh

LEMMA VtInitIInv == VtInit => VtIInv
<1> SUFFICES ASSUME VtInit PROVE VtIInv
  OBVIOUS
<1>1. VtTypeOK
  BY VtInitTypeOK
<1>2. Pending
  BY DEF VtInit, Pending, NewService
<1>3. Remembered
  <2>1. /\ \A d \in Digests, o \in Opinions : held[d][o] = IF o = Unknown THEN 0 ELSE Never
        /\ \A d \in Digests : engines[d] = Unknown /\ cache[d] = NoEntry
        /\ clock = 0 /\ query = NoQuery
    BY DEF VtInit
  <2>2. Unknown \in Opinions
    BY DEF Opinions
  <2> QED
    BY <2>1, <2>2 DEF Remembered
<1>4. VerdictIsFresh
  BY DEF VtInit, VerdictIsFresh
<1> QED
  BY <1>1, <1>2, <1>3, <1>4 DEF VtIInv

(* An answer transit gets is about the digest that was served. *)
LEMMA ReplyPending ==
  ASSUME VtTypeOK, Pending, vt.serving # NoRequest,
         NEW passed, NEW detections, NEW source,
         Reply(passed, detections, source)
  PROVE  /\ Pending'
         /\ \/ verdict' = verdict /\ (verdict # NoVerdict => verdict.source # "service")
            \/ verdict' = [digest |-> vt.serving, pass |-> passed,
                           detections |-> detections, source |-> source]
<1>1. /\ vt'.backlog = vt.backlog /\ vt'.serving = NoRequest
      /\ vt'.waiting = (vt.waiting /\ ~IsAwaited(vt))
  BY DEF VtTypeOK, Service, Reply, Answered
<1>2. verdict # NoVerdict => verdict.source # "service"
  BY DEF Pending
<1>3. CASE IsAwaited(vt)
  <2>1. vt.serving = awaited /\ vt'.waiting = FALSE /\ vt'.backlog = << >>
    BY <1>1, <1>3 DEF Pending, IsAwaited
  <2>2. awaited' = NoDigest
        /\ verdict' = [digest |-> vt.serving, pass |-> passed,
                       detections |-> detections, source |-> source]
    BY <1>3, <2>1 DEF Reply, LookupEnds
  <2> QED
    BY <1>1, <2>1, <2>2 DEF Pending
<1>4. CASE ~IsAwaited(vt)
  <2>1. UNCHANGED <<awaited, verdict>> /\ vt'.waiting = vt.waiting
    BY <1>1, <1>4 DEF Reply, VtTypeOK, Service
  <2> QED
    BY <1>1, <1>2, <2>1 DEF Pending
<1> QED
  BY <1>3, <1>4

LEMMA PendingStep == VtTypeOK /\ Pending /\ [VtNext]_vtVars => Pending'
<1> SUFFICES ASSUME VtTypeOK, Pending, [VtNext]_vtVars PROVE Pending'
  OBVIOUS
<1>1. vt \in Service(Digests) /\ vt.waiting = (awaited # NoDigest)
  BY DEF VtTypeOK
<1>2. vt.backlog \in Seq(Digests)
  BY <1>1 DEF Service
<1>3. ASSUME UNCHANGED <<vt, awaited, verdict>> PROVE Pending'
  BY <1>3 DEF Pending
<1>4. ASSUME NEW d \in Digests, call_vt_analyzer(d) PROVE Pending'
  <2>1. awaited = NoDigest
    BY <1>4 DEF call_vt_analyzer
  <2>2. CASE vt.up
    <3>1. Append(vt.backlog, d) # << >>
          /\ Append(vt.backlog, d)[Len(Append(vt.backlog, d))] = d
      BY <1>2, LastRequest
    <3>2. Called(vt, d).backlog = Append(vt.backlog, d)
      BY <1>1 DEF Called, Service
    <3>3. vt' = Called(vt, d) /\ awaited' = d /\ verdict' = NoVerdict
      BY <1>4, <2>2 DEF call_vt_analyzer
    <3> QED
      BY <3>1, <3>2, <3>3 DEF Pending
  <2>3. CASE ~vt.up
    <3>1. /\ vt' = vt /\ awaited' = NoDigest
          /\ verdict' = [digest |-> d, pass |-> TRUE, detections |-> 0,
                         source |-> "transit"]
      BY <1>4, <2>3 DEF call_vt_analyzer, NotLookedUp, LookupEnds
    <3>2. verdict'.source # "service" /\ vt.waiting = FALSE
      BY <1>1, <2>1, <3>1
    <3> QED
      BY <3>1, <3>2 DEF Pending
  <2> QED
    BY <2>2, <2>3
<1>5. CASE VtDies
  <2>1. /\ vt'.waiting = FALSE /\ vt'.backlog = << >> /\ vt'.serving = NoRequest
    BY <1>5 DEF VtDies, ServiceDied, NewService
  <2>2. awaited' # NoDigest => verdict' = NoVerdict
    BY <1>1, <1>5 DEF VtDies, NotLookedUp, LookupEnds, Pending
  <2> QED
    BY <2>1, <2>2 DEF Pending
<1>6. CASE VtStarts
  <2>1. /\ vt'.waiting = vt.waiting /\ vt'.backlog = vt.backlog
        /\ vt'.serving = vt.serving /\ UNCHANGED <<awaited, verdict>>
    BY <1>1, <1>6 DEF VtStarts, ServiceStarted, Service
  <2> QED
    BY <2>1 DEF Pending
<1>7. CASE LookerDies
  <2>1. /\ vt'.waiting = FALSE /\ awaited' = NoDigest /\ verdict' = NoVerdict
    BY <1>1, <1>7 DEF LookerDies, CallerDied, Service, Pending
  <2> QED
    BY <2>1 DEF Pending
<1>8. CASE VtServe
  <2>1. /\ vt.backlog # << >> /\ vt.serving = NoRequest
        /\ vt' = Served(vt) /\ UNCHANGED <<awaited, verdict>>
    BY <1>8 DEF VtServe, CanServe
  <2>2. /\ Served(vt).waiting = vt.waiting /\ Served(vt).serving = Head(vt.backlog)
        /\ Served(vt).backlog = Tail(vt.backlog)
    BY <1>1 DEF Served, Service
  <2>3. /\ Tail(vt.backlog) = << >> =>
             Head(vt.backlog) = vt.backlog[Len(vt.backlog)]
        /\ Tail(vt.backlog) # << >> =>
             Tail(vt.backlog)[Len(Tail(vt.backlog))] = vt.backlog[Len(vt.backlog)]
    BY <1>2, <2>1, LastRequest
  <2> QED
    BY <2>1, <2>2, <2>3 DEF Pending
<1>9. CASE LookupCached
  BY <1>9, ReplyPending DEF LookupCached
<1>10. CASE LookupAsks
  BY <1>3, <1>10 DEF LookupAsks
<1>11. CASE LookupAnswered
  <2>1. vt.serving # NoRequest
    BY <1>11 DEF LookupAnswered, VtTypeOK
  <2> QED
    BY <1>11, <2>1, ReplyPending DEF LookupAnswered
<1>12. CASE LookupFails
  <2>1. vt.serving # NoRequest
    BY <1>12 DEF LookupFails, VtTypeOK
  <2> QED
    BY <1>12, <2>1, ReplyPending DEF LookupFails
<1>13. CASE Tick \/ (\E d \in Digests : Opine(d)) \/ UNCHANGED vtVars
  BY <1>3, <1>13 DEF Tick, Opine, vtVars
<1> QED
  BY <1>4, <1>5, <1>6, <1>7, <1>8, <1>9, <1>10, <1>11, <1>12, <1>13
     DEF VtNext, VtStep

(* The engines' words are noted with the time they are last said at.        *)
LEMMA HoldKeeps ==
  ASSUME VtTypeOK, Remembered, Tick \/ (\E d \in Digests : Opine(d))
  PROVE  /\ clock \in Nat /\ clock' \in Nat /\ clock' >= clock /\ clock' # Never
         /\ \A d \in Digests, o \in Opinions : held[d][o] \in Nat /\ held'[d][o] \in Nat
         /\ \A d \in Digests : held'[d][engines'[d]] = clock'
         /\ \A d \in Digests, o \in Opinions :
              held[d][o] # Never => held'[d][o] # Never /\ held'[d][o] >= held[d][o]
         /\ \A d \in Digests, o \in Opinions : held'[d][o] # Never => held'[d][o] <= clock'
<1>1. /\ clock \in Nat /\ clock' \in Nat /\ clock' >= clock /\ clock' <= MaxClock
      /\ clock' # Never /\ Never \in Nat
  BY Bounds DEF VtTypeOK, Tick, Opine, Never
<1>2. engines' \in [Digests -> Opinions]
  BY DEF VtTypeOK, Tick, Opine, Opinions
<1>3. Hold(clock', engines')
  BY DEF Tick, Opine
<1>4. \A d \in Digests, o \in Opinions : held[d][o] \in Nat
  BY <1>1 DEF VtTypeOK
<1>5. \A d \in Digests, o \in Opinions :
        held'[d][o] = IF o = engines'[d] THEN clock' ELSE held[d][o]
  BY <1>2, <1>3 DEF Hold, VtTypeOK
<1> QED
  BY <1>1, <1>2, <1>4, <1>5 DEF Remembered

LEMMA RememberedStep == VtTypeOK /\ Remembered /\ [VtNext]_vtVars => Remembered'
<1> SUFFICES ASSUME VtTypeOK, Remembered, [VtNext]_vtVars PROVE Remembered'
  OBVIOUS
<1>1. /\ clock \in Nat /\ engines \in [Digests -> Opinions]
      /\ cache \in [Digests -> Entries \cup {NoEntry}]
  BY Bounds DEF VtTypeOK
<1>2. \A d \in Digests : cache[d] # NoEntry => cache[d].inserted \in Nat
  BY <1>1, Bounds
<1>3. CASE Tick \/ (\E d \in Digests : Opine(d))
  <2>1. UNCHANGED <<cache, query, asked>>
    BY <1>3 DEF Tick, Opine
  <2>2. \A d \in Digests, o \in Opinions : \A t \in Nat :
          SaidSince(d, o, t) => SaidSince(d, o, t)'
    BY <1>3, HoldKeeps DEF SaidSince
  <2>3. \A d \in Digests : cache'[d] # NoEntry =>
          \E o \in Opinions : (/\ cache[d].detections = Count(o)
                               /\ SaidSince(d, o, cache[d].inserted))'
    <3>1. ASSUME NEW d \in Digests, cache[d] # NoEntry
          PROVE  \E o \in Opinions : (/\ cache[d].detections = Count(o)
                                      /\ SaidSince(d, o, cache[d].inserted))'
      <4>1. PICK o \in Opinions : /\ cache[d].detections = Count(o)
                                  /\ SaidSince(d, o, cache[d].inserted)
        BY <3>1 DEF Remembered
      <4>2. SaidSince(d, o, cache[d].inserted)'
        BY <1>2, <2>1, <2>2, <3>1, <4>1
      <4> QED
        BY <2>1, <4>1, <4>2
    <3> QED
      BY <2>1, <3>1
  <2> QED
    BY <1>3, <2>1, <2>3, HoldKeeps DEF Remembered
<1>4. ASSUME UNCHANGED <<cache, engines, clock, held>>, query' # NoQuery => asked' = query'
      PROVE  Remembered'
  BY <1>4 DEF Remembered, SaidSince
<1>5. CASE VtDies
  <2>1. /\ \A d \in Digests : cache'[d] = NoEntry
        /\ query' = NoQuery /\ UNCHANGED <<engines, clock, held>>
    BY <1>5 DEF VtDies
  <2> QED
    BY <2>1 DEF Remembered
<1>6. CASE LookupAsks
  <2>1. /\ \A d \in Digests : cache'[d] = NoEntry \/ cache'[d] = cache[d]
        /\ query' = asked' /\ UNCHANGED <<engines, clock, held>>
    BY <1>1, <1>6 DEF LookupAsks
  <2> QED
    BY <2>1 DEF Remembered, SaidSince
<1>7. CASE LookupAnswered
  <2>1. /\ vt.serving \in Digests /\ query \in Nat /\ query <= clock
    BY <1>1, <1>7 DEF LookupAnswered, VtTypeOK, Service
  <2>2. insert_cache(vt.serving, Count(engines[vt.serving]))
    BY <1>7 DEF LookupAnswered, Count
  <2>3. UNCHANGED <<engines, clock, held>> /\ query' = NoQuery
    BY <1>7 DEF LookupAnswered
  <2>4. SaidSince(vt.serving, engines[vt.serving], query)
    BY <1>1, <2>1, Bounds DEF Remembered, SaidSince, Never, VtTypeOK
  <2>5. /\ cache'[vt.serving].detections = Count(engines[vt.serving])
        /\ cache'[vt.serving].inserted = query
        /\ \A d \in Digests \ {vt.serving} : cache'[d] = cache[d]
    BY <1>1, <2>1, <2>2 DEF insert_cache
  <2> QED
    BY <1>1, <2>1, <2>3, <2>4, <2>5 DEF Remembered, SaidSince
<1>8. CASE \/ \E d \in Digests : call_vt_analyzer(d)
           \/ VtServe \/ VtStarts \/ LookerDies \/ UNCHANGED vtVars
  BY <1>4, <1>8
     DEF Remembered, call_vt_analyzer, VtServe, VtStarts, LookerDies, vtVars
<1>9. CASE LookupCached \/ LookupFails
  BY <1>4, <1>9 DEF Remembered, LookupCached, LookupFails
<1> QED
  BY <1>3, <1>5, <1>6, <1>7, <1>8, <1>9 DEF VtNext, VtStep

(* What justified a verdict justifies it still, while the service has not   *)
(* begun another answer.                                                    *)
LEMMA FreshStays ==
  ASSUME VtTypeOK, VerdictIsFresh, UNCHANGED <<verdict, asked>>,
         \/ UNCHANGED held
         \/ Remembered /\ (Tick \/ \E d \in Digests : Opine(d))
  PROVE  VerdictIsFresh'
<1>1. asked \in Nat /\ CacheTtl \in Nat
  BY Bounds DEF VtTypeOK
<1>2. verdict # NoVerdict => verdict.digest \in Digests
  BY DEF VtTypeOK
<1>3. \A d \in Digests : Lately(d) \subseteq Lately(d)'
  <2>1. CASE UNCHANGED held
    BY <2>1 DEF Lately
  <2>2. CASE Remembered /\ (Tick \/ \E d \in Digests : Opine(d))
    BY <1>1, <2>2, HoldKeeps DEF Lately
  <2> QED
    BY <2>1, <2>2
<1> QED
  BY <1>2, <1>3 DEF VerdictIsFresh

(* A verdict that is not the service's does not depend on what was asked.   *)
LEMMA FreshOthers ==
  ASSUME verdict # NoVerdict => verdict.source # "service",
         VerdictIsFresh, UNCHANGED verdict
  PROVE  VerdictIsFresh'
BY DEF VerdictIsFresh

LEMMA FreshReply ==
  ASSUME VtIInv, vt.serving # NoRequest,
         NEW CONSTANT d \in Digests, d = vt.serving,
         NEW CONSTANT o \in Opinions, NEW passed, NEW detections,
         Reply(passed, detections, "service"),
         passed = (o = Unknown \/ o < BlockThreshold), detections = Count(o),
         o \in Lately(d)'
  PROVE  VerdictIsFresh'
<1>1. VtTypeOK /\ Pending /\ VerdictIsFresh
  BY DEF VtIInv
<1>2. CASE verdict' = verdict /\ (verdict # NoVerdict => verdict.source # "service")
  BY <1>1, <1>2, FreshOthers
<1>3. CASE verdict' = [digest |-> vt.serving, pass |-> passed,
                       detections |-> detections, source |-> "service"]
  <2>1. /\ verdict'.digest = d /\ verdict'.source = "service"
        /\ verdict'.detections = (IF o = Unknown THEN 0 ELSE o)
        /\ verdict'.pass = (o = Unknown \/ o < BlockThreshold)
    BY <1>3 DEF Count
  <2> QED
    BY <2>1 DEF VerdictIsFresh
<1> QED
  BY <1>1, <1>2, <1>3, ReplyPending

LEMMA FreshStep ==
  ASSUME BlockThreshold > 0
  PROVE  VtIInv /\ [VtNext]_vtVars => VerdictIsFresh'
<1> SUFFICES ASSUME VtIInv, [VtNext]_vtVars PROVE VerdictIsFresh'
  OBVIOUS
<1>1. VtTypeOK /\ Pending /\ Remembered /\ VerdictIsFresh
  BY DEF VtIInv
<1>2. /\ clock \in Nat /\ CacheTtl \in Nat /\ BlockThreshold \in Nat /\ clock # Never
      /\ \A d \in Digests, o \in Opinions : held[d][o] \in Nat
  BY <1>1, Bounds DEF VtTypeOK, Never
<1>3. CASE Tick \/ (\E d \in Digests : Opine(d))
  <2>1. UNCHANGED <<verdict, asked>>
    BY <1>3 DEF Tick, Opine
  <2> QED
    BY <1>1, <1>3, <2>1, FreshStays
<1>4. ASSUME NEW d \in Digests, call_vt_analyzer(d) PROVE VerdictIsFresh'
  <2>1. CASE vt.up
    BY <1>4, <2>1 DEF call_vt_analyzer, VerdictIsFresh
  <2>2. CASE ~vt.up
    <3>1. verdict' = [digest |-> d, pass |-> TRUE, detections |-> 0,
                     source |-> "transit"]
      BY <1>4, <2>2 DEF call_vt_analyzer, NotLookedUp, LookupEnds
    <3> QED
      BY <3>1 DEF VerdictIsFresh
  <2> QED
    BY <2>1, <2>2
<1>5. CASE VtDies
  <2>1. CASE vt.waiting
    <3>1. verdict' = [digest |-> awaited, pass |-> TRUE, detections |-> 0,
                     source |-> "transit"]
      BY <1>5, <2>1 DEF VtDies, NotLookedUp, LookupEnds
    <3> QED
      BY <3>1 DEF VerdictIsFresh
  <2>2. CASE ~vt.waiting
    BY <1>1, <1>5, <2>2, FreshStays DEF VtDies
  <2> QED
    BY <2>1, <2>2
<1>6. CASE VtServe \/ VtStarts \/ LookerDies
  BY <1>1, <1>6, FreshStays DEF VtServe, VtStarts, LookerDies
<1>7. CASE LookupAsks
  <2>1. (verdict # NoVerdict => verdict.source # "service") /\ UNCHANGED verdict
    BY <1>1, <1>7 DEF LookupAsks, Pending
  <2> QED
    BY <1>1, <2>1, FreshOthers
<1>8. CASE LookupCached
  <2>0. vt.serving # NoRequest /\ vt.serving \in Digests
    BY <1>1, <1>8 DEF LookupCached, VtTypeOK, Service
  <2> PICK d \in Digests : d = vt.serving
    BY <2>0
  <2>1. /\ cache[d] \in Entries /\ cache[d] # NoEntry
        /\ clock - cache[d].inserted < CacheTtl
        /\ Reply(cache[d].detections < BlockThreshold, cache[d].detections, "service")
        /\ asked' = clock /\ UNCHANGED held
    BY <1>1, <1>8 DEF LookupCached, VtTypeOK
  <2>2. PICK o \in Opinions : cache[d].detections = Count(o)
                              /\ SaidSince(d, o, cache[d].inserted)
    BY <1>1, <2>1 DEF Remembered
  <2>3. o \in Lately(d)'
    <3>1. cache[d].inserted \in Nat
      BY <2>1, Bounds
    <3>2. held[d][o] + CacheTtl > clock
      BY <1>2, <2>1, <2>2, <3>1 DEF SaidSince
    <3> QED
      BY <2>1, <2>2, <3>2 DEF Lately, SaidSince
  <2>4. (cache[d].detections < BlockThreshold) = (o = Unknown \/ o < BlockThreshold)
    BY <1>2, <2>2 DEF Count
  <2> QED
    BY <2>0, <2>1, <2>2, <2>3, <2>4, FreshReply
<1>9. CASE LookupAnswered
  <2>0. vt.serving # NoRequest /\ vt.serving \in Digests
    BY <1>1, <1>9 DEF LookupAnswered, VtTypeOK, Service
  <2> PICK d \in Digests : d = vt.serving
    BY <2>0
  <2> PICK o \in Opinions : o = engines[d]
    BY <1>1 DEF VtTypeOK
  <2>1. /\ query \in Nat /\ query <= clock /\ asked = query
        /\ UNCHANGED <<held, asked>>
    BY <1>1, <1>2, <1>9 DEF LookupAnswered, VtTypeOK, Remembered
  <2>2. o \in Lately(d)'
    BY <1>1, <1>2, <2>1 DEF Lately, Remembered
  <2>3. Reply(o = Unknown \/ o < BlockThreshold, Count(o), "service")
    <3>1. CASE o = Unknown
      <4>1. (o = Unknown \/ o < BlockThreshold) = TRUE /\ Count(o) = 0
        BY <3>1 DEF Count
      <4> QED
        BY <1>9, <3>1, <4>1 DEF LookupAnswered
    <3>2. CASE o # Unknown
      <4>1. (o = Unknown \/ o < BlockThreshold) = (o < BlockThreshold) /\ Count(o) = o
        BY <3>2 DEF Count
      <4> QED
        BY <1>9, <3>2, <4>1 DEF LookupAnswered
    <3> QED
      BY <3>1, <3>2
  <2> QED
    BY <2>0, <2>1, <2>2, <2>3, FreshReply
<1>10. CASE LookupFails
  <2>1. vt.serving # NoRequest /\ Reply(FailOpen, 0, "error")
    BY <1>1, <1>10 DEF LookupFails, VtTypeOK
  <2>2. CASE verdict' = verdict /\ (verdict # NoVerdict => verdict.source # "service")
    BY <1>1, <2>2, FreshOthers
  <2>3. CASE verdict' = [digest |-> vt.serving, pass |-> FailOpen,
                         detections |-> 0, source |-> "error"]
    BY <2>3 DEF VerdictIsFresh
  <2> QED
    BY <1>1, <2>1, <2>2, <2>3, ReplyPending
<1>11. CASE UNCHANGED vtVars
  BY <1>1, <1>11, FreshStays DEF vtVars
<1> QED
  BY <1>3, <1>4, <1>5, <1>6, <1>7, <1>8, <1>9, <1>10, <1>11 DEF VtNext, VtStep

(* For every cache lifetime, and any number of changes, errors and deaths,  *)
(* lookup answers with what the engines said less than the lifetime before  *)
(* it was asked.  The threshold is not 0: the cached answer for an unknown  *)
(* digest, no detection, would then block what its first lookup let pass.   *)
THEOREM VtVerdictIsFresh ==
  ASSUME BlockThreshold > 0
  PROVE  VtSpec => []VerdictIsFresh
<1>1. VtIInv /\ [VtNext]_vtVars => VtIInv'
  BY VtTypeStep, PendingStep, RememberedStep, FreshStep DEF VtIInv
<1>2. VtIInv => VerdictIsFresh
  BY DEF VtIInv
<1> QED
  BY VtInitIInv, <1>1, <1>2, PTL DEF VtSpec

------------------------------------------------------------------------------
(* The walk of an ISO image by keysas-analyze: that walk_dir finds the      *)
(* files of every directory within MAX_DEPTH steps, and no other, before it *)
(* has found MAX_FILES.  walk_dir, the fold over the records of a directory *)
(* and InReach are recursive functions: each is shown to exist, and what is *)
(* claimed of it to go from one number to the next, by the least number it  *)
(* would not hold of.                                                       *)

(* A set of naturals has a least element: what is proved of a number from   *)
(* the numbers below it holds of all.                                       *)
LEMMA LeastNumber ==
  ASSUME NEW S, S \subseteq Nat, S # {}
  PROVE  \E n \in S : \A m \in S : n <= m
<1> DEFINE R == {ss \in Nat \X Nat : ss[1] < ss[2]}
<1>1. IsWellFoundedOn(R, Nat)
  BY NatLessThanWellFounded, Zenon DEF OpToRel
<1> HIDE DEF R
<1>2. PICK n \in S : \A m \in S : ~ (<<m, n>> \in R)
  BY <1>1, WFMin
<1>3. ASSUME NEW m \in S PROVE n <= m
  <2>1. m \in Nat /\ n \in Nat
    OBVIOUS
  <2>2. m < n => <<m, n>> \in R
    <3> DEFINE ss == <<m, n>>
    <3>1. ss \in Nat \X Nat /\ ss[1] = m /\ ss[2] = n
      BY <2>1
    <3> HIDE DEF ss
    <3>2. m < n => ss \in R
      BY <3>1 DEF R
    <3> QED
      BY <3>2 DEF ss
  <2>3. m < n \/ n <= m
    BY <2>1
  <2> QED
    BY <1>2, <2>2, <2>3
<1> QED
  BY <1>3

FileLists == Seq(STRING)

(* What one record makes of the files found. *)
Took(tree, enter, found, e) ==
  IF e \in DOMAIN tree THEN enter[e][found] ELSE Append(found, e)

IsEnter(tree, enter) == enter \in [DOMAIN tree -> [FileLists -> FileLists]]

IsTree(tree) == "root" \in DOMAIN tree /\ \A d \in DOMAIN tree : tree[d] \in FileLists

(* FoldLeft over the records, as a recursion over sets of their indices: a  *)
(* set is the set without its greatest index, and that index.               *)
FoldsOver(tree, enter, files, records, indices, it) ==
  it = [s \in SUBSET indices |->
          IF s = {} THEN files
          ELSE Took(tree, enter, it[s \ {Max(s)}], records[Max(s)])]

LEMMA RecordsFold ==
  ASSUME NEW tree, NEW enter, NEW files, NEW records
  PROVE Records(tree, enter, files, records)
          = (CHOOSE it : FoldsOver(tree, enter, files, records, DOMAIN records, it))[DOMAIN records]
BY Zenon DEF Records, FoldLeft, MapThenFoldSet, FoldsOver, Took

Level(tree, enter, depth) ==
  [d \in DOMAIN tree |-> [files \in Seq(STRING) |->
     IF depth > MAX_DEPTH \/ Len(files) >= MAX_FILES THEN files
     ELSE Records(tree, enter, files, tree[d])]]

IsWalk(tree, w) ==
  w = [depth \in 0 .. (MAX_DEPTH + 1) |-> Level(tree, w[depth + 1], depth)]

LEMMA WalkIs ==
  ASSUME NEW tree
  PROVE walk_dir(tree, "root") = (CHOOSE w : IsWalk(tree, w))[0]["root"][<< >>]
BY Zenon DEF walk_dir, IsWalk, Level

IsReach(tree, after) ==
  after = [n \in Nat |->
        IF n = 0 THEN {"root"}
        ELSE after[n - 1] \cup
             {d \in DOMAIN tree : \E p \in after[n - 1] : d \in ToSet(tree[p])}]

LEMMA ReachIs ==
  ASSUME NEW tree
  PROVE InReach(tree) = (CHOOSE after : IsReach(tree, after))[MAX_DEPTH]
BY Zenon DEF InReach, IsReach

LEMMA MaxIsMember ==
  ASSUME NEW n \in Nat, NEW s \in SUBSET (1 .. n), s # {}
  PROVE  Max(s) \in s /\ \A i \in s : i <= Max(s)
<1> DEFINE B == {m \in Nat : \E i \in s : m = n - i}
<1>1. PICK i \in s : TRUE
  OBVIOUS
<1>2. n - i \in B
  OBVIOUS
<1>3. PICK m \in B : \A k \in B : m <= k
  BY <1>2, LeastNumber
<1>4. PICK j \in s : m = n - j
  OBVIOUS
<1>5. \A k \in s : k <= j
  <2> TAKE k \in s
  <2>1. n - k \in B
    OBVIOUS
  <2> HIDE DEF B
  <2> QED
    BY <1>3, <1>4, <2>1
<1>6. \E x \in s : \A y \in s : x >= y
  BY <1>5
<1> QED
  BY <1>6 DEF Max

LEMMA MaxIsLast ==
  ASSUME NEW n \in Nat, NEW s \in SUBSET (1 .. n), n \in s
  PROVE  Max(s) = n
<1>1. Max(s) \in s /\ \A i \in s : i <= Max(s)
  <2>1. s # {}
    OBVIOUS
  <2> QED
    BY <2>1, MaxIsMember
<1>2. Max(s) \in 1 .. n /\ n <= Max(s)
  BY <1>1
<1> QED
  BY <1>2

LEMMA FoldExists ==
  ASSUME NEW tree, NEW enter, NEW files, NEW records \in FileLists
  PROVE  \E it : FoldsOver(tree, enter, files, records, DOMAIN records, it)
<1> DEFINE B == {n \in 0 .. Len(records) :
                   ~ \E it : FoldsOver(tree, enter, files, records, 1 .. n, it)}
<1>0. Len(records) \in Nat /\ DOMAIN records = 1 .. Len(records)
  BY DEF FileLists
<1> SUFFICES ASSUME B # {} PROVE FALSE
  BY <1>0
<1>1. B \subseteq Nat
  BY <1>0
<1> HIDE DEF B
<1>2. PICK n \in B : \A m \in B : n <= m
  BY <1>1, LeastNumber
<1>3. n \in 0 .. Len(records) /\ ~ \E it : FoldsOver(tree, enter, files, records, 1 .. n, it)
  BY DEF B
<1>4. CASE n = 0
  <2>1. SUBSET (1 .. n) = {{}}
    BY <1>4
  <2>2. FoldsOver(tree, enter, files, records, 1 .. n, [s \in SUBSET (1 .. n) |-> files])
    BY <2>1 DEF FoldsOver
  <2> QED
    BY <1>3, <2>2
<1>5. CASE n # 0
  <2>1. n - 1 \in 0 .. Len(records) /\ n - 1 \notin B
    BY <1>0, <1>2, <1>3, <1>5
  <2>2. PICK it : FoldsOver(tree, enter, files, records, 1 .. (n - 1), it)
    BY <2>1 DEF B
  <2> DEFINE it2 == [s \in SUBSET (1 .. n) |->
                       IF n \in s THEN Took(tree, enter, it[s \ {n}], records[n])
                       ELSE it[s]]
  <2>3. ASSUME NEW s \in SUBSET (1 .. n)
        PROVE  it2[s] = IF s = {} THEN files
                        ELSE Took(tree, enter, it2[s \ {Max(s)}], records[Max(s)])
    <3>1. CASE n \in s
      <4>1. Max(s) = n
        <5>1. n \in Nat
          BY <1>0, <1>3
        <5> QED
          BY <3>1, <5>1, MaxIsLast
      <4>2. it2[s \ {n}] = it[s \ {n}]
        OBVIOUS
      <4> QED
        BY <3>1, <4>1, <4>2
    <3>2. CASE n \notin s
      <4>1. s \in SUBSET (1 .. (n - 1))
        BY <1>0, <1>3, <3>2
      <4>2. it[s] = IF s = {} THEN files
                    ELSE Took(tree, enter, it[s \ {Max(s)}], records[Max(s)])
        BY <2>2, <4>1 DEF FoldsOver
      <4>3. it2[s] = it[s] /\ it2[s \ {Max(s)}] = it[s \ {Max(s)}]
        BY <3>2
      <4> QED
        BY <4>2, <4>3
    <3> QED
      BY <3>1, <3>2
  <2>4. FoldsOver(tree, enter, files, records, 1 .. n, it2)
    BY <2>3 DEF FoldsOver
  <2> QED
    BY <1>3, <2>4
<1> QED
  BY <1>4, <1>5

(* The files found after each record. *)
IsChain(tree, enter, files, records, chain) ==
  /\ chain \in [0 .. Len(records) -> FileLists]
  /\ chain[0] = files
  /\ \A i \in 1 .. Len(records) : chain[i] = Took(tree, enter, chain[i - 1], records[i])

LEMMA AppendType ==
  ASSUME NEW S, NEW q \in Seq(S), NEW e \in S
  PROVE  Append(q, e) \in Seq(S)
OBVIOUS

LEMMA TookType ==
  ASSUME NEW tree, NEW enter, IsEnter(tree, enter), NEW found \in FileLists, NEW e \in STRING
  PROVE  Took(tree, enter, found, e) \in FileLists
<1>1. Append(found, e) \in FileLists
  BY AppendType, Zenon DEF FileLists
<1>2. ASSUME e \in DOMAIN tree PROVE enter[e][found] \in FileLists
  <2>1. enter[e] \in [FileLists -> FileLists]
    BY <1>2 DEF IsEnter
  <2> QED
    BY <2>1
<1> QED
  BY <1>1, <1>2 DEF Took

LEMMA RecordsChain ==
  ASSUME NEW tree, NEW enter, IsEnter(tree, enter), NEW files \in FileLists,
         NEW records \in FileLists
  PROVE  \E chain : /\ IsChain(tree, enter, files, records, chain)
                    /\ Records(tree, enter, files, records) = chain[Len(records)]
<1>0. /\ Len(records) \in Nat /\ DOMAIN records = 1 .. Len(records)
      /\ \A i \in 1 .. Len(records) : records[i] \in STRING
  BY DEF FileLists
<1> DEFINE it == CHOOSE it : FoldsOver(tree, enter, files, records, DOMAIN records, it)
<1>1. FoldsOver(tree, enter, files, records, DOMAIN records, it)
  BY FoldExists
<1>2. Records(tree, enter, files, records) = it[1 .. Len(records)]
  BY <1>0, RecordsFold
<1> HIDE DEF it
<1>3. \A i \in 0 .. Len(records) : 1 .. i \in SUBSET DOMAIN records
  BY <1>0
<1>4. it[1 .. 0] = files
  <2>1. 1 .. 0 = {}
    OBVIOUS
  <2> QED
    BY <1>1, <2>1 DEF FoldsOver
<1>5. ASSUME NEW i \in 1 .. Len(records)
      PROVE  it[1 .. i] = Took(tree, enter, it[1 .. (i - 1)], records[i])
  <2>1. i \in Nat \ {0} /\ i \in 1 .. i
    BY <1>0
  <2>2. 1 .. i # {} /\ (1 .. i) \ {i} = 1 .. (i - 1)
    <3>1. \A k \in Int : k \in 1 .. i /\ k # i <=> k \in 1 .. (i - 1)
      BY <2>1
    <3>2. 1 .. i \subseteq Int /\ 1 .. (i - 1) \subseteq Int
      OBVIOUS
    <3> QED
      BY <2>1, <3>1, <3>2
  <2>5. Max(1 .. i) = i
    <3>1. 1 .. i \in SUBSET (1 .. i)
      OBVIOUS
    <3> QED
      BY <2>1, <3>1, MaxIsLast
  <2>3. 1 .. i \in SUBSET DOMAIN records
    BY <1>0, <1>3
  <2>4. it[1 .. i] = Took(tree, enter, it[(1 .. i) \ {Max(1 .. i)}], records[Max(1 .. i)])
    BY <1>1, <2>2, <2>3 DEF FoldsOver
  <2> QED
    BY <2>2, <2>4, <2>5
<1>6. \A i \in 0 .. Len(records) : it[1 .. i] \in FileLists
  <2> DEFINE B == {i \in 0 .. Len(records) : it[1 .. i] \notin FileLists}
  <2> SUFFICES ASSUME B # {} PROVE FALSE
    OBVIOUS
  <2>1. B \subseteq Nat
    BY <1>0
  <2> HIDE DEF B
  <2>2. PICK i \in B : \A m \in B : i <= m
    BY <2>1, LeastNumber
  <2>3. i \in 0 .. Len(records) /\ it[1 .. i] \notin FileLists
    BY DEF B
  <2>4. i # 0
    BY <1>4, <2>3
  <2>5. i - 1 \in 0 .. Len(records) /\ i - 1 \notin B /\ i \in 1 .. Len(records)
    BY <1>0, <2>2, <2>3, <2>4
  <2>6. it[1 .. (i - 1)] \in FileLists
    BY <2>5 DEF B
  <2>7. it[1 .. i] = Took(tree, enter, it[1 .. (i - 1)], records[i])
    BY <1>5, <2>5
  <2>8. records[i] \in STRING
    BY <1>0, <2>5
  <2> QED
    BY <2>3, <2>6, <2>7, <2>8, TookType
<1> DEFINE chain == [i \in 0 .. Len(records) |-> it[1 .. i]]
<1>7. IsChain(tree, enter, files, records, chain)
  <2>1. chain \in [0 .. Len(records) -> FileLists]
    BY <1>6
  <2>2. chain[0] = files
    BY <1>0, <1>4
  <2>3. \A i \in 1 .. Len(records) : chain[i] = Took(tree, enter, chain[i - 1], records[i])
    <3> TAKE i \in 1 .. Len(records)
    <3>1. i \in 0 .. Len(records) /\ i - 1 \in 0 .. Len(records)
      BY <1>0
    <3> QED
      BY <1>5, <3>1
  <2> QED
    BY <2>1, <2>2, <2>3 DEF IsChain
<1>8. chain[Len(records)] = it[1 .. Len(records)]
  BY <1>0
<1> QED
  BY <1>2, <1>7, <1>8

(* The walk, from the deepest level up. *)
LEMMA WalkExists ==
  ASSUME NEW tree
  PROVE  \E w : IsWalk(tree, w)
<1> DEFINE top == MAX_DEPTH + 1
           Upper(n, w) == w = [depth \in (top - n) .. top |-> Level(tree, w[depth + 1], depth)]
           B == {n \in 0 .. top : ~ \E w : Upper(n, w)}
<1>0. MAX_DEPTH \in Nat /\ top \in Nat
  BY AnalyzeAssumption
<1>1. ASSUME NEW a, NEW b PROVE Level(tree, a, top) = Level(tree, b, top)
  <2>1. top > MAX_DEPTH
    BY <1>0
  <2> HIDE DEF top
  <2> QED
    BY <2>1 DEF Level
<1>2. B = {}
  <2> SUFFICES ASSUME B # {} PROVE FALSE
    OBVIOUS
  <2>1. B \subseteq Nat
    BY <1>0
  <2> HIDE DEF B
  <2>2. PICK n \in B : \A m \in B : n <= m
    BY <2>1, LeastNumber
  <2>3. n \in 0 .. top /\ n \in Nat /\ ~ \E w : Upper(n, w)
    BY <1>0 DEF B
  <2>4. CASE n = 0
    <3> DEFINE w == [depth \in (top - n) .. top |-> Level(tree, << >>, top)]
    <3>1. \A depth \in (top - n) .. top : depth = top
      BY <1>0, <2>4
    <3> HIDE DEF top
    <3>2. w = [depth \in (top - n) .. top |-> Level(tree, w[depth + 1], depth)]
      <4>1. ASSUME NEW depth \in (top - n) .. top
            PROVE  Level(tree, << >>, top) = Level(tree, w[depth + 1], depth)
        BY <1>1, <3>1
      <4> HIDE DEF w
      <4>2. w = [depth \in (top - n) .. top |-> Level(tree, << >>, top)]
        BY DEF w
      <4> QED
        BY <4>1, <4>2
    <3> QED
      BY <2>3, <3>2
  <2>5. CASE n # 0
    <3>1. n - 1 \in 0 .. top /\ n - 1 \notin B
      BY <1>0, <2>2, <2>3, <2>5
    <3>2. PICK w : Upper(n - 1, w)
      BY <3>1 DEF B
    <3> DEFINE w2 == [depth \in (top - n) .. top |->
                        IF depth = top - n THEN Level(tree, w[depth + 1], depth) ELSE w[depth]]
    <3>3. ASSUME NEW depth \in (top - n) .. top
          PROVE  w2[depth] = Level(tree, w2[depth + 1], depth)
      <4>1. CASE depth = top - n
        <5>1. depth + 1 \in (top - n) .. top /\ depth + 1 # top - n
          BY <1>0, <2>3, <2>5, <4>1
        <5> QED
          BY <4>1, <5>1
      <4>2. CASE depth # top - n
        <5>1. depth \in (top - (n - 1)) .. top
          BY <1>0, <2>3, <4>2
        <5>2. w2[depth] = Level(tree, w[depth + 1], depth)
          BY <3>2, <4>2, <5>1
        <5>3. CASE depth = top
          BY <1>1, <5>2, <5>3
        <5>4. CASE depth # top
          <6>1. depth + 1 \in (top - n) .. top /\ depth + 1 # top - n
            BY <1>0, <2>3, <4>2, <5>4
          <6> QED
            BY <5>2, <6>1
        <5> QED
          BY <5>3, <5>4
      <4> QED
        BY <4>1, <4>2
    <3>4. Upper(n, w2)
      <4> DEFINE dom == (top - n) .. top
      <4>1. w2 = [depth \in dom |-> w2[depth]]
        OBVIOUS
      <4>2. \A depth \in dom : w2[depth] = Level(tree, w2[depth + 1], depth)
        BY <3>3
      <4> HIDE DEF w2, dom
      <4>3. w2 = [depth \in dom |-> Level(tree, w2[depth + 1], depth)]
        BY <4>1, <4>2
      <4> QED
        BY <4>3 DEF dom
    <3> QED
      BY <2>3, <3>4
  <2> QED
    BY <2>4, <2>5
<1>3. top \in 0 .. top /\ top - top = 0
  BY <1>0
<1>4. PICK w : Upper(top, w)
  <2> HIDE DEF top, Upper
  <2> QED
    BY <1>2, <1>3
<1>5. w = [depth \in 0 .. top |-> Level(tree, w[depth + 1], depth)]
  BY <1>3, <1>4
<1> QED
  BY <1>5 DEF IsWalk

LEMMA Upward ==
  ASSUME NEW top \in Nat, NEW G, 0 \in G, \A i \in 1 .. top : i - 1 \in G => i \in G
  PROVE  0 .. top \subseteq G
<1> DEFINE B == (0 .. top) \ G
<1> SUFFICES ASSUME B # {} PROVE FALSE
  OBVIOUS
<1>1. B \subseteq Nat
  OBVIOUS
<1> HIDE DEF B
<1>2. PICK n \in B : \A m \in B : n <= m
  BY <1>1, LeastNumber
<1>3. n \in 0 .. top /\ n \notin G
  BY DEF B
<1>4. n \in 1 .. top
  BY <1>3
<1>5. n - 1 \in 0 .. top /\ n - 1 \notin B
  BY <1>2, <1>4
<1> QED
  BY <1>3, <1>4, <1>5 DEF B

LEMMA Downward ==
  ASSUME NEW top \in Nat, NEW G, top \in G,
         \A k \in 0 .. (top - 1) : k + 1 \in G => k \in G
  PROVE  0 .. top \subseteq G
<1> DEFINE H == {n \in 0 .. top : top - n \in G}
<1>1. 0 \in H
  OBVIOUS
<1>2. ASSUME NEW n \in 1 .. top, n - 1 \in H PROVE n \in H
  <2>1. top - n \in 0 .. (top - 1) /\ (top - n) + 1 = top - (n - 1)
    OBVIOUS
  <2>2. (top - n) + 1 \in G
    BY <1>2, <2>1
  <2> QED
    BY <2>1, <2>2
<1>3. 0 .. top \subseteq H
  <2> HIDE DEF H
  <2> QED
    BY <1>1, <1>2, Upward
<1> QED
  <2>1. ASSUME NEW k \in 0 .. top PROVE k \in G
    <3>1. top - k \in 0 .. top /\ top - (top - k) = k
      OBVIOUS
    <3>2. top - k \in H
      BY <1>3, <3>1
    <3> QED
      BY <3>1, <3>2
  <2> QED
    BY <2>1

LEMMA WalkAt ==
  ASSUME NEW tree, NEW w, IsWalk(tree, w), NEW k \in 0 .. (MAX_DEPTH + 1),
         NEW d \in DOMAIN tree, NEW files \in FileLists
  PROVE  w[k][d][files] = IF k > MAX_DEPTH \/ Len(files) >= MAX_FILES THEN files
                          ELSE Records(tree, w[k + 1], files, tree[d])
<1>1. w[k] = Level(tree, w[k + 1], k)
  BY DEF IsWalk
<1> QED
  BY <1>1 DEF Level, FileLists

LEMMA WalkType ==
  ASSUME NEW tree, IsTree(tree), NEW w, IsWalk(tree, w)
  PROVE  \A k \in 0 .. (MAX_DEPTH + 1) : IsEnter(tree, w[k])
<1> DEFINE top == MAX_DEPTH + 1
           G == {k \in 0 .. top : IsEnter(tree, w[k])}
<1>0. MAX_DEPTH \in Nat /\ top \in Nat /\ top > MAX_DEPTH /\ top - 1 = MAX_DEPTH
  BY AnalyzeAssumption
<1>1. ASSUME NEW k \in 0 .. top, \A d \in DOMAIN tree, files \in FileLists : w[k][d][files] \in FileLists
      PROVE  IsEnter(tree, w[k])
  <2>1. w[k] = Level(tree, w[k + 1], k)
    BY DEF IsWalk
  <2>2. /\ DOMAIN w[k] = DOMAIN tree
        /\ \A d \in DOMAIN tree : w[k][d] = [files \in FileLists |-> w[k][d][files]]
    BY <2>1 DEF Level, FileLists
  <2>3. w[k] = [d \in DOMAIN tree |-> w[k][d]]
    BY <2>1 DEF Level
  <2>4. \A d \in DOMAIN tree : w[k][d] \in [FileLists -> FileLists]
    BY <1>1, <2>2
  <2> QED
    BY <2>3, <2>4 DEF IsEnter
<1>2. top \in G
  <2>1. top \in 0 .. top
    BY <1>0
  <2>2. \A d \in DOMAIN tree, files \in FileLists : w[top][d][files] = files
    BY <1>0, <2>1, WalkAt
  <2> HIDE DEF top
  <2> QED
    BY <1>1, <2>1, <2>2
<1>3. ASSUME NEW k \in 0 .. (top - 1), k + 1 \in G PROVE k \in G
  <2>1. k \in 0 .. top
    BY <1>0
  <2>2. ASSUME NEW d \in DOMAIN tree, NEW files \in FileLists PROVE w[k][d][files] \in FileLists
    <3>1. tree[d] \in FileLists /\ Len(tree[d]) \in Nat
      BY DEF IsTree, FileLists
    <3>2. PICK chain : /\ IsChain(tree, w[k + 1], files, tree[d], chain)
                       /\ Records(tree, w[k + 1], files, tree[d]) = chain[Len(tree[d])]
      BY <1>3, <3>1, RecordsChain
    <3>3. chain[Len(tree[d])] \in FileLists
      BY <3>1, <3>2 DEF IsChain
    <3> QED
      BY <2>1, <3>2, <3>3, WalkAt
  <2> HIDE DEF top
  <2> QED
    BY <1>1, <2>1, <2>2
<1>4. 0 .. top \subseteq G
  <2> HIDE DEF G, top
  <2> QED
    BY <1>0, <1>2, <1>3, Downward
<1> QED
  BY <1>4

(* A walk that is not cut is a chain. *)
LEMMA WalkChain ==
  ASSUME NEW tree, IsTree(tree), NEW w, IsWalk(tree, w), NEW k \in 0 .. MAX_DEPTH,
         NEW d \in DOMAIN tree, NEW files \in FileLists, Len(files) < MAX_FILES
  PROVE  \E chain : /\ IsChain(tree, w[k + 1], files, tree[d], chain)
                    /\ w[k][d][files] = chain[Len(tree[d])]
<1>0. MAX_DEPTH \in Nat /\ MAX_FILES \in Nat /\ Len(files) \in Nat
  BY AnalyzeAssumption DEF FileLists
<1>1. k \in 0 .. (MAX_DEPTH + 1) /\ k + 1 \in 0 .. (MAX_DEPTH + 1) /\ ~ (k > MAX_DEPTH)
      /\ ~ (Len(files) >= MAX_FILES)
  BY <1>0
<1>2. w[k][d][files] = Records(tree, w[k + 1], files, tree[d])
  BY <1>1, WalkAt
<1>3. IsEnter(tree, w[k + 1]) /\ tree[d] \in FileLists
  BY <1>1, WalkType DEF IsTree
<1> QED
  BY <1>2, <1>3, RecordsChain

(* What is found stays found. *)
Within(x, y) == Len(x) <= Len(y) /\ ToSet(x) \subseteq ToSet(y)

Finds(q, e) == Within(q, Append(q, e)) /\ ToSet(Append(q, e)) = ToSet(q) \cup {e}

LEMMA AppendFinds ==
  ASSUME NEW S, NEW q \in Seq(S), NEW e \in S
  PROVE  Finds(q, e)
<1>1. /\ Len(Append(q, e)) = Len(q) + 1 /\ Len(q) \in Nat
      /\ DOMAIN q = 1 .. Len(q) /\ DOMAIN Append(q, e) = 1 .. (Len(q) + 1)
      /\ \A i \in 1 .. Len(q) : Append(q, e)[i] = q[i]
      /\ Append(q, e)[Len(q) + 1] = e
  OBVIOUS
<1>2. ToSet(Append(q, e)) = ToSet(q) \cup {e}
  <2>1. \A x \in ToSet(Append(q, e)) : x \in ToSet(q) \cup {e}
    BY <1>1 DEF ToSet
  <2>2. \A x \in ToSet(q) : x \in ToSet(Append(q, e))
    BY <1>1 DEF ToSet
  <2>3. e \in ToSet(Append(q, e))
    BY <1>1 DEF ToSet
  <2> QED
    BY <2>1, <2>2, <2>3
<1> QED
  BY <1>1, <1>2 DEF Within, Finds

LEMMA ListFinds ==
  ASSUME NEW q \in FileLists, NEW e \in STRING
  PROVE  Finds(q, e)
BY AppendFinds, Zenon DEF FileLists

Keeps(tree, enter) ==
  \A e \in DOMAIN tree, x \in FileLists : Within(x, enter[e][x])

LEMMA ChainGrows ==
  ASSUME NEW tree, NEW enter, IsEnter(tree, enter), Keeps(tree, enter),
         NEW files \in FileLists, NEW records \in FileLists, NEW chain,
         IsChain(tree, enter, files, records, chain),
         NEW i \in 0 .. Len(records)
  PROVE  Within(chain[i], chain[Len(records)])
<1> DEFINE n == Len(records)
           G == {k \in 0 .. (n - i) : Within(chain[i], chain[i + k])}
<1>0. n \in Nat /\ i \in Nat /\ n - i \in Nat /\ \A j \in 1 .. n : records[j] \in STRING
  BY DEF FileLists
<1>1. \A j \in 0 .. n : chain[j] \in FileLists /\ Len(chain[j]) \in Nat
  BY DEF IsChain, FileLists
<1>2. ASSUME NEW j \in 1 .. n PROVE Within(chain[j - 1], chain[j])
  <2>1. j - 1 \in 0 .. n
    BY <1>0
  <2>2. chain[j] = Took(tree, enter, chain[j - 1], records[j]) /\ chain[j - 1] \in FileLists
    BY <1>1, <2>1 DEF IsChain
  <2>3. CASE records[j] \in DOMAIN tree
    BY <2>2, <2>3 DEF Took, Keeps
  <2>4. CASE records[j] \notin DOMAIN tree
    <3>1. Within(chain[j - 1], Append(chain[j - 1], records[j]))
      BY <1>0, <2>2, ListFinds, Zenon DEF Finds
    <3> QED
      BY <2>2, <2>4, <3>1 DEF Took
  <2> QED
    BY <2>3, <2>4
<1>3. 0 \in G
  <2>1. i + 0 = i /\ i \in 0 .. n
    BY <1>0
  <2>2. Within(chain[i], chain[i])
    BY <1>1, <2>1 DEF Within
  <2> QED
    BY <1>0, <2>1, <2>2
<1>4. ASSUME NEW k \in 1 .. (n - i), k - 1 \in G PROVE k \in G
  <2>1. i + (k - 1) = (i + k) - 1 /\ i + k \in 1 .. n /\ (i + k) - 1 \in 0 .. n /\ i + k \in 0 .. n
        /\ i \in 0 .. n
    BY <1>0
  <2>2. Within(chain[i], chain[(i + k) - 1]) /\ Within(chain[(i + k) - 1], chain[i + k])
    BY <1>2, <1>4, <2>1
  <2>3. Within(chain[i], chain[i + k])
    BY <1>1, <2>1, <2>2 DEF Within
  <2> QED
    BY <1>0, <2>3
<1>5. 0 .. (n - i) \subseteq G
  <2> HIDE DEF G, n
  <2> QED
    BY <1>0, <1>3, <1>4, Upward
<1>6. n - i \in G /\ i + (n - i) = n
  <2>1. n - i \in 0 .. (n - i) /\ i + (n - i) = n
    BY <1>0
  <2> HIDE DEF G, n
  <2> QED
    BY <1>5, <2>1
<1> QED
  BY <1>6

LEMMA WalkKeeps ==
  ASSUME NEW tree, IsTree(tree), NEW w, IsWalk(tree, w)
  PROVE  \A k \in 0 .. (MAX_DEPTH + 1) : Keeps(tree, w[k])
<1> DEFINE top == MAX_DEPTH + 1
           G == {k \in 0 .. top : Keeps(tree, w[k])}
<1>0. MAX_DEPTH \in Nat /\ top \in Nat /\ top > MAX_DEPTH /\ top - 1 = MAX_DEPTH
      /\ MAX_FILES \in Nat
  BY AnalyzeAssumption
<1>1. \A x \in FileLists : Len(x) \in Nat /\ Within(x, x)
  BY DEF FileLists, Within
<1>2. top \in G
  <2>1. top \in 0 .. top
    BY <1>0
  <2>2. \A d \in DOMAIN tree, files \in FileLists : w[top][d][files] = files
    BY <1>0, <2>1, WalkAt
  <2> HIDE DEF top
  <2> QED
    BY <1>1, <2>1, <2>2 DEF Keeps
<1>3. ASSUME NEW k \in 0 .. (top - 1), k + 1 \in G PROVE k \in G
  <2>1. k \in 0 .. top /\ k \in 0 .. MAX_DEPTH /\ k + 1 \in 0 .. top /\ Keeps(tree, w[k + 1])
    BY <1>0, <1>3
  <2>2. ASSUME NEW d \in DOMAIN tree, NEW files \in FileLists
        PROVE  Within(files, w[k][d][files])
    <3>1. CASE Len(files) >= MAX_FILES
      BY <1>1, <2>1, <3>1, WalkAt
    <3>2. CASE ~ (Len(files) >= MAX_FILES)
      <4>1. Len(files) < MAX_FILES
        BY <1>0, <1>1, <3>2
      <4>2. PICK chain : /\ IsChain(tree, w[k + 1], files, tree[d], chain)
                         /\ w[k][d][files] = chain[Len(tree[d])]
        BY <2>1, <4>1, WalkChain
      <4>3. tree[d] \in FileLists /\ 0 \in 0 .. Len(tree[d]) /\ chain[0] = files
        BY <4>2 DEF IsTree, IsChain, FileLists
      <4>4. IsEnter(tree, w[k + 1])
        BY <2>1, WalkType
      <4>5. Within(chain[0], chain[Len(tree[d])])
        BY <2>1, <4>2, <4>3, <4>4, ChainGrows
      <4> QED
        BY <4>2, <4>3, <4>5
    <3> QED
      BY <3>1, <3>2
  <2> HIDE DEF top
  <2> QED
    BY <2>1, <2>2 DEF Keeps
<1>4. 0 .. top \subseteq G
  <2> HIDE DEF G, top
  <2> QED
    BY <1>0, <1>2, <1>3, Downward
<1> QED
  BY <1>4

(* What a walk that is not cut does with each record of its directory: a    *)
(* file is found, a directory is entered, and what is found there stays.    *)
LEMMA WalkEnters ==
  ASSUME NEW tree, IsTree(tree), NEW w, IsWalk(tree, w), NEW k \in 0 .. MAX_DEPTH,
         NEW d \in DOMAIN tree, NEW files \in FileLists,
         Len(w[k][d][files]) < MAX_FILES, NEW e \in ToSet(tree[d])
  PROVE  /\ e \notin DOMAIN tree => e \in ToSet(w[k][d][files])
         /\ e \in DOMAIN tree =>
              \E y \in FileLists : Within(w[k + 1][e][y], w[k][d][files])
<1>0. MAX_DEPTH \in Nat /\ MAX_FILES \in Nat /\ Len(files) \in Nat
      /\ k \in 0 .. (MAX_DEPTH + 1) /\ k + 1 \in 0 .. (MAX_DEPTH + 1)
  BY AnalyzeAssumption DEF FileLists
<1>1. /\ IsEnter(tree, w[k + 1]) /\ Keeps(tree, w[k + 1]) /\ Keeps(tree, w[k])
      /\ IsEnter(tree, w[k]) /\ tree[d] \in FileLists
  BY <1>0, WalkType, WalkKeeps DEF IsTree
<1>2. Len(files) < MAX_FILES
  <2>1. Within(files, w[k][d][files])
    BY <1>1 DEF Keeps
  <2>2. w[k][d][files] \in FileLists
    <3>1. w[k][d] \in [FileLists -> FileLists]
      BY <1>1 DEF IsEnter
    <3> QED
      BY <3>1
  <2>3. Len(w[k][d][files]) \in Nat
    BY <2>2 DEF FileLists
  <2> QED
    BY <1>0, <2>1, <2>3 DEF Within
<1>3. PICK chain : /\ IsChain(tree, w[k + 1], files, tree[d], chain)
                   /\ w[k][d][files] = chain[Len(tree[d])]
  BY <1>2, WalkChain
<1>4. /\ Len(tree[d]) \in Nat /\ DOMAIN tree[d] = 1 .. Len(tree[d])
      /\ \A i \in 1 .. Len(tree[d]) : tree[d][i] \in STRING
  BY <1>1 DEF FileLists
<1>5. PICK i \in 1 .. Len(tree[d]) : e = tree[d][i]
  BY <1>4 DEF ToSet
<1>6. i \in 0 .. Len(tree[d]) /\ i - 1 \in 0 .. Len(tree[d])
  BY <1>4
<1>7. /\ chain[i - 1] \in FileLists /\ chain[i] \in FileLists
      /\ chain[i] = Took(tree, w[k + 1], chain[i - 1], e)
  BY <1>3, <1>5, <1>6 DEF IsChain
<1>8. Within(chain[i], w[k][d][files])
  BY <1>1, <1>3, <1>6, ChainGrows
<1>9. CASE e \in DOMAIN tree
  BY <1>7, <1>8, <1>9 DEF Took
<1>10. CASE e \notin DOMAIN tree
  <2>1. chain[i] = Append(chain[i - 1], e) /\ e \in STRING
    BY <1>4, <1>5, <1>7, <1>10 DEF Took
  <2>2. ToSet(Append(chain[i - 1], e)) = ToSet(chain[i - 1]) \cup {e}
    BY <1>7, <2>1, ListFinds, Zenon DEF Finds
  <2> QED
    BY <1>8, <1>10, <2>1, <2>2 DEF Within
<1> QED
  BY <1>9, <1>10

(* The directories some number of steps lead to: those at the end of a path *)
(* of that length, which may stay where it is.                              *)
LEMMA ReachExists ==
  ASSUME NEW tree, IsTree(tree)
  PROVE  \E after : IsReach(tree, after)
<1> DEFINE Leads(p, n) == /\ p \in [0 .. n -> DOMAIN tree] /\ p[0] = "root"
                          /\ \A i \in 1 .. n : p[i] = p[i - 1] \/ p[i] \in ToSet(tree[p[i - 1]])
           Ends(n) == {d \in DOMAIN tree : \E p : Leads(p, n) /\ p[n] = d}
<1>0. "root" \in DOMAIN tree
  BY DEF IsTree
<1>1. Ends(0) = {"root"}
  <2>1. Leads([i \in 0 .. 0 |-> "root"], 0) /\ [i \in 0 .. 0 |-> "root"][0] = "root"
    BY <1>0
  <2>2. \A p : Leads(p, 0) => p[0] = "root"
    OBVIOUS
  <2> HIDE DEF Leads
  <2> QED
    BY <1>0, <2>1, <2>2
<1>2. ASSUME NEW n \in Nat \ {0}
      PROVE  Ends(n) = Ends(n - 1) \cup
               {d \in DOMAIN tree : \E q \in Ends(n - 1) : d \in ToSet(tree[q])}
  <2>0. n - 1 \in 0 .. n /\ n \in 0 .. n /\ n \in 1 .. n /\ 0 \in 0 .. (n - 1) /\ n - 1 \in 0 .. (n - 1)
    OBVIOUS
  <2>1. ASSUME NEW p, Leads(p, n)
        PROVE  p[n - 1] \in Ends(n - 1) /\ (p[n] = p[n - 1] \/ p[n] \in ToSet(tree[p[n - 1]]))
    <3> DEFINE q == [i \in 0 .. (n - 1) |-> p[i]]
    <3>1. q \in [0 .. (n - 1) -> DOMAIN tree] /\ q[0] = "root" /\ q[n - 1] = p[n - 1]
      BY <2>0, <2>1
    <3>2. \A i \in 1 .. (n - 1) : q[i] = q[i - 1] \/ q[i] \in ToSet(tree[q[i - 1]])
      <4> TAKE i \in 1 .. (n - 1)
      <4>1. i \in 1 .. n /\ i \in 0 .. (n - 1) /\ i - 1 \in 0 .. (n - 1)
        OBVIOUS
      <4> QED
        BY <2>1, <4>1
    <3> HIDE DEF q
    <3>3. p[n - 1] \in DOMAIN tree
      BY <2>0, <2>1
    <3> QED
      BY <2>0, <2>1, <3>1, <3>2, <3>3
  <2>2. ASSUME NEW q, Leads(q, n - 1), NEW d \in DOMAIN tree,
               d = q[n - 1] \/ d \in ToSet(tree[q[n - 1]])
        PROVE  d \in Ends(n)
    <3> DEFINE p == [i \in 0 .. n |-> IF i = n THEN d ELSE q[i]]
    <3>1. \A i \in 0 .. n : i # n => i \in 0 .. (n - 1)
      OBVIOUS
    <3>2. p \in [0 .. n -> DOMAIN tree] /\ p[0] = "root" /\ p[n] = d
      BY <2>0, <2>2, <3>1
    <3>3. \A i \in 1 .. n : p[i] = p[i - 1] \/ p[i] \in ToSet(tree[p[i - 1]])
      <4> TAKE i \in 1 .. n
      <4>1. i - 1 \in 0 .. n /\ i - 1 # n /\ i \in 0 .. n
        OBVIOUS
      <4>2. CASE i = n
        BY <2>2, <4>1, <4>2
      <4>3. CASE i # n
        <5>1. i \in 1 .. (n - 1)
          BY <4>3
        <5> QED
          BY <2>2, <4>1, <4>3, <5>1
      <4> QED
        BY <4>2, <4>3
    <3> HIDE DEF p
    <3>4. Leads(p, n)
      BY <3>2, <3>3
    <3> HIDE DEF Leads
    <3> QED
      BY <3>2, <3>4
  <2> HIDE DEF Leads
  <2>3. \A d \in Ends(n) : \/ d \in Ends(n - 1)
                           \/ d \in DOMAIN tree /\ \E q \in Ends(n - 1) : d \in ToSet(tree[q])
    BY <2>1
  <2>4. \A d \in Ends(n - 1) : d \in Ends(n)
    BY <2>2
  <2>5. \A d \in DOMAIN tree : (\E q \in Ends(n - 1) : d \in ToSet(tree[q])) => d \in Ends(n)
    BY <2>2
  <2> HIDE DEF Ends
  <2> QED
    BY <2>3, <2>4, <2>5
<1> HIDE DEF Ends
<1> DEFINE after == [n \in Nat |-> Ends(n)]
<1>3. \A n \in Nat : Ends(n) = IF n = 0 THEN {"root"}
                     ELSE after[n - 1] \cup
                          {d \in DOMAIN tree : \E p \in after[n - 1] : d \in ToSet(tree[p])}
  <2> TAKE n \in Nat
  <2>1. CASE n = 0
    BY <1>1, <2>1
  <2>2. CASE n # 0
    <3>1. n \in Nat \ {0} /\ n - 1 \in Nat
      BY <2>2
    <3>2. after[n - 1] = Ends(n - 1)
      BY <3>1
    <3> HIDE DEF after
    <3> QED
      BY <1>2, <2>2, <3>1, <3>2
  <2> QED
    BY <2>1, <2>2
<1>4. after = [n \in Nat |-> Ends(n)]
  OBVIOUS
<1> HIDE DEF after
<1>5. IsReach(tree, after)
  BY <1>3, <1>4 DEF IsReach
<1> QED
  BY <1>5

(* The files of the directories within reach, and nothing else, is what a   *)
(* walk finds that is not cut by MAX_FILES.                                 *)
InDirectories(tree, directories) ==
  {e \in STRING \ DOMAIN tree : \E d \in directories : e \in ToSet(tree[d])}

LEMMA ReachSteps ==
  ASSUME NEW tree, IsTree(tree), NEW after, IsReach(tree, after)
  PROVE  /\ after[0] = {"root"}
         /\ \A n \in Nat : /\ after[n] \subseteq DOMAIN tree
                           /\ after[n + 1] = after[n] \cup
                                {d \in DOMAIN tree : \E p \in after[n] : d \in ToSet(tree[p])}
         /\ \A n \in Nat : \A k \in 0 .. n : after[k] \subseteq after[n]
<1>1. after[0] = {"root"}
  BY DEF IsReach
<1>2. \A n \in Nat : after[n + 1] = after[n] \cup
                       {d \in DOMAIN tree : \E p \in after[n] : d \in ToSet(tree[p])}
  <2> TAKE n \in Nat
  <2>1. n + 1 \in Nat /\ n + 1 # 0 /\ (n + 1) - 1 = n
    OBVIOUS
  <2> DEFINE m == n + 1
  <2>2. m \in Nat /\ m # 0 /\ m - 1 = n
    BY <2>1
  <2> HIDE DEF m
  <2>3. after[m] = after[m - 1] \cup
                     {d \in DOMAIN tree : \E p \in after[m - 1] : d \in ToSet(tree[p])}
    BY <2>2 DEF IsReach
  <2>4. after[m] = after[n] \cup
                     {d \in DOMAIN tree : \E p \in after[n] : d \in ToSet(tree[p])}
    BY <2>2, <2>3
  <2> QED
    BY <2>4 DEF m
<1>3. ASSUME NEW n \in Nat PROVE after[n] \subseteq DOMAIN tree
  <2> DEFINE G == {k \in 0 .. n : after[k] \subseteq DOMAIN tree}
  <2>1. 0 \in G
    BY <1>1 DEF IsTree
  <2>2. ASSUME NEW k \in 1 .. n, k - 1 \in G PROVE k \in G
    <3>1. k - 1 \in Nat /\ (k - 1) + 1 = k
      OBVIOUS
    <3> QED
      BY <1>2, <2>2, <3>1
  <2> HIDE DEF G
  <2>3. 0 .. n \subseteq G
    BY <2>1, <2>2, Upward
  <2> QED
    BY <2>3 DEF G
<1>4. ASSUME NEW n \in Nat, NEW k \in 0 .. n PROVE after[k] \subseteq after[n]
  <2> DEFINE G == {j \in 0 .. (n - k) : after[k] \subseteq after[k + j]}
  <2>0. n - k \in Nat /\ k + 0 = k /\ k + (n - k) = n /\ n - k \in 0 .. (n - k)
    OBVIOUS
  <2>1. 0 \in G
    BY <2>0
  <2>2. ASSUME NEW j \in 1 .. (n - k), j - 1 \in G PROVE j \in G
    <3>1. k + (j - 1) \in Nat /\ (k + (j - 1)) + 1 = k + j
      OBVIOUS
    <3>2. after[k + (j - 1)] \subseteq after[(k + (j - 1)) + 1]
      BY <1>2, <3>1
    <3>3. after[k] \subseteq after[k + (j - 1)]
      BY <2>2
    <3> QED
      BY <3>1, <3>2, <3>3
  <2> HIDE DEF G
  <2>3. 0 .. (n - k) \subseteq G
    BY <2>0, <2>1, <2>2, Upward
  <2>4. n - k \in G
    BY <2>0, <2>3
  <2> QED
    BY <2>0, <2>4 DEF G
<1> QED
  BY <1>1, <1>2, <1>3, <1>4

(* A walk finds nothing else. *)
LEMMA WalkIsSound ==
  ASSUME NEW tree, IsTree(tree), NEW w, IsWalk(tree, w), NEW after, IsReach(tree, after)
  PROVE  \A k \in 0 .. (MAX_DEPTH + 1) : \A d \in after[k], files \in FileLists :
           ToSet(w[k][d][files]) \subseteq
             ToSet(files) \cup InDirectories(tree, after[MAX_DEPTH])
<1> DEFINE top == MAX_DEPTH + 1
           known == InDirectories(tree, after[MAX_DEPTH])
           G == {k \in 0 .. top : \A d \in after[k], files \in FileLists :
                                     ToSet(w[k][d][files]) \subseteq ToSet(files) \cup known}
<1>0. MAX_DEPTH \in Nat /\ top \in Nat /\ top > MAX_DEPTH /\ top - 1 = MAX_DEPTH
      /\ MAX_FILES \in Nat
  BY AnalyzeAssumption
<1>1. \A k \in 0 .. top : after[k] \subseteq DOMAIN tree
  <2> TAKE k \in 0 .. top
  <2>1. k \in Nat
    BY <1>0
  <2> QED
    BY <2>1, ReachSteps
<1>2. top \in G
  <2>1. top \in 0 .. top
    BY <1>0
  <2>2. \A d \in DOMAIN tree, files \in FileLists : w[top][d][files] = files
    BY <1>0, <2>1, WalkAt
  <2> HIDE DEF top, known
  <2> QED
    BY <1>1, <2>1, <2>2
<1>3. ASSUME NEW k \in 0 .. (top - 1), k + 1 \in G PROVE k \in G
  <2>1. k \in 0 .. top /\ k \in 0 .. MAX_DEPTH /\ k + 1 \in 0 .. top /\ k \in Nat
    BY <1>0
  <2>2. ASSUME NEW d \in after[k], NEW files \in FileLists
        PROVE  ToSet(w[k][d][files]) \subseteq ToSet(files) \cup known
    <3>0. d \in DOMAIN tree
      BY <1>1, <2>1
    <3>1. CASE Len(files) >= MAX_FILES
      <4>1. w[k][d][files] = files
        BY <2>1, <3>0, <3>1, WalkAt
      <4> QED
        BY <4>1
    <3>2. CASE ~ (Len(files) >= MAX_FILES)
      <4> DEFINE n == Len(tree[d])
      <4>1. Len(files) < MAX_FILES
        BY <1>0, <3>2 DEF FileLists
      <4>2. PICK chain : /\ IsChain(tree, w[k + 1], files, tree[d], chain)
                         /\ w[k][d][files] = chain[n]
        BY <2>1, <3>0, <4>1, WalkChain
      <4>3. tree[d] \in FileLists /\ n \in Nat /\ DOMAIN tree[d] = 1 .. n
            /\ \A i \in 1 .. n : tree[d][i] \in STRING
        BY <3>0 DEF IsTree, FileLists
      <4> DEFINE H == {i \in 0 .. n : ToSet(chain[i]) \subseteq ToSet(files) \cup known}
      <4>4. 0 \in H
        BY <4>2, <4>3 DEF IsChain
      <4>5. ASSUME NEW i \in 1 .. n, i - 1 \in H PROVE i \in H
        <5>1. i - 1 \in 0 .. n /\ i \in 0 .. n
          BY <4>3
        <5>2. chain[i] = Took(tree, w[k + 1], chain[i - 1], tree[d][i])
              /\ chain[i - 1] \in FileLists
          BY <4>2, <5>1 DEF IsChain
        <5>3. tree[d][i] \in ToSet(tree[d])
          BY <4>3 DEF ToSet
        <5>4. ToSet(chain[i - 1]) \subseteq ToSet(files) \cup known
          BY <4>5
        <5>5. CASE tree[d][i] \in DOMAIN tree
          <6>1. tree[d][i] \in after[k + 1]
            BY <2>1, <5>3, <5>5, ReachSteps
          <6>2. \A c \in after[k + 1], found \in FileLists :
                  ToSet(w[k + 1][c][found]) \subseteq ToSet(found) \cup known
            BY <1>3
          <6>3. ToSet(chain[i]) \subseteq ToSet(chain[i - 1]) \cup known
            <7>1. chain[i] = w[k + 1][tree[d][i]][chain[i - 1]]
              BY <5>2, <5>5 DEF Took
            <7> HIDE DEF known
            <7> QED
              BY <5>2, <6>1, <6>2, <7>1
          <6> HIDE DEF known
          <6> QED
            BY <5>1, <5>4, <6>3
        <5>6. CASE tree[d][i] \notin DOMAIN tree
          <6>1. chain[i] = Append(chain[i - 1], tree[d][i]) /\ tree[d][i] \in STRING
            BY <4>3, <5>2, <5>6 DEF Took
          <6>2. ToSet(Append(chain[i - 1], tree[d][i])) = ToSet(chain[i - 1]) \cup {tree[d][i]}
            BY <5>2, <6>1, ListFinds, Zenon DEF Finds
          <6>3. after[k] \subseteq after[MAX_DEPTH]
            BY <1>0, <2>1, ReachSteps
          <6>4. tree[d][i] \in known
            BY <5>3, <5>6, <6>1, <6>3 DEF InDirectories
          <6> HIDE DEF known
          <6>5. ToSet(chain[i]) \subseteq ToSet(files) \cup known
            <7>1. ToSet(chain[i]) = ToSet(chain[i - 1]) \cup {tree[d][i]}
              BY <6>1, <6>2
            <7> QED
              BY <5>4, <6>4, <7>1
          <6> QED
            BY <5>1, <6>5
        <5> QED
          BY <5>5, <5>6
      <4>6. 0 .. n \subseteq H
        <5> HIDE DEF H, n
        <5> QED
          BY <4>3, <4>4, <4>5, Upward
      <4>7. n \in H
        <5> HIDE DEF H, n
        <5> QED
          BY <4>3, <4>6
      <4> QED
        BY <4>2, <4>7
    <3> QED
      BY <3>1, <3>2
  <2> HIDE DEF top, known
  <2> QED
    BY <2>1, <2>2
<1>4. 0 .. top \subseteq G
  <2> HIDE DEF G, top
  <2> QED
    BY <1>0, <1>2, <1>3, Downward
<1> QED
  BY <1>4

(* A walk that is not cut has entered every directory within reach. *)
LEMMA WalkIsComplete ==
  ASSUME NEW tree, IsTree(tree), NEW w, IsWalk(tree, w), NEW after, IsReach(tree, after),
         Len(w[0]["root"][<< >>]) < MAX_FILES
  PROVE  InDirectories(tree, after[MAX_DEPTH]) \subseteq ToSet(w[0]["root"][<< >>])
<1> DEFINE all == w[0]["root"][<< >>]
           G == {k \in 0 .. MAX_DEPTH : \A d \in after[k] :
                   \E j \in 0 .. k, files \in FileLists : Within(w[j][d][files], all)}
<1>0. /\ MAX_DEPTH \in Nat /\ MAX_FILES \in Nat /\ 0 \in 0 .. (MAX_DEPTH + 1)
      /\ << >> \in FileLists /\ "root" \in DOMAIN tree
  BY AnalyzeAssumption DEF FileLists, IsTree
<1>1. \A k \in 0 .. (MAX_DEPTH + 1), d \in DOMAIN tree, files \in FileLists :
        w[k][d][files] \in FileLists /\ Len(w[k][d][files]) \in Nat
  <2> TAKE k \in 0 .. (MAX_DEPTH + 1), d \in DOMAIN tree, files \in FileLists
  <2>1. w[k] \in [DOMAIN tree -> [FileLists -> FileLists]]
    BY WalkType DEF IsEnter
  <2>2. w[k][d] \in [FileLists -> FileLists]
    BY <2>1
  <2>3. w[k][d][files] \in FileLists
    BY <2>2
  <2> QED
    BY <2>3 DEF FileLists
<1>2. all \in FileLists /\ Len(all) \in Nat /\ Len(all) < MAX_FILES
  BY <1>0, <1>1
<1>3. \A k \in 0 .. MAX_DEPTH : after[k] \subseteq DOMAIN tree
  <2> TAKE k \in 0 .. MAX_DEPTH
  <2>1. k \in Nat
    BY <1>0
  <2> QED
    BY <2>1, ReachSteps
<1>4. 0 \in G
  <2>1. after[0] = {"root"}
    BY ReachSteps
  <2>2. Within(all, all)
    BY <1>2 DEF Within
  <2> QED
    BY <1>0, <2>1, <2>2
<1> HIDE DEF all
<1>5. ASSUME NEW k \in 0 .. MAX_DEPTH, NEW d \in DOMAIN tree, NEW files \in FileLists,
             Within(w[k][d][files], all), NEW e \in ToSet(tree[d])
      PROVE  /\ e \notin DOMAIN tree => e \in ToSet(all)
             /\ e \in DOMAIN tree => \E y \in FileLists : Within(w[k + 1][e][y], all)
  <2>1. k \in 0 .. (MAX_DEPTH + 1) /\ k + 1 \in 0 .. (MAX_DEPTH + 1)
    BY <1>0
  <2>2. Len(w[k][d][files]) < MAX_FILES
    BY <1>0, <1>1, <1>2, <1>5, <2>1 DEF Within
  <2>3. e \notin DOMAIN tree => e \in ToSet(w[k][d][files])
    BY <2>2, WalkEnters
  <2>4. ASSUME e \in DOMAIN tree PROVE \E y \in FileLists : Within(w[k + 1][e][y], all)
    <3>1. PICK y \in FileLists : Within(w[k + 1][e][y], w[k][d][files])
      BY <2>2, <2>4, WalkEnters
    <3>2. Len(w[k + 1][e][y]) \in Nat /\ Len(w[k][d][files]) \in Nat
      BY <1>1, <2>1, <2>4
    <3>3. Within(w[k + 1][e][y], all)
      BY <1>2, <1>5, <3>1, <3>2 DEF Within
    <3> QED
      BY <3>3
  <2> QED
    BY <1>5, <2>3, <2>4 DEF Within
<1>6. ASSUME NEW k \in 1 .. MAX_DEPTH, k - 1 \in G PROVE k \in G
  <2>1. k - 1 \in 0 .. MAX_DEPTH /\ k \in 0 .. MAX_DEPTH /\ k - 1 \in Nat /\ (k - 1) + 1 = k
        /\ 0 .. (k - 1) \subseteq 0 .. k /\ 0 .. (k - 1) \subseteq 0 .. MAX_DEPTH
    BY <1>0
  <2>2. after[k] = after[k - 1] \cup
                     {d \in DOMAIN tree : \E p \in after[k - 1] : d \in ToSet(tree[p])}
    <3>1. after[(k - 1) + 1] = after[k - 1] \cup
                     {d \in DOMAIN tree : \E p \in after[k - 1] : d \in ToSet(tree[p])}
      BY <2>1, ReachSteps
    <3> QED
      BY <2>1, <3>1
  <2>3. \A p \in after[k - 1] : \E j \in 0 .. (k - 1), files \in FileLists :
          Within(w[j][p][files], all)
    BY <1>6
  <2>4. ASSUME NEW d \in after[k]
        PROVE  \E j \in 0 .. k, files \in FileLists : Within(w[j][d][files], all)
    <3>1. CASE d \in after[k - 1]
      BY <2>1, <2>3, <3>1
    <3>2. CASE d \notin after[k - 1]
      <4>1. PICK p \in after[k - 1] : d \in ToSet(tree[p]) /\ d \in DOMAIN tree
        BY <2>2, <3>2
      <4>2. PICK j \in 0 .. (k - 1), files \in FileLists : Within(w[j][p][files], all)
        BY <2>3
      <4>3. p \in DOMAIN tree /\ j \in 0 .. MAX_DEPTH
        BY <1>3, <2>1
      <4>4. \E y \in FileLists : Within(w[j + 1][d][y], all)
        BY <1>5, <4>1, <4>2, <4>3
      <4>5. j + 1 \in 0 .. k
        BY <2>1
      <4> QED
        BY <4>4, <4>5
    <3> QED
      BY <3>1, <3>2
  <2> QED
    BY <2>1, <2>4
<1>7. 0 .. MAX_DEPTH \subseteq G
  <2> HIDE DEF G
  <2> QED
    BY <1>0, <1>4, <1>6, Upward
<1>8. MAX_DEPTH \in G
  <2>1. MAX_DEPTH \in 0 .. MAX_DEPTH
    BY <1>0
  <2> HIDE DEF G
  <2> QED
    BY <1>7, <2>1
<1>9. ASSUME NEW e \in InDirectories(tree, after[MAX_DEPTH]) PROVE e \in ToSet(all)
  <2>1. PICK d \in after[MAX_DEPTH] : e \in ToSet(tree[d])
    BY DEF InDirectories
  <2>2. e \notin DOMAIN tree
    BY DEF InDirectories
  <2>3. PICK j \in 0 .. MAX_DEPTH, files \in FileLists : Within(w[j][d][files], all)
    BY <1>8
  <2>4. d \in DOMAIN tree
    BY <1>0, <1>3
  <2> QED
    BY <1>5, <2>1, <2>2, <2>3, <2>4
<1> QED
  BY <1>9 DEF all

LEMMA WalkIsList ==
  ASSUME NEW tree, IsTree(tree)
  PROVE  walk_dir(tree, "root") \in FileLists
<1> DEFINE w == CHOOSE w : IsWalk(tree, w)
<1>1. IsWalk(tree, w)
  BY WalkExists
<1>2. walk_dir(tree, "root") = w[0]["root"][<< >>]
  BY WalkIs
<1> HIDE DEF w
<1>3. 0 \in 0 .. (MAX_DEPTH + 1) /\ << >> \in FileLists /\ "root" \in DOMAIN tree
  BY AnalyzeAssumption DEF FileLists, IsTree
<1>4. w[0] \in [DOMAIN tree -> [FileLists -> FileLists]]
  BY <1>1, <1>3, WalkType DEF IsEnter
<1>5. w[0]["root"] \in [FileLists -> FileLists]
  BY <1>3, <1>4
<1> QED
  BY <1>2, <1>3, <1>5

(* walk_dir finds the files of the directories that MAX_DEPTH steps lead    *)
(* to, and no other, unless it found MAX_FILES files.                       *)
LEMMA WalkFinds ==
  ASSUME NEW tree, IsTree(tree), Len(walk_dir(tree, "root")) < MAX_FILES
  PROVE  /\ ToSet(walk_dir(tree, "root")) = InDirectories(tree, InReach(tree))
         /\ InReach(tree) \subseteq DOMAIN tree
<1> DEFINE w == CHOOSE w : IsWalk(tree, w)
           after == CHOOSE after : IsReach(tree, after)
<1>1. IsWalk(tree, w) /\ IsReach(tree, after)
  BY WalkExists, ReachExists
<1>2. walk_dir(tree, "root") = w[0]["root"][<< >>] /\ InReach(tree) = after[MAX_DEPTH]
  BY WalkIs, ReachIs
<1> HIDE DEF w, after
<1>3. /\ MAX_DEPTH \in Nat /\ 0 \in 0 .. (MAX_DEPTH + 1) /\ << >> \in FileLists
      /\ ToSet(<< >>) = {}
  BY AnalyzeAssumption DEF FileLists, ToSet
<1>4. "root" \in after[0]
  BY <1>1, ReachSteps
<1>5. ToSet(w[0]["root"][<< >>]) \subseteq ToSet(<< >>) \cup InDirectories(tree, after[MAX_DEPTH])
  BY <1>1, <1>3, <1>4, WalkIsSound
<1>6. InDirectories(tree, after[MAX_DEPTH]) \subseteq ToSet(w[0]["root"][<< >>])
  BY <1>1, <1>2, WalkIsComplete
<1>7. after[MAX_DEPTH] \subseteq DOMAIN tree
  BY <1>1, <1>3, ReachSteps
<1>8. ToSet(w[0]["root"][<< >>]) = InDirectories(tree, after[MAX_DEPTH])
  BY <1>3, <1>5, <1>6, Zenon
<1> QED
  BY <1>2, <1>7, <1>8, Zenon

------------------------------------------------------------------------------
(* The choice of an analyzer, and what it refuses. *)

LEMMA LeastIsMember ==
  ASSUME NEW S, S \subseteq Nat, S # {}
  PROVE  Min(S) \in S
<1>1. \E n \in S : \A m \in S : n <= m
  BY LeastNumber
<1> QED
  BY <1>1 DEF Min

LEMMA CategoriesAre ==
  /\ Len(Categories) = 7 /\ DOMAIN Categories = 1 .. 7
  /\ 1 .. 7 = {1, 2, 3, 4, 5, 6, 7}
  /\ ToSet(Categories) = {"lnk", "office", "pdf", "pe", "script", "archive", "iso"}
<1>1. Len(Categories) = 7 /\ DOMAIN Categories = 1 .. 7
  BY DEF Categories
<1>2. 1 .. 7 = {1, 2, 3, 4, 5, 6, 7}
  OBVIOUS
<1>3. ToSet(Categories) = {"lnk", "office", "pdf", "pe", "script", "archive", "iso"}
  BY <1>1, <1>2 DEF ToSet, Categories
<1> QED
  BY <1>1, <1>2, <1>3

LEMMA CategoryFound ==
  ASSUME NEW f
  PROVE  \/ \E i \in 1 .. 7 : detect_category(f) = Categories[i] /\ Suits(f, Categories[i])
         \/ detect_category(f) = "unknown" /\ \A i \in 1 .. 7 : ~Suits(f, Categories[i])
<1> DEFINE I == {i \in 1 .. Len(Categories) : Suits(f, Categories[i])}
<1>1. SelectInSeq(Categories, LAMBDA category : Suits(f, category)) = IF I # {} THEN Min(I) ELSE 0
  BY DEF SelectInSeq
<1>2. I # {} => Min(I) \in I
  <2>1. I \subseteq Nat
    BY CategoriesAre
  <2> HIDE DEF I
  <2> QED
    BY <2>1, LeastIsMember
<1>3. CASE I = {}
  <2>1. detect_category(f) = "unknown"
    BY <1>1, <1>3 DEF detect_category
  <2> QED
    BY <1>3, <2>1, CategoriesAre
<1>4. CASE I # {}
  <2>1. Min(I) \in 1 .. 7 /\ Suits(f, Categories[Min(I)])
    BY <1>2, <1>4, CategoriesAre
  <2>2. Min(I) # 0
    BY <2>1
  <2>3. detect_category(f) = Categories[Min(I)]
    BY <1>1, <1>4, <2>2 DEF detect_category
  <2> HIDE DEF I
  <2> QED
    BY <2>1, <2>3
<1> QED
  BY <1>3, <1>4

(* A file named after what it is goes to the analyzer of its extension. *)
LEMMA NamedWell ==
  ASSUME NEW f, f.ext = f.kind
  PROVE  \/ f.kind = "lnk" /\ detect_category(f) = "lnk"
         \/ f.kind \in {"docx", "doc", "rtf"} /\ detect_category(f) = "office"
         \/ f.kind = "pdf" /\ detect_category(f) = "pdf"
         \/ f.kind = "exe" /\ detect_category(f) = "pe"
         \/ f.kind = "ps1" /\ detect_category(f) = "script"
         \/ f.kind \in {"zip", "tar", "tar.gz", "gz"} /\ detect_category(f) = "archive"
         \/ f.kind = "iso" /\ detect_category(f) = "iso"
         \/ /\ f.kind \notin {"lnk", "docx", "doc", "rtf", "pdf", "exe", "ps1", "zip",
                              "tar", "tar.gz", "gz", "iso"}
            /\ detect_category(f) = "unknown"
<1>1. \A category : Suits(f, category) <=> f.kind \in Exts[category]
  BY DEF Suits
<1>2. CASE detect_category(f) = "unknown" /\ \A i \in 1 .. 7 : ~Suits(f, Categories[i])
  <2>1. /\ f.kind \notin Exts["lnk"] /\ f.kind \notin Exts["office"] /\ f.kind \notin Exts["pdf"]
        /\ f.kind \notin Exts["pe"] /\ f.kind \notin Exts["script"]
        /\ f.kind \notin Exts["archive"] /\ f.kind \notin Exts["iso"]
    BY <1>1, <1>2, CategoriesAre DEF Categories
  <2> QED
    BY <1>2, <2>1 DEF Exts
<1>3. ASSUME NEW i \in 1 .. 7, detect_category(f) = Categories[i], Suits(f, Categories[i])
      PROVE  \E category \in ToSet(Categories) :
               detect_category(f) = category /\ f.kind \in Exts[category]
  BY <1>1, <1>3, CategoriesAre DEF ToSet
<1>4. CASE \E category \in ToSet(Categories) :
             detect_category(f) = category /\ f.kind \in Exts[category]
  BY <1>4, CategoriesAre DEF Exts
<1> QED
  BY <1>2, <1>3, <1>4, CategoryFound

LEMMA ArchiveRefused ==
  ASSUME NEW f, f.entries \in Seq(SUBSET STRING), f.ext = f.kind,
         f.kind \in {"zip", "tar", "tar.gz", "gz"},
         f.kind \in {"tar", "tar.gz"} => \A e \in ToSet(f.entries) : "error" \notin e
  PROVE  archive(f) <=> Dangerous(f)
<1>1. DOMAIN f.entries = 1 .. Len(f.entries) /\ Len(f.entries) \in Nat
  OBVIOUS
<1>2. ToSet(f.entries) = {f.entries[i] : i \in DOMAIN f.entries}
  BY DEF ToSet
<1>3. CASE f.kind = "gz"
  BY <1>3 DEF archive, Dangerous, Marked
<1>4. CASE f.kind = "zip"
  BY <1>4 DEF archive, zip, Dangerous, Executable
<1>5. CASE f.kind \in {"tar", "tar.gz"}
  <2>1. archive(f) <=> tar(f)
    BY <1>5 DEF archive
  <2>2. Dangerous(f) <=> \E e \in ToSet(f.entries) :
           /\ "error" \notin e /\ "dir" \notin e
           /\ ("exec_name" \in e \/ ("exec_magic" \in e /\ "undecodable" \notin e))
    BY <1>5 DEF Dangerous
  <2>3. tar(f) <=> \E i \in DOMAIN f.entries : Executable(f.entries[i])
    <3>1. \A i \in DOMAIN f.entries : "error" \notin f.entries[i]
      BY <1>2, <1>5
    <3>2. \A i \in DOMAIN f.entries : \A j \in 1 .. i : j \in DOMAIN f.entries
      BY <1>1
    <3> QED
      BY <3>1, <3>2 DEF tar
  <2>4. \A e : Executable(e) <=>
                 /\ "error" \notin e /\ "dir" \notin e
                 /\ ("exec_name" \in e \/ ("exec_magic" \in e /\ "undecodable" \notin e))
    BY DEF Executable
  <2> QED
    BY <1>2, <2>1, <2>2, <2>3, <2>4
<1> QED
  BY <1>3, <1>4, <1>5

LEMMA ListTyped ==
  ASSUME NEW S, NEW q \in Seq(S)
  PROVE  ToSet(q) \subseteq S
  BY DEF ToSet

LEMMA IsoRefused ==
  ASSUME NEW f, f.kind = "iso", IsTree(f.tree),
         {"executable", "script"} \cap DOMAIN f.tree = {},
         Len(walk_dir(f.tree, "root")) < MAX_FILES
  PROVE  iso(f) <=> Dangerous(f)
<1> DEFINE found == ToSet(walk_dir(f.tree, "root"))
<1>1. found = InDirectories(f.tree, InReach(f.tree))
  BY WalkFinds
<1>2. iso(f) <=> "executable" \in found \/ "script" \in found
  BY DEF iso
<1>3. \A d \in InReach(f.tree) : ToSet(f.tree[d]) \subseteq STRING
  <2> TAKE d \in InReach(f.tree)
  <2>1. f.tree[d] \in Seq(STRING)
    BY WalkFinds DEF IsTree, FileLists
  <2> DEFINE q == f.tree[d]
  <2> HIDE DEF q
  <2>2. q \in Seq(STRING)
    BY <2>1 DEF q
  <2>3. ToSet(q) \subseteq STRING
    BY <2>2, ListTyped
  <2> QED
    BY <2>3 DEF q
<1>4. \A e \in {"executable", "script"} :
        e \in found <=> \E d \in InReach(f.tree) : e \in ToSet(f.tree[d])
  <2> SUFFICES ASSUME NEW e \in {"executable", "script"}
               PROVE  e \in found <=> \E d \in InReach(f.tree) : e \in ToSet(f.tree[d])
    OBVIOUS
  <2>1. e \notin DOMAIN f.tree
    OBVIOUS
  <2> HIDE DEF found
  <2> QED
    BY <1>1, <1>3, <2>1, Zenon DEF InDirectories
<1>5. Dangerous(f) <=> \E d \in InReach(f.tree) :
                         "executable" \in ToSet(f.tree[d]) \/ "script" \in ToSet(f.tree[d])
  BY DEF Dangerous
<1> HIDE DEF found
<1> QED
  BY <1>2, <1>4, <1>5

(* The verdict of an analyzer on a file named after what it is. *)
Cut(f) ==
  \/ f.kind = "iso" /\ Len(walk_dir(f.tree, "root")) >= MAX_FILES
  \/ f.kind \in {"tar", "tar.gz"} /\ \E e \in ToSet(f.entries) : "error" \in e

LEMMA RefusedIsDangerous ==
  ASSUME NEW f \in Samples, f.readable, f.ext = f.kind, ~Cut(f)
  PROVE  Refused(f, detect_category(f)) <=> Dangerous(f)
<1>1. /\ f.entries \in Seq(SUBSET STRING) /\ IsTree(f.tree)
      /\ {"executable", "script"} \cap DOMAIN f.tree = {}
  BY SamplesAssumption DEF IsTree, FileLists
<1>2. CASE f.kind = "lnk" /\ detect_category(f) = "lnk"
  BY <1>2 DEF Refused, lnk, Marked, Dangerous
<1>3. CASE f.kind \in {"docx", "doc", "rtf"} /\ detect_category(f) = "office"
  BY <1>3 DEF Refused, office, ooxml, ole, Marked, Dangerous
<1>4. CASE f.kind = "pdf" /\ detect_category(f) = "pdf"
  BY <1>4 DEF Refused, pdf, Marked, Dangerous
<1>5. CASE f.kind = "exe" /\ detect_category(f) = "pe"
  BY <1>5 DEF Refused, pe, Marked, Dangerous
<1>6. CASE f.kind = "ps1" /\ detect_category(f) = "script"
  BY <1>6 DEF Refused, script, Marked, Dangerous
<1>7. CASE f.kind \in {"zip", "tar", "tar.gz", "gz"} /\ detect_category(f) = "archive"
  <2>1. Refused(f, detect_category(f)) <=> archive(f)
    BY <1>7 DEF Refused
  <2>2. f.kind \in {"tar", "tar.gz"} => \A e \in ToSet(f.entries) : "error" \notin e
    BY DEF Cut
  <2> QED
    BY <1>1, <1>7, <2>1, <2>2, ArchiveRefused
<1>8. CASE f.kind = "iso" /\ detect_category(f) = "iso"
  <2>1. Refused(f, detect_category(f)) <=> iso(f)
    BY <1>8 DEF Refused
  <2> DEFINE files == walk_dir(f.tree, "root")
  <2>2. ~ (Len(files) >= MAX_FILES)
    BY <1>8 DEF Cut
  <2>3. Len(files) < MAX_FILES
    <3>1. files \in FileLists
      BY <1>1, WalkIsList
    <3>2. Len(files) \in Nat /\ MAX_FILES \in Nat
      BY <3>1, AnalyzeAssumption DEF FileLists
    <3> HIDE DEF files
    <3> QED
      BY <2>2, <3>2
  <2> QED
    BY <1>1, <1>8, <2>1, <2>3, IsoRefused
<1>9. CASE /\ f.kind \notin {"lnk", "docx", "doc", "rtf", "pdf", "exe", "ps1", "zip",
                             "tar", "tar.gz", "gz", "iso"}
           /\ detect_category(f) = "unknown"
  BY <1>9 DEF Refused, Dangerous
<1> QED
  BY <1>2, <1>3, <1>4, <1>5, <1>6, <1>7, <1>8, <1>9, NamedWell

------------------------------------------------------------------------------
(* The type invariant of the calls of keysas-analyze. *)

Analyzers == ToSet(Categories) \cup {"unknown", "unread", "none"}

LEMMA DispatchType ==
  ASSUME NEW f
  PROVE  /\ dispatch(f).passed \in BOOLEAN /\ dispatch(f).analyzer \in Analyzers
         /\ dispatch(f).analyzer # "unread" =>
              dispatch(f).passed = ~Refused(f, detect_category(f))
<1>1. detect_category(f) \in Analyzers
  <2>1. \A i \in 1 .. 7 : Categories[i] \in ToSet(Categories)
    BY CategoriesAre DEF ToSet
  <2> QED
    BY <2>1, CategoryFound DEF Analyzers
<1>2. CASE f.long
  BY <1>2 DEF dispatch, Analyzers
<1>3. CASE ~f.long
  <2>1. dispatch(f) = [passed |-> ~Refused(f, detect_category(f)),
                       analyzer |-> detect_category(f)]
    BY <1>3 DEF dispatch
  <2>2. (~Refused(f, detect_category(f))) \in BOOLEAN
    OBVIOUS
  <2> HIDE DEF Analyzers
  <2> QED
    BY <1>1, <2>1, <2>2
<1> QED
  BY <1>2, <1>3

(* An answer that transit has. *)
Given(a) ==
  a # NoAnswer => a.file \in Samples /\ a.passed \in BOOLEAN /\ a.analyzer \in Analyzers

LEMMA AnalyzeTypeIs ==
  AnalyzeTypeOK <=>
    /\ analyze \in Service(Samples) /\ checking \in Samples \cup {NoFile}
    /\ analyze.waiting = (checking # NoFile) /\ Given(analyzed)
    /\ analyzeDeaths \in 0 .. AnalyzeMaxDeaths
  BY DEF AnalyzeTypeOK, Given, Analyzers

LEMMA AnalyzeInitTypeOK == AnalyzeInit => AnalyzeTypeOK
<1> SUFFICES ASSUME AnalyzeInit PROVE AnalyzeTypeOK
  OBVIOUS
<1>1. analyze \in Service(Samples) /\ analyze.waiting = FALSE
  BY NewServiceType DEF AnalyzeInit, NewService
<1>2. analyzeDeaths \in 0 .. AnalyzeMaxDeaths
  BY AnalyzeAssumption DEF AnalyzeInit
<1> QED
  BY <1>1, <1>2 DEF AnalyzeInit, AnalyzeTypeOK

LEMMA AnalysisGiven ==
  ASSUME NEW f \in Samples, NEW answer, answer.passed \in BOOLEAN,
         answer.analyzer \in Analyzers, AnalysisEnds(f, answer)
  PROVE  checking' = NoFile /\ Given(analyzed')
  BY DEF AnalysisEnds, Given

LEMMA NotAnalyzedType == NotAnalyzed.passed \in BOOLEAN /\ NotAnalyzed.analyzer \in Analyzers
  BY DEF NotAnalyzed, Analyzers

LEMMA AnalyzeTypeStep == AnalyzeTypeOK /\ [AnalyzeNext]_analyzeVars => AnalyzeTypeOK'
<1> SUFFICES ASSUME AnalyzeTypeOK, [AnalyzeNext]_analyzeVars PROVE AnalyzeTypeOK'
  OBVIOUS
<1>1. /\ analyze \in Service(Samples) /\ checking \in Samples \cup {NoFile}
      /\ analyze.waiting = (checking # NoFile) /\ Given(analyzed)
      /\ analyzeDeaths \in 0 .. AnalyzeMaxDeaths
  BY AnalyzeTypeIs
<1>2. AnalyzeTypeOK' <=>
        /\ analyze' \in Service(Samples) /\ checking' \in Samples \cup {NoFile}
        /\ analyze'.waiting = (checking' # NoFile) /\ Given(analyzed')
        /\ analyzeDeaths' \in 0 .. AnalyzeMaxDeaths
  BY DEF AnalyzeTypeOK, Given, Analyzers
<1>3. CASE UNCHANGED analyzeVars
  BY <1>1, <1>2, <1>3 DEF analyzeVars
<1>4. ASSUME NEW f \in Samples, call_specialized_analyzer(f) PROVE AnalyzeTypeOK'
  <2>1. CASE analyze.up
    <3>1. Called(analyze, f) \in Service(Samples) /\ Called(analyze, f).waiting = TRUE
      BY <1>1, ServiceOps DEF Called, Service
    <3>2. /\ analyze' = Called(analyze, f) /\ checking' = f /\ analyzed' = NoAnswer
          /\ analyzeDeaths' = analyzeDeaths
      BY <1>4, <2>1 DEF call_specialized_analyzer
    <3>3. f # NoFile
      BY AnalyzeAssumption
    <3> QED
      BY <1>1, <1>2, <3>1, <3>2, <3>3 DEF Given
  <2>2. CASE ~analyze.up
    <3>1. /\ AnalysisEnds(f, NotAnalyzed) /\ analyze' = analyze /\ checking = NoFile
          /\ analyzeDeaths' = analyzeDeaths
      BY <1>4, <2>2 DEF call_specialized_analyzer
    <3>2. checking' = NoFile /\ Given(analyzed')
      BY <3>1, AnalysisGiven, NotAnalyzedType
    <3> QED
      BY <1>1, <1>2, <3>1, <3>2
  <2> QED
    BY <2>1, <2>2
<1>5. CASE AnalyzeServe
  <2>1. Served(analyze) \in Service(Samples) /\ Served(analyze).waiting = analyze.waiting
    BY <1>1, <1>5, ServiceOps DEF AnalyzeServe, Served, Service
  <2> QED
    BY <1>1, <1>2, <1>5, <2>1 DEF AnalyzeServe
<1>6. CASE AnalyzeReply
  <2>1. /\ analyze' \in Service(Samples)
        /\ analyze'.waiting = (analyze.waiting /\ ~IsAwaited(analyze))
        /\ analyzeDeaths' = analyzeDeaths
    BY <1>1, <1>6, ServiceOps DEF AnalyzeReply, Answered, Service
  <2>2. CASE IsAwaited(analyze)
    <3>1. checking \in Samples
      BY <1>1, <2>2 DEF IsAwaited
    <3>2. AnalysisEnds(checking, dispatch(analyze.serving))
      BY <1>6, <2>2 DEF AnalyzeReply
    <3>3. checking' = NoFile /\ Given(analyzed')
      BY <3>1, <3>2, AnalysisGiven, DispatchType
    <3> QED
      BY <1>1, <1>2, <2>1, <2>2, <3>3
  <2>3. CASE ~IsAwaited(analyze)
    BY <1>1, <1>2, <1>6, <2>1, <2>3 DEF AnalyzeReply
  <2> QED
    BY <2>2, <2>3
<1>7. CASE AnalyzeDies
  <2>1. /\ analyze' \in Service(Samples) /\ analyze'.waiting = FALSE
        /\ analyzeDeaths' \in 0 .. AnalyzeMaxDeaths
    <3>1. analyzeDeaths' = analyzeDeaths + 1 /\ analyzeDeaths < AnalyzeMaxDeaths
      BY <1>7 DEF AnalyzeDies
    <3>2. analyzeDeaths' \in 0 .. AnalyzeMaxDeaths
      BY <1>1, <3>1, AnalyzeAssumption
    <3>3. analyze' = ServiceDied(analyze) /\ ServiceDied(analyze).waiting = FALSE
      BY <1>7 DEF AnalyzeDies, ServiceDied, NewService
    <3> QED
      BY <1>1, <3>2, <3>3, ServiceOps
  <2>2. CASE analyze.waiting
    <3>1. checking \in Samples /\ AnalysisEnds(checking, NotAnalyzed)
      BY <1>1, <1>7, <2>2 DEF AnalyzeDies
    <3>2. checking' = NoFile /\ Given(analyzed')
      BY <3>1, AnalysisGiven, NotAnalyzedType
    <3> QED
      BY <1>2, <2>1, <3>2
  <2>3. CASE ~analyze.waiting
    BY <1>1, <1>2, <1>7, <2>1, <2>3 DEF AnalyzeDies
  <2> QED
    BY <2>2, <2>3
<1>8. CASE AnalyzeStarts
  <2>1. analyze' \in Service(Samples) /\ analyze'.waiting = analyze.waiting
    BY <1>1, <1>8, ServiceOps DEF AnalyzeStarts, ServiceStarted, Service
  <2> QED
    BY <1>1, <1>2, <1>8, <2>1 DEF AnalyzeStarts
<1>9. CASE CheckerDies
  <2>1. /\ analyze' \in Service(Samples) /\ analyze'.waiting = FALSE
        /\ analyzeDeaths' \in 0 .. AnalyzeMaxDeaths
    <3>1. analyzeDeaths' = analyzeDeaths + 1 /\ analyzeDeaths < AnalyzeMaxDeaths
      BY <1>9 DEF CheckerDies
    <3>2. analyzeDeaths' \in 0 .. AnalyzeMaxDeaths
      BY <1>1, <3>1, AnalyzeAssumption
    <3>3. analyze' = CallerDied(analyze) /\ CallerDied(analyze).waiting = FALSE
      BY <1>1, <1>9 DEF CheckerDies, CallerDied, Service
    <3> QED
      BY <1>1, <3>2, <3>3, ServiceOps
  <2> QED
    BY <1>1, <1>2, <1>9, <2>1 DEF CheckerDies
<1> QED
  BY <1>3, <1>4, <1>5, <1>6, <1>7, <1>8, <1>9 DEF AnalyzeNext, AnalyzeStep

(* Transit waits for exactly the file it checks, whatever dies, and what it *)
(* notes of an answer is a verdict by an analyzer there is.                 *)
THEOREM AnalyzeTypeCorrect == AnalyzeSpec => []AnalyzeTypeOK
  BY AnalyzeInitTypeOK, AnalyzeTypeStep, PTL DEF AnalyzeSpec

------------------------------------------------------------------------------
(* AnalysisIsKept.  As with the digests, transit waits for the last request *)
(* made: an answer it reads is about the file it asked for last.            *)

Asked ==
  LET s == analyze IN
  /\ s.waiting /\ s.backlog = << >> /\ s.serving # NoRequest => s.serving = checking
  /\ s.waiting /\ s.backlog # << >> => s.backlog[Len(s.backlog)] = checking

(* What transit notes is no answer, or what the service says of that file.  *)
Noted(a) ==
  a # NoAnswer => \/ a.analyzer = "none"
                  \/ /\ a.passed = dispatch(a.file).passed
                     /\ a.analyzer = dispatch(a.file).analyzer

AskedIInv == AnalyzeTypeOK /\ Asked /\ Noted(analyzed)

LEMMA AnalysisNoted ==
  ASSUME NEW f, NEW answer, AnalysisEnds(f, answer),
         answer = NotAnalyzed \/ answer = dispatch(f)
  PROVE  Noted(analyzed')
<1>1. analyzed' = [file |-> f, passed |-> answer.passed, analyzer |-> answer.analyzer]
  BY DEF AnalysisEnds
<1>2. NotAnalyzed.analyzer = "none"
  BY DEF NotAnalyzed
<1> QED
  BY <1>1, <1>2 DEF Noted

LEMMA AskedInit == AnalyzeInit => AskedIInv
<1> SUFFICES ASSUME AnalyzeInit PROVE AskedIInv
  OBVIOUS
<1>1. Asked /\ Noted(analyzed)
  BY DEF AnalyzeInit, Asked, Noted, NewService
<1> QED
  BY <1>1, AnalyzeInitTypeOK DEF AskedIInv

LEMMA AskedStep == AskedIInv /\ [AnalyzeNext]_analyzeVars => AskedIInv'
<1> SUFFICES ASSUME AskedIInv, [AnalyzeNext]_analyzeVars
             PROVE  Asked' /\ Noted(analyzed')
  BY AnalyzeTypeStep DEF AskedIInv, Noted
<1>1. AnalyzeTypeOK /\ Asked /\ Noted(analyzed)
  BY DEF AskedIInv
<1>2. /\ analyze \in Service(Samples) /\ analyze.waiting = (checking # NoFile)
      /\ analyze.backlog \in Seq(Samples)
  BY <1>1 DEF AnalyzeTypeOK, Service
<1>3. ASSUME analyze'.waiting = FALSE PROVE Asked'
  BY <1>3 DEF Asked
<1>4. CASE UNCHANGED analyzeVars
  BY <1>1, <1>4 DEF analyzeVars, Asked
<1>5. ASSUME NEW f \in Samples, call_specialized_analyzer(f)
      PROVE  Asked' /\ Noted(analyzed')
  <2>1. CASE analyze.up
    <3>1. Append(analyze.backlog, f) # << >>
          /\ Append(analyze.backlog, f)[Len(Append(analyze.backlog, f))] = f
      BY <1>2, LastRequest
    <3>2. Called(analyze, f).backlog = Append(analyze.backlog, f)
      BY <1>2 DEF Called, Service
    <3>3. analyze' = Called(analyze, f) /\ checking' = f /\ analyzed' = NoAnswer
      BY <1>5, <2>1 DEF call_specialized_analyzer
    <3> QED
      BY <3>1, <3>2, <3>3 DEF Asked, Noted
  <2>2. CASE ~analyze.up
    <3>1. AnalysisEnds(f, NotAnalyzed) /\ analyze' = analyze /\ checking = NoFile
      BY <1>5, <2>2 DEF call_specialized_analyzer
    <3>2. analyze'.waiting = FALSE
      BY <1>2, <3>1
    <3> QED
      BY <1>3, <3>1, <3>2, AnalysisNoted
  <2> QED
    BY <2>1, <2>2
<1>6. CASE AnalyzeServe
  <2>1. /\ analyze.backlog # << >> /\ analyze.serving = NoRequest
        /\ analyze' = Served(analyze) /\ UNCHANGED <<checking, analyzed>>
    BY <1>6 DEF AnalyzeServe, CanServe
  <2>2. /\ Served(analyze).waiting = analyze.waiting
        /\ Served(analyze).serving = Head(analyze.backlog)
        /\ Served(analyze).backlog = Tail(analyze.backlog)
    BY <1>2 DEF Served, Service
  <2>3. /\ Tail(analyze.backlog) = << >> =>
             Head(analyze.backlog) = analyze.backlog[Len(analyze.backlog)]
        /\ Tail(analyze.backlog) # << >> =>
             Tail(analyze.backlog)[Len(Tail(analyze.backlog))]
               = analyze.backlog[Len(analyze.backlog)]
    BY <1>2, <2>1, LastRequest
  <2>4. Asked'
    BY <1>1, <2>1, <2>2, <2>3 DEF Asked
  <2> QED
    BY <1>1, <2>1, <2>4
<1>7. CASE AnalyzeReply
  <2>1. /\ analyze'.backlog = analyze.backlog /\ analyze'.serving = NoRequest
        /\ analyze'.waiting = (analyze.waiting /\ ~IsAwaited(analyze))
    BY <1>2, <1>7 DEF AnalyzeReply, Answered, Service
  <2>2. CASE IsAwaited(analyze)
    <3>1. analyze.serving = checking
      BY <1>1, <1>7, <2>2 DEF IsAwaited, Asked, AnalyzeReply
    <3>2. AnalysisEnds(checking, dispatch(checking))
      BY <1>7, <2>2, <3>1 DEF AnalyzeReply
    <3> QED
      BY <1>3, <2>1, <2>2, <3>2, AnalysisNoted
  <2>3. CASE ~IsAwaited(analyze)
    <3>1. analyze'.waiting = analyze.waiting /\ UNCHANGED <<checking, analyzed>>
      BY <1>2, <1>7, <2>1, <2>3 DEF AnalyzeReply
    <3> QED
      BY <1>1, <2>1, <3>1 DEF Asked
  <2> QED
    BY <2>2, <2>3
<1>8. CASE AnalyzeDies
  <2>1. analyze'.waiting = FALSE
    BY <1>8 DEF AnalyzeDies, ServiceDied, NewService
  <2>2. CASE analyze.waiting
    <3>1. AnalysisEnds(checking, NotAnalyzed)
      BY <1>8, <2>2 DEF AnalyzeDies
    <3> QED
      BY <1>3, <2>1, <3>1, AnalysisNoted
  <2>3. CASE ~analyze.waiting
    BY <1>1, <1>3, <1>8, <2>1, <2>3 DEF AnalyzeDies
  <2> QED
    BY <2>2, <2>3
<1>9. CASE AnalyzeStarts
  <2>1. /\ analyze'.waiting = analyze.waiting /\ analyze'.backlog = analyze.backlog
        /\ analyze'.serving = analyze.serving /\ UNCHANGED <<checking, analyzed>>
    BY <1>2, <1>9 DEF AnalyzeStarts, ServiceStarted, Service
  <2> QED
    BY <1>1, <2>1 DEF Asked
<1>10. CASE CheckerDies
  <2>1. analyze'.waiting = FALSE /\ analyzed' = analyzed
    BY <1>2, <1>10 DEF CheckerDies, CallerDied, Service
  <2> QED
    BY <1>1, <1>3, <2>1
<1> QED
  BY <1>4, <1>5, <1>6, <1>7, <1>8, <1>9, <1>10 DEF AnalyzeNext, AnalyzeStep

LEMMA NotedIsKept == AnalyzeTypeOK /\ Noted(analyzed) => AnalysisIsKept
<1> SUFFICES ASSUME AnalyzeTypeOK, Noted(analyzed), analyzed # NoAnswer,
                    analyzed.analyzer \notin {"none", "unread"}
             PROVE  LET f == analyzed.file
                    IN /\ ~f.readable => analyzed.passed
                       /\ f.readable /\ f.ext = f.kind =>
                            analyzed.passed = ~Dangerous(f) \/ Cut(f)
  BY Zenon DEF AnalysisIsKept, Cut
<1> DEFINE f == analyzed.file
<1>1. f \in Samples
  BY DEF AnalyzeTypeOK
<1>2. analyzed.passed = ~Refused(f, detect_category(f))
  BY DispatchType DEF Noted
<1>3. ~f.readable => ~Refused(f, detect_category(f))
  BY DEF Refused
<1>4. f.readable /\ f.ext = f.kind /\ ~Cut(f) =>
        (Refused(f, detect_category(f)) <=> Dangerous(f))
  BY <1>1, RefusedIsDangerous
<1> HIDE DEF f
<1>5. f.readable /\ f.ext = f.kind /\ ~Cut(f) => analyzed.passed = ~Dangerous(f)
  BY <1>2, <1>4
<1> QED
  BY <1>2, <1>3, <1>5 DEF f

(* Whatever keysas-transit and keysas-analyze die of and whenever, the file *)
(* just analysed passes exactly if nothing in it is dangerous: the answer   *)
(* is about this file, its analyzer is the right one, and the walk of an    *)
(* image finds every file that MAX_DEPTH steps lead to.                     *)
THEOREM AnalysisStaysKept == AnalyzeSpec => []AnalysisIsKept
<1>1. AskedIInv => AnalysisIsKept
  BY NotedIsKept DEF AskedIInv
<1> QED
  BY <1>1, AskedInit, AskedStep, PTL DEF AnalyzeSpec

=============================================================================
