--------------------------- MODULE KeysasVirusTotal ---------------------------
(***************************************************************************)
(* keysas-virustotal and the calls of keysas-transit: the detections of a  *)
(* digest come from a web service, or from a cache whose entries last for  *)
(* CacheTtl.  What the engines say of a digest changes with time.  The     *)
(* service decides on its errors by FailOpen; when it cannot be reached    *)
(* transit lets the file pass.                                             *)
(***************************************************************************)
EXTENDS ServiceCall

CONSTANTS
  Digests, NoDigest,
  Unknown,          \* a digest the web service does not know
  NoEntry, NoQuery, NoVerdict,
  FailOpen,
  BlockThreshold,
  CacheTtl,
  MaxDetections,    \* bound: engines
  MaxClock,         \* bound: time
  MaxOpinions,      \* bound: changes of what the engines say
  VtMaxDeaths       \* bound: deaths of transit and of keysas-virustotal

ASSUME VtAssumption ==
  /\ FailOpen \in BOOLEAN
  /\ {BlockThreshold, CacheTtl, MaxDetections} \subseteq Nat
  /\ {MaxClock, MaxOpinions, VtMaxDeaths} \subseteq Nat
  /\ Unknown \notin Nat /\ NoQuery \notin Nat
  /\ NoEntry \notin [detections : Nat, inserted : Nat]
  /\ {NoDigest, NoRequest} \cap Digests = {}

VARIABLES
  vt,             \* the service, whose requests are digests
  cache,          \* digest -> detections and the time of the question
  query,          \* the time the question in progress was put at
  engines,        \* digest -> detections, or Unknown
  clock,
  awaited,        \* the digest transit waits for
  verdict,        \* the last file checked, with the vt_* fields
  opinions, vtDeaths,
  held,           \* history: when the engines last said each number of
                  \* detections of each digest
  asked           \* history: when the service began the last answer

vtVars == <<vt, cache, query, engines, clock, awaited, verdict, opinions,
            vtDeaths, held, asked>>

Detections == 0..MaxDetections
Opinions == Detections \cup {Unknown}
Entries == [detections : Detections, inserted : 0..MaxClock]
Never == MaxClock + 1

------------------------------------------------------------------------------
VtInit ==
  /\ vt = NewService
  /\ cache = [d \in Digests |-> NoEntry]
  /\ query = NoQuery
  /\ engines = [d \in Digests |-> Unknown]
  /\ clock = 0
  /\ awaited = NoDigest /\ verdict = NoVerdict
  /\ opinions = 0 /\ vtDeaths = 0
  /\ held = [d \in Digests |-> [o \in Opinions |-> IF o = Unknown THEN 0 ELSE Never]]
  /\ asked = 0

(* The world: time, and the engines.                                        *)
Hold(now, said) ==
  held' = [d \in Digests |-> [held[d] EXCEPT ![said[d]] = now]]

Tick ==
  /\ clock < MaxClock
  /\ clock' = clock + 1
  /\ Hold(clock + 1, engines)
  /\ UNCHANGED <<vt, cache, query, engines, awaited, verdict, opinions, vtDeaths,
                 asked>>

(* The engines never forget a digest.                                       *)
Opine(d) ==
  /\ opinions < MaxOpinions
  /\ \E n \in Detections \ {engines[d]} :
       /\ engines' = [engines EXCEPT ![d] = n]
       /\ Hold(clock, engines')
  /\ opinions' = opinions + 1
  /\ UNCHANGED <<vt, cache, query, clock, awaited, verdict, vtDeaths, asked>>

------------------------------------------------------------------------------
(* The calls of transit.                                                    *)

LookupEnds(d, passed, detections, source) ==
  /\ awaited' = NoDigest
  /\ verdict' = [digest |-> d, pass |-> passed, detections |-> detections,
                 source |-> source]

(* The verdict transit gives itself.                                        *)
NotLookedUp(d) == LookupEnds(d, TRUE, 0, "transit")

call_vt_analyzer(d) ==
  /\ awaited = NoDigest
  /\ IF vt.up
     THEN /\ vt' = Called(vt, d)
          /\ awaited' = d /\ verdict' = NoVerdict
     ELSE NotLookedUp(d) /\ UNCHANGED vt
  /\ UNCHANGED <<cache, query, engines, clock, opinions, vtDeaths, held, asked>>

(* Mutant of Reply: a request whose answer cannot be written is tried again. *)
ReplyRetried(passed, detections, source) ==
  IF IsAwaited(vt)
  THEN vt' = Answered(vt) /\ LookupEnds(awaited, passed, detections, source)
  ELSE UNCHANGED <<vt, awaited, verdict>>

(* The service writes its answer on the connection it serves.               *)
Reply(passed, detections, source) ==
  /\ vt' = Answered(vt)
  /\ IF IsAwaited(vt) THEN LookupEnds(awaited, passed, detections, source)
     ELSE UNCHANGED <<awaited, verdict>>

VtServe ==
  /\ CanServe(vt)
  /\ vt' = Served(vt)
  /\ UNCHANGED <<cache, query, engines, clock, awaited, verdict, opinions, vtDeaths,
                 held, asked>>

(* Mutant of LookupCached: an entry that is used is as good as new.         *)
LookupRefreshes ==
  LET d == vt.serving IN
  /\ d # NoRequest /\ query = NoQuery /\ cache[d] # NoEntry
  /\ clock - cache[d].inserted < CacheTtl
  /\ Reply(cache[d].detections < BlockThreshold, cache[d].detections, "service")
  /\ cache' = [cache EXCEPT ![d].inserted = clock]
  /\ asked' = clock
  /\ UNCHANGED <<query, engines, clock, opinions, vtDeaths, held>>

(* lookup: from the cache while the entry lasts.                            *)
LookupCached ==
  LET d == vt.serving IN
  /\ d # NoRequest /\ query = NoQuery /\ cache[d] # NoEntry
  /\ clock - cache[d].inserted < CacheTtl
  /\ Reply(cache[d].detections < BlockThreshold, cache[d].detections, "service")
  /\ asked' = clock
  /\ UNCHANGED <<cache, query, engines, clock, opinions, vtDeaths, held>>

(* Mutant of LookupAsks: the entry stays.                                   *)
LookupAsksKeeps ==
  LET d == vt.serving IN
  /\ d # NoRequest /\ query = NoQuery
  /\ cache[d] # NoEntry => clock - cache[d].inserted >= CacheTtl
  /\ query' = clock
  /\ asked' = clock
  /\ UNCHANGED <<vt, cache, engines, clock, awaited, verdict, opinions, vtDeaths, held>>

(* Otherwise the entry is removed and the question put.                     *)
LookupAsks ==
  LET d == vt.serving IN
  /\ d # NoRequest /\ query = NoQuery
  /\ cache[d] # NoEntry => clock - cache[d].inserted >= CacheTtl
  /\ cache' = [cache EXCEPT ![d] = NoEntry]
  /\ query' = clock
  /\ asked' = clock
  /\ UNCHANGED <<vt, engines, clock, awaited, verdict, opinions, vtDeaths, held>>

insert_cache(d, detections) ==
  cache' = [cache EXCEPT ![d] = [detections |-> detections, inserted |-> query]]

(* The answer comes, later: an unknown digest passes, and its entry has no  *)
(* detection.                                                               *)
LookupAnswered ==
  LET d == vt.serving IN
  /\ query # NoQuery
  /\ \/ /\ engines[d] = Unknown
        /\ insert_cache(d, 0) /\ Reply(TRUE, 0, "service")
     \/ /\ engines[d] # Unknown
        /\ insert_cache(d, engines[d])
        /\ Reply(engines[d] < BlockThreshold, engines[d], "service")
  /\ query' = NoQuery
  /\ UNCHANGED <<engines, clock, opinions, vtDeaths, held, asked>>

(* Or it does not: too many questions, no network, a time-out, no JSON.     *)
LookupFails ==
  /\ query # NoQuery
  /\ Reply(FailOpen, 0, "error")
  /\ query' = NoQuery
  /\ UNCHANGED <<cache, engines, clock, opinions, vtDeaths, held, asked>>

(* The cache goes with the service.                                         *)
VtDies ==
  /\ vt.up /\ vtDeaths < VtMaxDeaths
  /\ vt' = ServiceDied(vt)
  /\ cache' = [d \in Digests |-> NoEntry]
  /\ query' = NoQuery
  /\ IF vt.waiting THEN NotLookedUp(awaited) ELSE UNCHANGED <<awaited, verdict>>
  /\ vtDeaths' = vtDeaths + 1
  /\ UNCHANGED <<engines, clock, opinions, held, asked>>

VtStarts ==
  /\ ~vt.up
  /\ vt' = ServiceStarted(vt)
  /\ UNCHANGED <<cache, query, engines, clock, awaited, verdict, opinions, vtDeaths,
                 held, asked>>

(* Transit dies waiting, and starts again.                                  *)
LookerDies ==
  /\ awaited # NoDigest /\ vtDeaths < VtMaxDeaths
  /\ vt' = CallerDied(vt)
  /\ awaited' = NoDigest
  /\ vtDeaths' = vtDeaths + 1
  /\ UNCHANGED <<cache, query, engines, clock, verdict, opinions, held, asked>>

(* The steps of a service that is up, weakly fair: a question ends within   *)
(* timeout_ms.                                                              *)
VtStep == VtServe \/ LookupCached \/ LookupAsks \/ LookupAnswered \/ LookupFails

VtNext ==
  \/ Tick
  \/ \E d \in Digests : Opine(d) \/ call_vt_analyzer(d)
  \/ VtStep \/ VtDies \/ VtStarts \/ LookerDies

VtSpec == VtInit /\ [][VtNext]_vtVars /\ WF_vtVars(VtStep)

------------------------------------------------------------------------------
(* Each variable has a value of its type; a question in progress is about   *)
(* the request served, and an entry is never older than it says.            *)
VtTypeOK ==
  /\ vt \in Service(Digests)
  /\ cache \in [Digests -> Entries \cup {NoEntry}]
  /\ query \in 0..clock \cup {NoQuery}
  /\ query # NoQuery => vt.serving # NoRequest /\ cache[vt.serving] = NoEntry
  /\ engines \in [Digests -> Opinions]
  /\ clock \in 0..MaxClock
  /\ awaited \in Digests \cup {NoDigest} /\ vt.waiting = (awaited # NoDigest)
  /\ verdict # NoVerdict =>
       /\ verdict.digest \in Digests /\ verdict.pass \in BOOLEAN
       /\ verdict.detections \in Detections
       /\ verdict.source \in {"transit", "service", "error"}
  /\ opinions \in 0..MaxOpinions /\ vtDeaths \in 0..VtMaxDeaths
  /\ held \in [Digests -> [Opinions -> 0..Never]]
  /\ asked \in 0..clock

(* What the engines said of d at some time less than CacheTtl before the    *)
(* service began its last answer, or since.                                 *)
Lately(d) ==
  {o \in Opinions : /\ held[d][o] # Never
                    /\ held[d][o] >= asked \/ held[d][o] + CacheTtl > asked}

(* A verdict of the service is one the engines' words justified less than   *)
(* CacheTtl before it was asked for, whatever errors, deaths and earlier    *)
(* questions came between: a file all of whose recent opinions reach the    *)
(* threshold is blocked, and a file none of whose recent opinions does      *)
(* passes.  An error gives FailOpen and is never kept.  An opinion is       *)
(* counted as long as it is the last one that said its number.              *)
VerdictIsFresh ==
  verdict # NoVerdict =>
    CASE verdict.source = "service" ->
           \E o \in Lately(verdict.digest) :
             /\ verdict.detections = IF o = Unknown THEN 0 ELSE o
             /\ verdict.pass = (o = Unknown \/ o < BlockThreshold)
      [] verdict.source = "error" -> verdict.pass = FailOpen
      [] OTHER -> verdict.pass

(* Transit gets a verdict, or the end of its connection, for every digest.  *)
LookupComes == awaited # NoDigest ~> awaited = NoDigest
=============================================================================
