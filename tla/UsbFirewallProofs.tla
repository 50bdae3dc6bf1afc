-------------------------- MODULE UsbFirewallProofs --------------------------
(***************************************************************************)
(* What is proved of the USB firewall daemon: the types, the filter that   *)
(* stands on every mount of a tracked device and that the daemon's tables  *)
(* keep up with the keys: when the user overrides nothing, by a log of     *)
(* what the queued events say of the ports and nodes (LogInv); when he     *)
(* overrides what he likes at a single port, by the one key that the       *)
(* events and the tables speak of until it is pulled out (EraInv).         *)
(***************************************************************************)
EXTENDS UsbFirewall, WellFoundedInduction, TLAPS

------------------------------------------------------------------------------
(* What the events and the tables speak of. *)

(* An event that names a node names a real one. *)
Events ==
  \A k \in 1 .. Len(events) :
    /\ events[k].action \in {"add", "remove"} => events[k].node \in Nodes
    /\ events[k].action = "add" => events[k].key \in Keys

(* The monitor goes on with a device only while its entry allows it: no     *)
(* other thread takes the entry away or refuses the device meanwhile.       *)
Working ==
  /\ monPc = "authorize" => monDev.key \in Keys /\ monDev.read \in Keys
  /\ monPc \in {"certify", "mount", "track"} =>
       /\ unmounted_usb[monDev.node] # NoEntry
       /\ unmounted_usb[monDev.node].auth # "Block"

Entries ==
  /\ \A n \in Nodes :
       unmounted_usb[n] # NoEntry =>
         unmounted_usb[n].key \in Keys /\ unmounted_usb[n].port \in Ports
  /\ \A p \in Ports : port[p].authorized => port[p].key \in Keys

UsbShape == UsbTypeOK /\ Events /\ Working /\ Entries

------------------------------------------------------------------------------
AtPort == [key : Keys \cup {NoKey}, authorized : BOOLEAN,
           node : Nodes \cup {0}, shown : BOOLEAN]

LEMMA MinNode == FreeNodes # {} => Min(FreeNodes) \in FreeNodes
<1> SUFFICES ASSUME FreeNodes # {} PROVE Min(FreeNodes) \in FreeNodes
  OBVIOUS
<1>1. FreeNodes \subseteq Nat
  BY UsbAssumption DEF FreeNodes
<1> HIDE DEF FreeNodes
<1> DEFINE R == {ss \in Nat \X Nat : ss[1] < ss[2]}
<1>2. IsWellFoundedOn(R, Nat)
  BY NatLessThanWellFounded, Zenon DEF OpToRel
<1> HIDE DEF R
<1>3. PICK n \in FreeNodes : \A m \in FreeNodes : ~ (<<m, n>> \in R)
  BY <1>1, <1>2, WFMin
<1>4. ASSUME NEW m \in FreeNodes PROVE n <= m
  <2>1. m \in Nat /\ n \in Nat
    BY <1>1
  <2>2. m < n => <<m, n>> \in R
    <3> DEFINE ss == <<m, n>>
    <3>1. ss \in Nat \X Nat /\ ss[1] = m /\ ss[2] = n
      BY <2>1
    <3> HIDE DEF ss
    <3>2. m < n => ss \in R
      BY <3>1 DEF R
    <3> QED
      BY <3>2 DEF ss
  <2>3. m < n \/ n <= m
    BY <2>1
  <2> QED
    BY <1>3, <2>2, <2>3
<1> QED
  BY <1>4 DEF Min

LEMMA KeyAtType ==
  ASSUME UsbTypeOK, NEW n
  PROVE  KeyAt(n) \in Keys \cup {NoKey}
BY DEF KeyAt, UsbTypeOK

LEMMA UsbInitShape == Init => UsbShape
<1> SUFFICES ASSUME Init PROVE UsbShape
  OBVIOUS
<1>1. UsbTypeOK
  <2>1. EmptyPort \in AtPort
    BY DEF EmptyPort, AtPort
  <2>2. /\ plugs \in 0 .. MaxPlugs /\ opens \in 0 .. MaxOpens
        /\ remounts \in 0 .. MaxRemounts /\ crashes \in 0 .. MaxCrashes
    BY UsbAssumption DEF Init
  <2>3. port \in [Ports -> AtPort] /\ events \in Seq(Event)
    BY <2>1 DEF Init
  <2> QED
    BY <2>2, <2>3 DEF Init, UsbTypeOK, EntryOrNone, AtPort
<1>2. Events /\ Working /\ Entries
  BY DEF Init, Events, Working, Entries, EmptyPort
<1> QED
  BY <1>1, <1>2 DEF UsbShape

------------------------------------------------------------------------------
(* What a new event brings to the queue. *)
LEMMA Notified ==
  ASSUME events \in Seq(Event), Events, NEW evts \in Seq(Event), Notify(evts),
         \A k \in 1 .. Len(evts) :
           /\ evts[k].action \in {"add", "remove"} => evts[k].node \in Nodes
           /\ evts[k].action = "add" => evts[k].key \in Keys
  PROVE  events' \in Seq(Event) /\ Events'
<1>1. CASE listening
  <2> DEFINE q == events \o evts
  <2>1. /\ events' = q /\ q \in Seq(Event) /\ Len(q) = Len(events) + Len(evts)
        /\ Len(events) \in Nat /\ Len(evts) \in Nat
        /\ \A k \in 1 .. Len(q) :
             q[k] = IF k <= Len(events) THEN events[k] ELSE evts[k - Len(events)]
    BY <1>1 DEF Notify
  <2> HIDE DEF q
  <2>2. \A k \in 1 .. Len(q) :
          \/ k \in 1 .. Len(events) /\ q[k] = events[k]
          \/ k - Len(events) \in 1 .. Len(evts) /\ q[k] = evts[k - Len(events)]
    BY <2>1
  <2> QED
    BY <2>1, <2>2 DEF Events
<1>2. CASE ~listening
  BY <1>2 DEF Notify, Events
<1> QED
  BY <1>1, <1>2

(* The event the monitor takes out of the queue. *)
LEMMA ReadEvent ==
  ASSUME events \in Seq(Event), Events, NEW action, Reading(action)
  PROVE  /\ events' \in Seq(Event) /\ Events'
         /\ Head(events) \in Event /\ Head(events).action = action
         /\ action \in {"add", "remove"} => Head(events).node \in Nodes
         /\ action = "add" => Head(events).key \in Keys
<1>1. /\ events' = Tail(events) /\ events # << >>
      /\ Head(events).action = action
  BY DEF Reading
<1>2. /\ Len(events) \in Nat /\ Len(events) >= 1 /\ Head(events) = events[1]
      /\ Tail(events) \in Seq(Event) /\ Len(Tail(events)) = Len(events) - 1
      /\ \A k \in 1 .. Len(Tail(events)) : Tail(events)[k] = events[k + 1]
  BY <1>1
<1>3. \A k \in 1 .. Len(Tail(events)) : k + 1 \in 1 .. Len(events)
  BY <1>2
<1>4. Events'
  <2>1. events'= Tail(events)
    BY <1>1
  <2> QED
    BY <2>1, <1>2, <1>3 DEF Events
<1>5. 1 \in 1 .. Len(events) /\ events[1] \in Event
  BY <1>2
<1> QED
  BY <1>1, <1>2, <1>4, <1>5 DEF Events

------------------------------------------------------------------------------
(* The types, one lemma for each party. *)

LEMMA UsbEnvironmentShape ==
  ASSUME UsbShape, Environment \/ Kernel \/ Crash \/ UNCHANGED vars
  PROVE  UsbShape'
<1> USE DEF kernelVars, tableVars, monVars, fanVars, boundVars, historyVars
<1>0. /\ UsbTypeOK /\ port \in [Ports -> AtPort]
      /\ NoKey \notin Keys /\ EmptyPort \in AtPort /\ 0 \notin Nodes
      /\ MaxPlugs \in Nat /\ MaxOpens \in Nat /\ MaxRemounts \in Nat
      /\ MaxCrashes \in Nat
      /\ plugs \in Nat /\ opens \in Nat /\ remounts \in Nat /\ crashes \in Nat
  <2>1. EmptyPort \in AtPort
    BY DEF AtPort, EmptyPort
  <2>2. /\ MaxPlugs \in Nat /\ MaxOpens \in Nat /\ MaxRemounts \in Nat
        /\ MaxCrashes \in Nat /\ NoKey \notin Keys /\ 0 \notin Nodes
    BY UsbAssumption
  <2> QED
    BY <2>1, <2>2 DEF UsbShape, UsbTypeOK, AtPort
<1>1. ASSUME NEW p \in Ports, NEW k \in Keys, Plug(p, k)
      PROVE  UsbShape'
  <2>1. /\ port' \in [Ports -> AtPort]
        /\ \A q \in Ports : port'[q].authorized => port'[q].key \in Keys
    BY <1>0, <1>1 DEF Plug, AtPort, EmptyPort, UsbShape, Entries
  <2>2. plugs' \in 0 .. MaxPlugs /\ overridden' \subseteq Keys
    BY <1>0, <1>1 DEF Plug, UsbTypeOK
  <2> QED
    BY <1>1, <2>1, <2>2 DEF Plug, UsbShape, UsbTypeOK, Events, Working, Entries, AtPort
<1>2. ASSUME NEW p \in Ports, Unplug(p)
      PROVE  UsbShape'
  <2> DEFINE u == [action |-> "unplug", port |-> p, node |-> 0, key |-> NoKey]
             r == [action |-> "remove", port |-> p, node |-> port[p].node,
                   key |-> NoKey]
  <2>1. /\ port' \in [Ports -> AtPort] /\ watched' \subseteq Ports
        /\ \A q \in Ports : port'[q].authorized => port'[q].key \in Keys
    BY <1>0, <1>2 DEF Unplug, EmptyPort, UsbShape, UsbTypeOK, Entries
  <2>2. u \in Event /\ (port[p].node # 0 => r \in Event /\ port[p].node \in Nodes)
    BY <1>0 DEF Event, AtPort
  <2> DEFINE q == Append(RemoveEvents(p), u)
  <2>3. /\ q \in Seq(Event)
        /\ \A k \in 1 .. Len(q) : q[k] = u \/ (port[p].node # 0 /\ q[k] = r)
    <3> DEFINE l == RemoveEvents(p)
    <3>1. /\ l \in Seq(Event)
          /\ \A k \in 1 .. Len(l) : port[p].node # 0 /\ l[k] = r
      BY <2>2 DEF RemoveEvents
    <3>2. u \in Event
      BY <2>2
    <3> HIDE DEF l, u, r
    <3>3. /\ q \in Seq(Event) /\ Len(q) = Len(l) + 1 /\ Len(l) \in Nat
          /\ \A k \in 1 .. Len(q) : q[k] = IF k = Len(l) + 1 THEN u ELSE l[k]
      BY <3>1, <3>2 DEF l
    <3> QED
      BY <3>1, <3>3
  <2>4. events' \in Seq(Event) /\ Events'
    <3>1. Notify(q)
      BY <1>2 DEF Unplug
    <3>2. \A k \in 1 .. Len(q) :
            q[k].action = "unplug" \/ (q[k].action = "remove" /\ q[k].node \in Nodes)
      <4> HIDE DEF q
      <4> QED
        BY <2>2, <2>3
    <3> HIDE DEF q
    <3> QED
      BY <2>3, <3>1, <3>2, Notified DEF UsbShape, UsbTypeOK
  <2> QED
    BY <1>2, <2>1, <2>4 DEF Unplug, UsbShape, UsbTypeOK, Working, Entries, AtPort
<1>3. ASSUME NEW n \in Nodes, Unmount(n) \/ DesktopMount(n)
      PROVE  UsbShape'
  <2>1. KeyAt(n) \in Keys \cup {NoKey}
    BY <1>0, KeyAtType
  <2>2. UsbTypeOK'
    BY <1>0, <1>3, <2>1 DEF Unmount, DesktopMount, UsbTypeOK
  <2> QED
    BY <1>3, <2>2 DEF Unmount, DesktopMount, UsbShape, Events, Working, Entries
<1>4. ASSUME NEW p \in Ports, Enumerate(p)
      PROVE  UsbShape'
  <2> DEFINE n == Min(FreeNodes)
             a == [action |-> "add", port |-> p, node |-> n, key |-> port[p].key]
  <2>1. n \in Nodes /\ port[p].key \in Keys
    BY <1>4, MinNode DEF Enumerate, FreeNodes, UsbShape, Entries
  <2>2. Notify(<<a>>) /\ port' = [port EXCEPT ![p].node = n]
    BY <1>4 DEF Enumerate
  <2> HIDE DEF n
  <2>3. /\ port' \in [Ports -> AtPort]
        /\ \A q \in Ports : port'[q].authorized => port'[q].key \in Keys
    BY <1>0, <2>1, <2>2 DEF AtPort, UsbShape, Entries
  <2>4. events' \in Seq(Event) /\ Events'
    <3>1. /\ <<a>> \in Seq(Event)
          /\ \A k \in 1 .. Len(<<a>>) : <<a>>[k].node \in Nodes /\ <<a>>[k].key \in Keys
      BY <2>1 DEF Event
    <3> QED
      BY <2>2, <3>1, Notified DEF UsbShape, UsbTypeOK
  <2>5. watched' \subseteq Ports
    BY <1>0, <1>4 DEF Enumerate, UsbTypeOK
  <2> QED
    BY <1>4, <2>3, <2>4, <2>5
       DEF Enumerate, UsbShape, UsbTypeOK, Working, Entries, AtPort
<1>5. CASE Crash
  <2>1. UsbTypeOK'
    <3>1. /\ events' = << >> /\ monPc' = "idle" /\ monDev' = NoEntry
          /\ opening' = {} /\ asking' = 0 /\ filtering' = TRUE
          /\ crashes' \in 0 .. MaxCrashes
          /\ daemon' = "down" /\ listening' = FALSE
          /\ unmounted_usb' \in [Nodes -> EntryOrNone]
          /\ mounted_usb' \in [Nodes -> EntryOrNone]
      BY <1>0, <1>5 DEF Crash, EntryOrNone
    <3>2. /\ marked' = {} /\ watched' = {} /\ unfiltered' = {}
          /\ UNCHANGED <<port, mounts, sentinels, plugs, opens, remounts, overridden>>
      BY <1>5 DEF Crash
    <3>3. /\ (monDev \in Work \cup {NoEntry} /\ (monDev = NoEntry <=> monPc = "idle"))'
          /\ (opening \subseteq Mounts /\ asking \in opening \cup {0})'
          /\ (marked \subseteq Mounts /\ watched \subseteq Ports)'
          /\ (unfiltered \subseteq Nodes /\ events \in Seq(Event))'
      BY <3>1, <3>2
    <3> QED
      BY <1>0, <3>1, <3>2, <3>3 DEF UsbTypeOK
  <2> QED
    BY <1>5, <2>1 DEF Crash, UsbShape, Events, Working, Entries
<1>6. CASE UNCHANGED vars
  BY <1>6 DEF vars, UsbShape, UsbTypeOK, Events, Working, Entries
<1>7. ASSUME NEW n \in Mounts, Open(n)
      PROVE  UsbShape'
  <2>1. UsbTypeOK'
    BY <1>0, <1>7 DEF Open, UsbTypeOK
  <2> QED
    BY <1>7, <2>1 DEF Open, UsbShape, Events, Working, Entries
<1> QED
  BY <1>1, <1>2, <1>3, <1>4, <1>5, <1>6, <1>7 DEF Environment, Kernel

(* Only the queue and the monitor's device change. *)
LEMMA OnlyWork ==
  ASSUME UsbShape,
         UNCHANGED <<kernelVars, marked, daemon, listening, tableVars, fanVars,
                     boundVars, historyVars>>,
         sentinels' \subseteq Nodes, events' \in Seq(Event), Events', Working',
         monPc' \in {"idle", "remove", "authorize"},
         IF monPc' = "idle" THEN monDev' = NoEntry ELSE monDev' \in Work
  PROVE  UsbShape'
<1>1. NoEntry \notin Work
  BY NoEntryAssumption
<1>2. monDev' \in Work \cup {NoEntry} /\ (monDev' = NoEntry <=> monPc' = "idle")
  BY <1>1
<1>3. UsbTypeOK'
  BY <1>2 DEF UsbShape, UsbTypeOK, kernelVars, tableVars, fanVars, boundVars,
              historyVars
<1>4. Entries'
  BY DEF UsbShape, Entries, kernelVars, tableVars
<1> QED
  BY <1>3, <1>4 DEF UsbShape

(* The filter marks what it finds. *)
LEMMA MarksType ==
  ASSUME UsbTypeOK, NEW n \in Nodes, NEW auth, NEW marks \in MarksAfter(n, auth)
  PROVE  marks \subseteq Mounts
BY DEF MarksAfter, UsbTypeOK, Mounts

LEMMA UsbMonitorShape ==
  ASSUME UsbShape, Monitor
  PROVE  UsbShape'
<1> USE DEF kernelVars, tableVars, monVars, fanVars, boundVars, historyVars
<1>0. /\ UsbTypeOK /\ events \in Seq(Event) /\ Events /\ Working /\ Entries
      /\ port \in [Ports -> AtPort] /\ EmptyPort.authorized = FALSE
      /\ NoKey \notin Keys /\ NoEntry \notin Work /\ NoEntry \notin Entry
      /\ unmounted_usb \in [Nodes -> EntryOrNone]
      /\ mounted_usb \in [Nodes -> EntryOrNone]
  BY UsbAssumption, NoEntryAssumption DEF UsbShape, UsbTypeOK, AtPort, EmptyPort
<1>1. monPc # "idle" => monDev \in Work /\ monDev.node \in Nodes /\ monDev.port \in Ports
  BY <1>0 DEF UsbTypeOK, Work
<1>2. CASE MonitorUnplug
  <2>1. events' \in Seq(Event) /\ Events'
    BY <1>0, <1>2, ReadEvent DEF MonitorUnplug
  <2>2. \A n \in Nodes : unmounted_usb'[n] \in {unmounted_usb[n], NoEntry}
    BY <1>2 DEF MonitorUnplug
  <2>3. unmounted_usb' \in [Nodes -> EntryOrNone] /\ monPc = "idle"
    BY <1>0, <1>2 DEF MonitorUnplug, EntryOrNone, Reading
  <2>4. UsbTypeOK'
    BY <1>0, <1>2, <2>1, <2>3 DEF MonitorUnplug, UsbTypeOK
  <2>5. Working' /\ Entries'
    BY <1>0, <1>2, <2>2, <2>3 DEF MonitorUnplug, Working, Entries
  <2> QED
    BY <2>1, <2>4, <2>5 DEF UsbShape
<1>3. CASE MonitorRemove
  <2>1. /\ events' \in Seq(Event) /\ Events' /\ Head(events) \in Event
        /\ Head(events).node \in Nodes
    BY <1>0, <1>3, ReadEvent DEF MonitorRemove
  <2>2. monPc' = "remove" /\ monDev' \in Work /\ sentinels' \subseteq Nodes
    BY <1>0, <1>3, <2>1 DEF MonitorRemove, Work, Event, UsbTypeOK
  <2>3. Working'
    BY <2>2 DEF Working
  <2> QED
    BY <1>3, <2>1, <2>2, <2>3, OnlyWork DEF MonitorRemove
<1>4. CASE MonitorIgnore
  <2>1. events' \in Seq(Event) /\ Events'
    BY <1>0, <1>4, ReadEvent DEF MonitorIgnore
  <2>2. monPc' = "idle" /\ monDev' = NoEntry /\ Working' /\ sentinels' \subseteq Nodes
    BY <1>0, <1>4 DEF MonitorIgnore, Reading, UsbTypeOK, Working
  <2> QED
    BY <1>4, <2>1, <2>2, OnlyWork DEF MonitorIgnore
<1>5. CASE MonitorRead
  <2>1. /\ events' \in Seq(Event) /\ Events' /\ Head(events) \in Event
        /\ Head(events).node \in Nodes /\ Head(events).key \in Keys
    BY <1>0, <1>5, ReadEvent DEF MonitorRead
  <2>2. KeyAt(Head(events).node) \in Keys
    BY <1>0, <1>5, KeyAtType DEF MonitorRead, Readable
  <2>3. /\ monPc' = "authorize" /\ monDev' \in Work
        /\ monDev'.key \in Keys /\ monDev'.read \in Keys
    BY <1>5, <2>1, <2>2 DEF MonitorRead, Work, Event
  <2>4. Working' /\ sentinels' \subseteq Nodes
    BY <1>0, <1>5, <2>3 DEF Working, MonitorRead, UsbTypeOK
  <2> QED
    BY <1>5, <2>1, <2>3, <2>4, OnlyWork DEF MonitorRead
<1>6. CASE MonitorForget
  <2>1. /\ unmounted_usb' \in [Nodes -> EntryOrNone]
        /\ mounted_usb' \in [Nodes -> EntryOrNone]
        /\ \A n \in Nodes : unmounted_usb'[n] \in {unmounted_usb[n], NoEntry}
    BY <1>0, <1>6 DEF MonitorForget, EntryOrNone
  <2>2. /\ marked' \subseteq Mounts /\ monPc' = "idle" /\ monDev' = NoEntry
        /\ UNCHANGED <<kernelVars, events, sentinels, daemon, listening, fanVars,
                       boundVars, historyVars>>
    BY <1>0, <1>1, <1>6, MarksType DEF MonitorForget, UsbTypeOK
  <2>3. UsbTypeOK'
    BY <1>0, <2>1, <2>2 DEF UsbTypeOK
  <2>4. Events' /\ Working' /\ Entries'
    BY <1>0, <2>1, <2>2 DEF Events, Working, Entries
  <2> QED
    BY <2>3, <2>4 DEF UsbShape
<1>7. CASE MonitorAuthorize
  <2> DEFINE n == monDev.node
             known == unmounted_usb[n]
             new == [port |-> monDev.port, key |-> monDev.key,
                     auth |-> Authorization(monDev.key, monDev.read)]
             device == IF known # NoEntry /\ known.auth # "Block" THEN known ELSE new
  <2>1. /\ monPc = "authorize" /\ monDev \in Work /\ n \in Nodes
        /\ monDev.key \in Keys /\ monDev.port \in Ports /\ known \in EntryOrNone
    BY <1>0, <1>1, <1>7 DEF MonitorAuthorize, Working
  <2>2. new \in Entry /\ new.key \in Keys /\ new.port \in Ports
    <3>1. Authorization(monDev.key, monDev.read) \in UsbAuthorization
      BY DEF Authorization, UsbAuthorization, Allowances, UserGrant
    <3> QED
      BY <2>1, <3>1 DEF Entry
  <2>3. device \in Entry /\ device.key \in Keys /\ device.port \in Ports
    BY <1>0, <2>1, <2>2 DEF EntryOrNone, Entries
  <2>4. /\ unmounted_usb' = [unmounted_usb EXCEPT ![n] = device]
        /\ monPc' = IF device.auth = "Block" THEN "deauthorize" ELSE "certify"
        /\ monDev' = [monDev EXCEPT !.key = NoKey, !.read = NoKey]
        /\ UNCHANGED <<kernelVars, events, marked, sentinels, daemon, listening,
                       mounted_usb, fanVars, boundVars, historyVars>>
    BY <1>7 DEF MonitorAuthorize
  <2> HIDE DEF device
  <2>5. monDev' \in Work /\ monDev'.node = n /\ monPc' \in {"deauthorize", "certify"}
    BY <2>1, <2>4 DEF Work
  <2>6. /\ unmounted_usb' \in [Nodes -> EntryOrNone] /\ unmounted_usb'[n] = device
        /\ \A m \in Nodes : m # n => unmounted_usb'[m] = unmounted_usb[m]
    BY <1>0, <2>1, <2>3, <2>4 DEF EntryOrNone
  <2>7. UsbTypeOK'
    BY <1>0, <2>4, <2>5, <2>6 DEF UsbTypeOK
  <2>8. Events' /\ Working' /\ Entries'
    BY <1>0, <2>3, <2>4, <2>5, <2>6 DEF Events, Working, Entries
  <2> QED
    BY <2>7, <2>8 DEF UsbShape
<1>8. CASE MonitorDeauthorize
  <2> DEFINE p == monDev.port
  <2>1. p \in Ports /\ monPc' = "idle" /\ monDev' = NoEntry
    BY <1>1, <1>8 DEF MonitorDeauthorize
  <2>2. /\ port' \in [Ports -> AtPort]
        /\ \A q \in Ports : port'[q].authorized => port'[q].key \in Keys
    <3>1. [EmptyPort EXCEPT !.key = port[p].key] \in AtPort
      BY <1>0, <2>1 DEF AtPort, EmptyPort
    <3>2. [EmptyPort EXCEPT !.key = port[p].key].authorized = FALSE
      BY DEF EmptyPort
    <3> QED
      BY <1>0, <1>8, <2>1, <3>1, <3>2 DEF MonitorDeauthorize, Entries
  <2>3. events' \in Seq(Event) /\ Events'
    <3> DEFINE q == RemoveEvents(p)
    <3>1. /\ q \in Seq(Event)
          /\ \A k \in 1 .. Len(q) : q[k].action = "remove" /\ q[k].node \in Nodes
      <4> DEFINE r == [action |-> "remove", port |-> p, node |-> port[p].node,
                       key |-> NoKey]
      <4>1. /\ port[p].node # 0 => r \in Event /\ r.node \in Nodes
            /\ r.action = "remove"
        BY <1>0, <2>1 DEF Event, AtPort
      <4>2. q = IF port[p].node = 0 THEN << >> ELSE <<r>>
        BY DEF RemoveEvents
      <4> HIDE DEF r, q
      <4> QED
        BY <4>1, <4>2
    <3> HIDE DEF q
    <3>2. events' = events \/ Notify(q)
      BY <1>8 DEF MonitorDeauthorize, q
    <3> QED
      BY <1>0, <3>1, <3>2, Notified DEF Events
  <2>4. UsbTypeOK'
    BY <1>0, <1>8, <2>1, <2>2, <2>3 DEF MonitorDeauthorize, UsbTypeOK, AtPort
  <2> QED
    BY <1>0, <1>8, <2>1, <2>2, <2>3, <2>4
       DEF MonitorDeauthorize, UsbShape, Working, Entries
<1>13. CASE MonitorDeauthorizeFails
  <2>1. watched' \subseteq Ports /\ monPc' = "idle" /\ monDev' = NoEntry
    BY <1>0, <1>13 DEF MonitorDeauthorizeFails, UsbTypeOK
  <2>2. UsbTypeOK'
    BY <1>0, <1>13, <2>1 DEF MonitorDeauthorizeFails, UsbTypeOK
  <2> QED
    BY <1>0, <1>13, <2>1, <2>2
       DEF MonitorDeauthorizeFails, UsbShape, Events, Working, Entries
<1>9. CASE MonitorCertify
  <2>1. /\ port' \in [Ports -> AtPort]
        /\ \A q \in Ports : port'[q].authorized => port'[q].key \in Keys
    BY <1>0, <1>9 DEF MonitorCertify, AtPort, Entries
  <2>2. monDev \in Work /\ sentinels' \subseteq Nodes
    BY <1>0, <1>1, <1>9 DEF MonitorCertify, UsbTypeOK
  <2>3. UsbTypeOK'
    BY <1>0, <1>9, <2>1, <2>2 DEF MonitorCertify, UsbTypeOK, AtPort
  <2> QED
    BY <1>0, <1>9, <2>1, <2>3 DEF MonitorCertify, UsbShape, Events, Working, Entries
<1>10. CASE MonitorMount
  <2>1. KeyAt(monDev.node) \in Keys \cup {NoKey} /\ monDev \in Work
    BY <1>0, <1>1, <1>10, KeyAtType DEF MonitorMount
  <2>2. UsbTypeOK'
    BY <1>0, <1>10, <2>1 DEF MonitorMount, UsbTypeOK
  <2> QED
    BY <1>0, <1>10, <2>2 DEF MonitorMount, UsbShape, Events, Working, Entries
<1>11. CASE MonitorMountFails
  BY <1>0, <1>11 DEF MonitorMountFails, UsbShape, UsbTypeOK, Events, Working, Entries
<1>12. CASE MonitorTrack
  <2>1. /\ unmounted_usb' \in [Nodes -> EntryOrNone]
        /\ mounted_usb' \in [Nodes -> EntryOrNone]
        /\ \A n \in Nodes : unmounted_usb'[n] \in {unmounted_usb[n], NoEntry}
    BY <1>0, <1>1, <1>12 DEF MonitorTrack, EntryOrNone
  <2>2. /\ marked' \subseteq Mounts /\ monPc' = "idle" /\ monDev' = NoEntry
        /\ UNCHANGED <<kernelVars, events, sentinels, daemon, listening, fanVars,
                       boundVars, historyVars>>
    BY <1>0, <1>1, <1>12, MarksType DEF MonitorTrack, UsbTypeOK
  <2>3. UsbTypeOK'
    BY <1>0, <2>1, <2>2 DEF UsbTypeOK
  <2>4. Events' /\ Working' /\ Entries'
    BY <1>0, <2>1, <2>2 DEF Events, Working, Entries
  <2> QED
    BY <2>3, <2>4 DEF UsbShape
<1> QED
  BY <1>2, <1>3, <1>4, <1>5, <1>6, <1>7, <1>8, <1>9, <1>10, <1>11, <1>12, <1>13
     DEF Monitor

LEMMA UsbOtherShape ==
  ASSUME UsbShape, User \/ Filter \/ FilterStops \/ Start \/ Listen \/ Recover
  PROVE  UsbShape'
<1> USE DEF kernelVars, tableVars, monVars, fanVars, boundVars, historyVars
<1>0. /\ UsbTypeOK /\ Events /\ Working /\ Entries
      /\ port \in [Ports -> AtPort] /\ 0 \notin Nodes
      /\ unmounted_usb \in [Nodes -> EntryOrNone]
      /\ UserGrant \in Allowances /\ NoEntry \notin Entry
  BY UsbAssumption, NoEntryAssumption
     DEF UsbShape, UsbTypeOK, AtPort, UserGrant, Allowances
<1>1. ASSUME NEW n \in Nodes, Override(n)
      PROVE  UsbShape'
  <2>1. /\ unmounted_usb[n] \in Entry /\ unmounted_usb[n].key \in Keys
        /\ unmounted_usb[n].port \in Ports
    BY <1>0, <1>1 DEF Override, EntryOrNone, Entries
  <2>2. unmounted_usb' = [unmounted_usb EXCEPT ![n] =
                            [unmounted_usb[n] EXCEPT !.auth = UserGrant]]
    BY <1>1 DEF Override
  <2> DEFINE e == [unmounted_usb[n] EXCEPT !.auth = UserGrant]
  <2>3. /\ e \in Entry /\ e.key = unmounted_usb[n].key
        /\ e.port = unmounted_usb[n].port /\ e.auth = UserGrant
    BY <1>0, <2>1 DEF Entry, UsbAuthorization
  <2>4. UserGrant # "Block"
    BY DEF UserGrant
  <2> HIDE DEF e
  <2>5. /\ unmounted_usb' \in [Nodes -> EntryOrNone]
        /\ \A m \in Nodes : unmounted_usb'[m] = IF m = n THEN e ELSE unmounted_usb[m]
    BY <1>0, <2>2, <2>3 DEF EntryOrNone, e
  <2>6. /\ port' \in [Ports -> AtPort] /\ overridden' \subseteq Keys
        /\ \A q \in Ports : port'[q].authorized => port'[q].key \in Keys
    <3>1. overridden' \subseteq Keys
      BY <1>0, <1>1, <2>1 DEF Override, UsbTypeOK
    <3>2. PICK p \in Ports : p = unmounted_usb[n].port
      BY <2>1
    <3>3. \/ port' = port
          \/ port[p].key # NoKey /\ port' = [port EXCEPT ![p].authorized = TRUE]
      BY <1>1, <3>2 DEF Override
    <3>4. port[p] \in AtPort
      BY <1>0
    <3>5. [port[p] EXCEPT !.authorized = TRUE] \in AtPort
      BY <3>4 DEF AtPort
    <3>6. [port[p] EXCEPT !.authorized = TRUE].key = port[p].key
      BY <3>4 DEF AtPort
    <3>7. port[p].key # NoKey => port[p].key \in Keys
      BY <3>4 DEF AtPort
    <3> QED
      BY <1>0, <3>1, <3>3, <3>5, <3>6, <3>7 DEF Entries
  <2>7. UsbTypeOK'
    BY <1>0, <1>1, <2>5, <2>6 DEF Override, UsbTypeOK, AtPort
  <2>8. Events'
    BY <1>0, <1>1 DEF Override, Events
  <2>9. Working'
    <3>1. UNCHANGED <<monPc, monDev>>
      BY <1>1 DEF Override
    <3>2. monPc # "idle" => monDev.node \in Nodes
      BY <1>0 DEF UsbTypeOK, Work
    <3> QED
      BY <1>0, <2>3, <2>4, <2>5, <3>1, <3>2 DEF Working
  <2>10. Entries'
    BY <1>0, <2>1, <2>3, <2>5, <2>6 DEF Entries
  <2> QED
    BY <2>7, <2>8, <2>9, <2>10 DEF UsbShape
<1>2. ASSUME NEW n \in Nodes, NEW auth \in UsbAuthorization, RequestUpdate(n, auth)
      PROVE  UsbShape'
  <2>1. marked' \subseteq Mounts /\ unfiltered' \subseteq Nodes
    BY <1>0, <1>2, MarksType DEF RequestUpdate, UsbTypeOK
  <2> QED
    BY <1>0, <1>2, <2>1
       DEF RequestUpdate, UsbShape, UsbTypeOK, Events, Working, Entries
<1>3. CASE Filter \/ FilterStops
  <2>1. /\ asking' \in opening' \cup {0} /\ opening' \subseteq Mounts
        /\ filtering' \in BOOLEAN
    BY <1>0, <1>3 DEF Filter, FilterAllow, FilterAsk, FilterAnswer, FilterStops,
                      LockFree, UsbTypeOK
  <2>2. UNCHANGED <<kernelVars, events, marked, sentinels, daemon, listening,
                    tableVars, monVars, boundVars, historyVars>>
    BY <1>3 DEF Filter, FilterAllow, FilterAsk, FilterAnswer, FilterStops
  <2>3. UsbTypeOK'
    BY <1>0, <2>1, <2>2 DEF UsbTypeOK
  <2>4. Events' /\ Working' /\ Entries'
    BY <1>0, <2>2 DEF Events, Working, Entries
  <2> QED
    BY <2>3, <2>4 DEF UsbShape
<1>4. CASE Start \/ Listen
  BY <1>0, <1>4 DEF Start, Listen, UsbShape, UsbTypeOK, Events, Working, Entries
<1>5. CASE Recover
  <2>1. [port |-> NoPort, key |-> NoKey, auth |-> UserGrant] \in Entry
    BY <1>0 DEF Entry, UsbAuthorization
  <2>2. /\ mounted_usb' \in [Nodes -> EntryOrNone]
        /\ marked' \subseteq Mounts /\ sentinels' \subseteq Nodes
    BY <1>0, <1>5, <2>1 DEF Recover, EntryOrNone, UsbTypeOK, Mounts
  <2>3. /\ daemon' = "up"
        /\ UNCHANGED <<kernelVars, events, listening, unmounted_usb, monVars,
                       fanVars, boundVars, historyVars>>
    BY <1>5 DEF Recover
  <2> QED
    BY <1>0, <2>2, <2>3 DEF UsbShape, UsbTypeOK, Events, Working, Entries
<1> QED
  BY <1>1, <1>2, <1>3, <1>4, <1>5 DEF User

LEMMA UsbShapeStep == UsbShape /\ [Next]_vars => UsbShape'
BY UsbEnvironmentShape, UsbMonitorShape, UsbOtherShape DEF Next, Daemon

(* Every variable of the firewall keeps to its type, whatever is plugged,   *)
(* pulled out or overridden and wherever the daemon dies.                   *)
THEOREM UsbTypeCorrect == Spec => []UsbTypeOK
<1>1. UsbShape => UsbTypeOK
  BY DEF UsbShape
<1> QED
  BY <1>1, UsbInitShape, UsbShapeStep, PTL DEF Spec

------------------------------------------------------------------------------
(* The filter stands on the mounts of the tracked devices.                  *)

(* A node that is tracked, mounted and not exempt.                          *)
Filtered(n) ==
  /\ mounted_usb[n] # NoEntry /\ mounts[n] # NoKey
  /\ ~(monPc = "track" /\ monDev.node = n)
  /\ n \notin unfiltered

LEMMA FilteredStays ==
  ASSUME MountedIsMarked, daemon' = "up" => daemon = "up",
         \A n \in Nodes : n \in marked => n \in marked' \/ ~Filtered(n)',
         \A n \in Nodes : Filtered(n)' => Filtered(n) \/ n \in marked'
  PROVE  MountedIsMarked'
BY DEF MountedIsMarked, Filtered

(* A call about one mount leaves the marks of the other devices as they are. *)
LEMMA MarksOf ==
  ASSUME NEW n \in Nodes, NEW auth, NEW marks \in MarksAfter(n, auth)
  PROVE  /\ \A m \in Nodes \ {n} : m \in marked => m \in marks
         /\ auth # "Block" => /\ marked \subseteq marks
                              /\ mounts[n] # NoKey => n \in marks
<1>1. Host \notin Nodes
  BY UsbAssumption
<1> QED
  BY <1>1 DEF MarksAfter

LEMMA MarkedStep ==
  ASSUME UsbShape, MountedIsMarked, [Next]_vars
  PROVE  MountedIsMarked'
<1> USE DEF kernelVars, tableVars, monVars, fanVars, boundVars, historyVars
<1>0. /\ UsbTypeOK /\ Working
      /\ mounts \in [Nodes -> Keys \cup {NoKey}]
      /\ mounted_usb \in [Nodes -> EntryOrNone]
      /\ monPc # "idle" => monDev.node \in Nodes
  BY DEF UsbShape, UsbTypeOK, Work
<1>1. ASSUME UNCHANGED <<mounts, marked, mounted_usb, unfiltered>>,
             daemon' = "up" => daemon = "up",
             monPc = "track" => UNCHANGED <<monPc, monDev>>
      PROVE  MountedIsMarked'
  BY <1>1, FilteredStays DEF Filtered
<1>2. CASE Environment \/ Kernel \/ UNCHANGED vars
  <2>1. ASSUME NEW n \in Nodes, Unmount(n) \/ DesktopMount(n) PROVE MountedIsMarked'
    <3>1. /\ n \notin marked' => ~Filtered(n)'
          /\ \A m \in Nodes \ {n} : Filtered(m)' => Filtered(m)
          /\ \A m \in Nodes \ {n} : m \in marked => m \in marked'
          /\ UNCHANGED daemon
      BY <1>0, <2>1 DEF Unmount, DesktopMount, Filtered
    <3> QED
      BY <3>1, FilteredStays
  <2> QED
    BY <1>1, <1>2, <2>1 DEF Environment, Kernel, Plug, Unplug, Open, Enumerate, vars
<1>3. CASE MonitorForget
  <2> PICK n \in Nodes : n = monDev.node
    BY <1>0, <1>3 DEF MonitorForget
  <2>1. /\ monPc = "remove" /\ monPc' = "idle"
        /\ mounted_usb' = [mounted_usb EXCEPT ![n] = NoEntry]
        /\ \A m \in Nodes \ {n} : m \in marked => m \in marked'
        /\ UNCHANGED <<mounts, unfiltered, daemon>>
    BY <1>0, <1>3, MarksOf DEF MonitorForget
  <2>2. /\ ~Filtered(n)'
        /\ \A m \in Nodes \ {n} : Filtered(m)' => Filtered(m)
        /\ \A m \in Nodes \ {n} : m \in marked => m \in marked'
    BY <1>0, <2>1 DEF Filtered
  <2> QED
    BY <2>1, <2>2, FilteredStays
<1>4. CASE MonitorTrack
  <2> PICK n \in Nodes : n = monDev.node
    BY <1>0, <1>4 DEF MonitorTrack
  <2>1. /\ monPc = "track" /\ monPc' = "idle"
        /\ unmounted_usb[n] # NoEntry /\ unmounted_usb[n].auth # "Block"
    BY <1>0, <1>4 DEF MonitorTrack, Working
  <2>2. /\ mounted_usb' = [mounted_usb EXCEPT ![n] = unmounted_usb[n]]
        /\ marked \subseteq marked' /\ (mounts[n] # NoKey => n \in marked')
        /\ UNCHANGED <<mounts, unfiltered, daemon>>
    BY <1>4, <2>1, MarksOf DEF MonitorTrack
  <2>3. /\ Filtered(n)' => n \in marked'
        /\ \A m \in Nodes \ {n} : Filtered(m)' => Filtered(m)
        /\ marked \subseteq marked'
    <3>1. Filtered(n)' => n \in marked'
      BY <2>2 DEF Filtered
    <3>2. \A m \in Nodes \ {n} : Filtered(m)' => Filtered(m)
      BY <1>0, <2>1, <2>2 DEF Filtered
    <3> QED
      BY <2>2, <3>1, <3>2
  <2> QED
    BY <2>2, <2>3, FilteredStays
<1>5. CASE MonitorMount
  <2> PICK n \in Nodes : n = monDev.node
    BY <1>0, <1>5 DEF MonitorMount
  <2>1. /\ monPc' = "track" /\ monDev' = monDev
        /\ \A m \in Nodes \ {n} : mounts'[m] = mounts[m]
        /\ unfiltered' = unfiltered \ {n}
        /\ UNCHANGED <<marked, mounted_usb, daemon>> /\ monPc = "mount"
    BY <1>0, <1>5 DEF MonitorMount
  <2>2. ~Filtered(n)'
    BY <2>1 DEF Filtered
  <2>3. \A m \in Nodes \ {n} : Filtered(m)' => Filtered(m)
    BY <2>1 DEF Filtered
  <2> QED
    BY <2>1, <2>2, <2>3, FilteredStays
<1>6. CASE MonitorUnplug \/ MonitorRemove \/ MonitorIgnore \/ MonitorRead
           \/ MonitorAuthorize \/ MonitorDeauthorize \/ MonitorDeauthorizeFails
           \/ MonitorCertify \/ MonitorMountFails
  BY <1>1, <1>6 DEF MonitorUnplug, MonitorRemove, MonitorIgnore, MonitorRead,
                    MonitorAuthorize, MonitorDeauthorize, MonitorDeauthorizeFails,
                    MonitorCertify, MonitorMountFails, Reading
<1>7. CASE User
  <2>1. ASSUME NEW n \in Nodes, Override(n) PROVE MountedIsMarked'
    BY <1>1, <2>1 DEF Override
  <2>2. ASSUME NEW n \in Nodes, NEW auth \in UsbAuthorization, RequestUpdate(n, auth)
        PROVE  MountedIsMarked'
    <3>1. /\ marked' \in MarksAfter(n, auth)
          /\ unfiltered' = IF auth = "Block" THEN unfiltered \cup {n}
                           ELSE unfiltered \ {n}
          /\ UNCHANGED <<mounts, mounted_usb, monPc, monDev, daemon>>
      BY <2>2 DEF RequestUpdate
    <3>2. Filtered(n)' => n \in marked'
      BY <3>1, MarksOf DEF Filtered
    <3>3. \A m \in Nodes \ {n} : /\ Filtered(m)' => Filtered(m)
                                 /\ m \in marked => m \in marked'
      BY <3>1, MarksOf DEF Filtered
    <3> QED
      BY <3>1, <3>2, <3>3, FilteredStays
  <2> QED
    BY <1>7, <2>1, <2>2 DEF User
<1>8. CASE Filter \/ FilterStops \/ Start \/ Listen
  BY <1>1, <1>8 DEF Filter, FilterAllow, FilterAsk, FilterAnswer, FilterStops, Start,
                    Listen
<1>9. CASE Recover
  <2>1. \A n \in Nodes : mounted_usb'[n] # NoEntry => n \in marked'
    BY <1>9 DEF Recover
  <2> QED
    BY <2>1 DEF MountedIsMarked
<1>10. CASE Crash
  BY <1>10 DEF Crash, MountedIsMarked
<1> QED
  BY <1>2, <1>3, <1>4, <1>5, <1>6, <1>7, <1>8, <1>9, <1>10
     DEF Next, Daemon, Monitor

(* In every behaviour, a file opened on the mount of a tracked device is    *)
(* one the filter is asked about, but for the mounts the user asked not to  *)
(* have filtered, those the desktop made, and the one being tracked.        *)
THEOREM TrackedMountsAreFiltered == Spec => []MountedIsMarked
<1>1. Init => UsbShape /\ MountedIsMarked
  BY UsbInitShape DEF Init, MountedIsMarked
<1>2. UsbShape /\ MountedIsMarked /\ [Next]_vars => (UsbShape /\ MountedIsMarked)'
  BY UsbShapeStep, MarkedStep
<1> QED
  BY <1>1, <1>2, PTL DEF Spec

------------------------------------------------------------------------------
(* What the queue of events says of the ports, the nodes and the tables.    *)

Adds == {i \in 1 .. Len(events) : events[i].action = "add"}

(* After event i (0: in the whole queue), the device of port p was pulled   *)
(* out, or the node n goes; between events i and j, p was pulled out.       *)
Pulled(i, p) ==
  \E l \in 1 .. Len(events) :
    i < l /\ events[l].action = "unplug" /\ events[l].port = p
Goes(i, n) ==
  \E l \in 1 .. Len(events) :
    i < l /\ events[l].action = "remove" /\ events[l].node = n
PulledBefore(i, j, p) ==
  \E l \in 1 .. Len(events) :
    i < l /\ l < j /\ events[l].action = "unplug" /\ events[l].port = p

Here(p, n, k) == port[p].node = n /\ port[p].key = k
Allowed(n) == unmounted_usb[n] # NoEntry /\ unmounted_usb[n].auth # "Block"

(* The daemon has read of the device of port p. *)
Met(p) ==
  \/ \E n \in Nodes : unmounted_usb[n] # NoEntry /\ unmounted_usb[n].port = p
  \/ monPc \notin {"idle", "remove"} /\ monDev.port = p

(* Ports have nodes and keys of their own, and nobody overrides.            *)
Plugged ==
  /\ overridden = {}
  /\ \A p \in Ports : port[p].node # 0 => port[p].authorized
  /\ \A p \in Ports : port[p].authorized => port[p].key # NoKey
  /\ \A p, q \in Ports :
       \/ port[p].node = port[q].node /\ port[p].node # 0
       \/ port[p].key = port[q].key /\ port[p].key # NoKey
       => p = q

(* Before it listens, the monitor has nothing; what is tracked then is what *)
(* recover_mounted_devices found.                                           *)
Deaf ==
  ~listening =>
    /\ events = << >> /\ monPc = "idle" /\ watched = {}
    /\ \A n \in Nodes :
         /\ unmounted_usb[n] = NoEntry
         /\ mounted_usb[n] = NoEntry \/ mounted_usb[n].port = NoPort

(* A device that was announced is still there, or its going was queued: its *)
(* port was pulled out, unless the daemon disconnected it.                  *)
Announced ==
  \A i \in Adds :
    LET e == events[i] IN
    \/ Here(e.port, e.node, e.key)
    \/ Goes(i, e.node) /\ (Pulled(i, e.port) \/ port[e.port].key = e.key)

(* Between two devices of one port, and two places of one key, there is the *)
(* event of the pulling out; between two of one node, that of its going.    *)
Separate ==
  \A i, j \in Adds : i < j =>
    /\ \/ events[i].port = events[j].port
       \/ events[i].key = events[j].key
       => PulledBefore(i, j, events[i].port)
    /\ events[i].node = events[j].node => Goes(i, events[i].node)

(* What the daemon knows of a port is forgotten before the port's next      *)
(* device is announced.                                                     *)
Forgotten ==
  /\ \A i \in Adds : Met(events[i].port) => PulledBefore(0, i, events[i].port)
  /\ \A p \in Ports :
       port[p].key = NoKey \/ (port[p].authorized /\ port[p].node = 0) =>
         /\ \A i \in Adds : events[i].port = p => Pulled(i, p)
         /\ Met(p) => Pulled(0, p)

(* An allowance is forgotten before the next device of the node that stays  *)
(* is read.                                                                 *)
Expires(p, n) ==
  \A i \in Adds : events[i].node = n /\ ~Goes(i, n) => PulledBefore(0, i, p)
Lapses ==
  \A n \in Nodes : Allowed(n) =>
    LET e == unmounted_usb[n] IN
    /\ Here(e.port, n, e.key) \/ Pulled(0, e.port)
    /\ Expires(e.port, n)

(* What the monitor is about to authorise, disconnect or track.             *)
Judging ==
  LET p == monDev.port
      n == monDev.node
      k == monDev.key
  IN
  monPc = "authorize" =>
    /\ \A m \in Nodes : unmounted_usb[m] # NoEntry => unmounted_usb[m].port # p
    /\ Here(p, n, k) \/ Goes(0, n)
    /\ k = monDev.read => (Here(p, n, k) \/ Pulled(0, p)) /\ Expires(p, n)
    /\ Allowed(n) => Goes(0, n)

Refusing ==
  monPc = "deauthorize" =>
    \A m \in Nodes : Allowed(m) => unmounted_usb[m].port # monDev.port

Accepting ==
  monPc \in {"certify", "mount", "track"} =>
    LET e == unmounted_usb[monDev.node] IN
    Here(e.port, monDev.node, e.key) \/ Goes(0, monDev.node)

Tracked ==
  \A n \in Nodes :
    mounted_usb[n] # NoEntry /\ mounted_usb[n].port # NoPort =>
      \/ Here(mounted_usb[n].port, n, mounted_usb[n].key)
      \/ Goes(0, n)
      \/ monPc = "remove" /\ monDev.node = n

(* A refused key is known to the monitor, or about to be.                   *)
Pursues(p, n, k) ==
  \/ \E i \in Adds : /\ events[i].port = p /\ events[i].node = n
                     /\ events[i].key = k /\ ~Goes(i, n)
  \/ /\ monPc = "authorize" /\ ~Goes(0, n)
     /\ monDev = [port |-> p, node |-> n, key |-> k, read |-> k]
  \/ monPc = "deauthorize" /\ monDev.port = p
Pursued ==
  \A p \in Ports : Unwanted(p) => Pursues(p, port[p].node, port[p].key)

QueueInv == Plugged /\ Deaf /\ Announced /\ Separate /\ Forgotten
TableInv == Lapses /\ Judging /\ Refusing /\ Accepting /\ Tracked /\ Pursued
LogInv == QueueInv /\ TableInv

(* The policy keysas-firewall is delivered with: keys without a signature   *)
(* are refused, and the user cannot allow them.                             *)
Strict == ~disable_unsigned_usb /\ ~allow_user_usb_authorization

------------------------------------------------------------------------------
(* What the types say of all this. *)
LEMMA LogFacts ==
  ASSUME UsbShape
  PROVE  /\ Len(events) \in Nat /\ events \in Seq(Event)
         /\ \A i \in 1 .. Len(events) : events[i].port \in Ports
         /\ \A i \in Adds : /\ i \in 1 .. Len(events) /\ events[i].action = "add"
                            /\ events[i].port \in Ports /\ events[i].node \in Nodes
                            /\ events[i].key \in Keys
         /\ NoKey \notin Keys /\ 0 \notin Nodes /\ NoPort \notin Ports
         /\ monPc # "idle" => /\ monDev \in Work /\ monDev.port \in Ports
                              /\ monDev.node \in Nodes
         /\ \A n \in Nodes : unmounted_usb[n] # NoEntry =>
              unmounted_usb[n].port \in Ports /\ unmounted_usb[n].key \in Keys
         /\ port \in [Ports -> AtPort]
<1>1. events \in Seq(Event) /\ Len(events) \in Nat /\ port \in [Ports -> AtPort]
  BY DEF UsbShape, UsbTypeOK, AtPort
<1>2. \A i \in 1 .. Len(events) : events[i] \in Event
  BY <1>1
<1>3. NoKey \notin Keys /\ 0 \notin Nodes /\ NoPort \notin Ports
  BY UsbAssumption
<1>4. monPc # "idle" => monDev \in Work /\ monDev.port \in Ports /\ monDev.node \in Nodes
  BY DEF UsbShape, UsbTypeOK, Work
<1> QED
  BY <1>1, <1>2, <1>3, <1>4 DEF UsbShape, Events, Entries, Adds, Event

(* Events that are added at the end take nothing away. *)
LEMMA Grown ==
  ASSUME Len(events) \in Nat, Len(events') \in Nat, Len(events) <= Len(events'),
         \A i \in 1 .. Len(events) : events'[i] = events[i]
  PROVE  /\ \A i, p : Pulled(i, p) => Pulled(i, p)'
         /\ \A i, n : Goes(i, n) => Goes(i, n)'
         /\ \A i, j, p : PulledBefore(i, j, p) => PulledBefore(i, j, p)'
         /\ \A i \in Adds : i \in Adds' /\ events'[i] = events[i]
<1>1. \A l \in 1 .. Len(events) : l \in 1 .. Len(events')
  OBVIOUS
<1> QED
  BY <1>1 DEF Pulled, Goes, PulledBefore, Adds

(* What was pulled out by then was before what comes next. *)
LEMMA Ended ==
  ASSUME Len(events) \in Nat
  PROVE  \A i, p : Pulled(i, p) => PulledBefore(i, Len(events) + 1, p)
BY DEF Pulled, PulledBefore

LEMMA Heard ==
  ASSUME events \in Seq(Event), NEW evts \in Seq(Event), Notify(evts), listening
  PROVE  /\ Len(events') = Len(events) + Len(evts)
         /\ Len(events) \in Nat /\ Len(evts) \in Nat /\ Len(events') \in Nat
         /\ \A i \in 1 .. Len(events) : events'[i] = events[i]
         /\ \A i \in 1 .. Len(events') : i \notin 1 .. Len(events) =>
              i - Len(events) \in 1 .. Len(evts) /\ events'[i] = evts[i - Len(events)]
<1> DEFINE q == events \o evts
<1>1. /\ events' = q /\ q \in Seq(Event) /\ Len(q) = Len(events) + Len(evts)
      /\ Len(events) \in Nat /\ Len(evts) \in Nat
      /\ \A k \in 1 .. Len(q) :
           q[k] = IF k <= Len(events) THEN events[k] ELSE evts[k - Len(events)]
  BY DEF Notify
<1> HIDE DEF q
<1> QED
  BY <1>1

(* A monitor that does not listen has nothing to be wrong about. *)
LEMMA DeafLog ==
  ASSUME ~listening', Deaf', Plugged'
  PROVE  LogInv'
<1>1. events' = << >> /\ Adds' = {}
  BY DEF Deaf, Adds
<1>2. /\ monPc' = "idle" /\ watched' = {}
      /\ \A n \in Nodes : /\ unmounted_usb'[n] = NoEntry
                          /\ mounted_usb'[n] = NoEntry \/ mounted_usb'[n].port = NoPort
  BY DEF Deaf
<1>3. \A p : ~Met(p)'
  BY <1>2 DEF Met
<1>4. Announced' /\ Separate' /\ Forgotten'
  BY <1>1, <1>3 DEF Announced, Separate, Forgotten
<1>5. Lapses' /\ Judging' /\ Refusing' /\ Accepting' /\ Tracked' /\ Pursued'
  BY <1>2 DEF Lapses, Allowed, Judging, Refusing, Accepting, Tracked, Pursued, Unwanted
<1> QED
  BY <1>4, <1>5 DEF LogInv, QueueInv, TableInv

LEMMA LogInit == Init => LogInv
<1> SUFFICES ASSUME Init PROVE LogInv
  OBVIOUS
<1>1. Adds = {} /\ monPc = "idle" /\ watched = {} /\ overridden = {}
  BY DEF Init, Adds
<1>2. \A n \in Nodes : unmounted_usb[n] = NoEntry /\ mounted_usb[n] = NoEntry
  BY DEF Init
<1>3. Plugged /\ Deaf
  BY <1>1, <1>2 DEF Plugged, Deaf, Init, EmptyPort
<1>4. \A p : ~Met(p)
  BY <1>1, <1>2 DEF Met
<1>5. Announced /\ Separate /\ Forgotten
  BY <1>1, <1>4 DEF Announced, Separate, Forgotten
<1>6. Lapses /\ Judging /\ Refusing /\ Accepting /\ Tracked /\ Pursued
  BY <1>1, <1>2 DEF Lapses, Allowed, Judging, Refusing, Accepting, Tracked, Pursued,
                    Unwanted
<1> QED
  BY <1>3, <1>5, <1>6 DEF LogInv, QueueInv, TableInv

SamePorts == \A p \in Ports : /\ port'[p].key = port[p].key
                              /\ port'[p].node = port[p].node
                              /\ port'[p].authorized = port[p].authorized

(* Steps that announce nothing and change no table, but that of the mounts  *)
(* recover_mounted_devices finds.                                           *)
LEMMA OrdinaryLog ==
  ASSUME UsbShape, LogInv, SamePorts,
         UNCHANGED <<events, unmounted_usb, overridden>>, watched' \subseteq watched,
         listening => listening',
         \A n \in Nodes : \/ mounted_usb'[n] = mounted_usb[n]
                          \/ mounted_usb'[n] = NoEntry
                          \/ mounted_usb'[n].port = NoPort,
         \/ UNCHANGED <<monPc, monDev>>
         \/ /\ monPc \in {"certify", "mount"} /\ monPc' \in {"mount", "track"}
            /\ UNCHANGED monDev
         \/ monPc = "mount" /\ monPc' = "idle"
         \/ monPc = "deauthorize" /\ monPc' = "idle" /\ Pursued'
  PROVE  LogInv'
<1>0. /\ Plugged /\ Deaf /\ Announced /\ Separate /\ Forgotten
      /\ Lapses /\ Judging /\ Refusing /\ Accepting /\ Tracked /\ Pursued
  BY DEF LogInv, QueueInv, TableInv
<1>1. /\ Adds' = Adds /\ \A n \in Nodes : Allowed(n)' = Allowed(n)
      /\ \A i, p : Pulled(i, p)' = Pulled(i, p)
      /\ \A i, n : Goes(i, n)' = Goes(i, n)
      /\ \A i, j, p : PulledBefore(i, j, p)' = PulledBefore(i, j, p)
      /\ \A p \in Ports : Met(p)' => Met(p)
      /\ \A p \in Ports : \A n, k : Here(p, n, k)' = Here(p, n, k)
      /\ \A p \in Ports : Unwanted(p)' => Unwanted(p)
  BY DEF Adds, Allowed, Pulled, Goes, PulledBefore, Met, Here, SamePorts, Unwanted,
         Granted
<1>2. /\ \A i \in Adds : events[i].port \in Ports
      /\ \A n \in Nodes : unmounted_usb[n] # NoEntry => unmounted_usb[n].port \in Ports
      /\ monPc # "idle" => monDev.port \in Ports /\ monDev.node \in Nodes
  BY LogFacts
<1>3. Plugged' /\ Announced' /\ Separate'
  BY <1>0, <1>1, <1>2 DEF Plugged, Announced, Separate, SamePorts
<1>4. Forgotten'
  BY <1>0, <1>1, <1>2 DEF Forgotten, SamePorts
<1>5. Deaf'
  BY <1>0 DEF Deaf
<1>6. Lapses'
  BY <1>0, <1>1, <1>2 DEF Lapses, Allowed, Expires
<1>7. Judging' /\ Refusing'
  BY <1>0, <1>1, <1>2 DEF Judging, Refusing, Expires
<1>8. Accepting'
  <2>1. monPc \in {"certify", "mount", "track"} => unmounted_usb[monDev.node] # NoEntry
    BY DEF UsbShape, Working
  <2> QED
    BY <1>0, <1>1, <1>2, <2>1 DEF Accepting
<1>9. Tracked'
  <2>1. ASSUME NEW n \in Nodes, mounted_usb'[n] # NoEntry, mounted_usb'[n].port # NoPort
        PROVE  (\/ Here(mounted_usb[n].port, n, mounted_usb[n].key)
                \/ Goes(0, n)
                \/ monPc = "remove" /\ monDev.node = n)'
    <3>1. mounted_usb'[n] = mounted_usb[n]
      BY <2>1
    <3>2. mounted_usb[n].port \in Ports
      BY <2>1, <3>1 DEF UsbShape, UsbTypeOK, EntryOrNone, Entry
    <3>3. \/ Here(mounted_usb[n].port, n, mounted_usb[n].key)
          \/ Goes(0, n)
          \/ monPc = "remove" /\ monDev.node = n
      BY <1>0, <2>1, <3>1 DEF Tracked
    <3> QED
      BY <1>1, <3>1, <3>2, <3>3 DEF Here, SamePorts
  <2> QED
    BY <2>1 DEF Tracked
<1>10. Pursued'
  <2>1. ASSUME ~Pursued', NEW p, NEW n, NEW k, Pursues(p, n, k) PROVE Pursues(p, n, k)'
    BY <1>1, <2>1 DEF Pursues
  <2> QED
    BY <1>0, <1>1, <2>1 DEF Pursued, SamePorts
<1> QED
  BY <1>3, <1>4, <1>5, <1>6, <1>7, <1>8, <1>9, <1>10 DEF LogInv, QueueInv, TableInv

------------------------------------------------------------------------------
(* The kernel: keys come and go. *)

LEMMA FreeNode ==
  ASSUME UsbShape, Plugged, NEW n \in FreeNodes, NEW p \in Ports
  PROVE  n \in Nodes /\ port[p].node # n
<1>1. n \in Nodes /\ KeyAt(n) = NoKey /\ n # 0
  BY UsbAssumption DEF FreeNodes
<1>2. SUFFICES ASSUME port[p].node = n PROVE FALSE
  BY <1>1
<1> DEFINE q == CHOOSE q \in Ports : port[q].node = n
<1>3. q \in Ports /\ port[q].node = n
  BY <1>2
<1>4. KeyAt(n) = port[q].key
  BY <1>2 DEF KeyAt
<1> HIDE DEF q
<1> QED
  BY <1>1, <1>3, <1>4 DEF Plugged

(* The key at a node. *)
LEMMA KeyThere ==
  ASSUME UsbShape, Plugged, NEW p \in Ports, port[p].node # 0
  PROVE  KeyAt(port[p].node) = port[p].key
<1> DEFINE q == CHOOSE q \in Ports : port[q].node = port[p].node
<1>1. q \in Ports /\ port[q].node = port[p].node
  OBVIOUS
<1>2. KeyAt(port[p].node) = port[q].key
  BY DEF KeyAt
<1> HIDE DEF q
<1> QED
  BY <1>1, <1>2 DEF Plugged

LEMMA KeyIsThere ==
  ASSUME UsbShape, NEW n \in Nodes, KeyAt(n) \in Keys
  PROVE  \E q \in Ports : port[q].node = n /\ port[q].key = KeyAt(n)
<1>1. NoKey \notin Keys
  BY UsbAssumption
<1>2. \E p \in Ports : port[p].node = n
  BY <1>1 DEF KeyAt
<1> DEFINE q == CHOOSE q \in Ports : port[q].node = n
<1>3. q \in Ports /\ port[q].node = n
  BY <1>2
<1>4. KeyAt(n) = port[q].key
  BY <1>2 DEF KeyAt
<1> HIDE DEF q
<1> QED
  BY <1>3, <1>4

LEMMA PlugLog ==
  ASSUME UsbShape, LogInv, NEW p \in Ports, NEW k \in Keys, Plug(p, k)
  PROVE  LogInv'
<1> USE DEF kernelVars, tableVars, monVars, fanVars, boundVars, historyVars
<1>0. /\ Plugged /\ Deaf /\ Announced /\ Separate /\ Forgotten
      /\ Lapses /\ Judging /\ Refusing /\ Accepting /\ Tracked /\ Pursued
  BY DEF LogInv, QueueInv, TableInv
<1>1. /\ port[p].key = NoKey /\ \A q \in Ports : port[q].key # k
      /\ port'[p].key = k /\ port'[p].node = 0 /\ port'[p].authorized
      /\ \A q \in Ports : q # p => port'[q] = port[q]
      /\ overridden' = overridden \ {k}
      /\ UNCHANGED <<events, listening, tableVars, monVars, watched>>
  BY LogFacts DEF Plug, EmptyPort
<1>2. k # NoKey /\ 0 \notin Nodes /\ NoKey \notin Keys
  BY LogFacts
<1>3. port[p].node = 0
  BY <1>0, <1>1 DEF Plugged
<1>4. Plugged'
  BY <1>0, <1>1, <1>2, <1>3 DEF Plugged
<1>5. Deaf'
  BY <1>0, <1>1 DEF Deaf
<1>6. /\ Adds' = Adds /\ \A n \in Nodes : Allowed(n)' = Allowed(n)
      /\ \A i, q : Pulled(i, q)' = Pulled(i, q)
      /\ \A i, n : Goes(i, n)' = Goes(i, n)
      /\ \A i, j, q : PulledBefore(i, j, q)' = PulledBefore(i, j, q)
      /\ \A q \in Ports : Met(q)' = Met(q)
      /\ \A q \in Ports, n \in Nodes : \A j : Here(q, n, j)' = Here(q, n, j)
  BY <1>1, <1>2, <1>3 DEF Adds, Allowed, Pulled, Goes, PulledBefore, Met, Here
<1>7. /\ \A i \in Adds : /\ events[i].port \in Ports /\ events[i].node \in Nodes
                         /\ events[i].key \in Keys
      /\ \A n \in Nodes : unmounted_usb[n] # NoEntry => unmounted_usb[n].port \in Ports
      /\ monPc # "idle" => monDev.port \in Ports /\ monDev.node \in Nodes
      /\ \A n \in Nodes : mounted_usb[n] # NoEntry =>
           mounted_usb[n].port \in Ports \cup {NoPort}
  BY LogFacts DEF UsbShape, UsbTypeOK, EntryOrNone, Entry
<1>8. Announced'
  <2> SUFFICES ASSUME NEW i \in Adds
               PROVE  LET e == events[i] IN
                      \/ Here(e.port, e.node, e.key)
                      \/ Goes(i, e.node) /\ (Pulled(i, e.port) \/ port'[e.port].key = e.key)
    BY <1>1, <1>6, <1>7 DEF Announced
  <2> QED
    BY <1>0, <1>1, <1>2, <1>7 DEF Announced
<1>9. Separate'
  BY <1>0, <1>1, <1>6 DEF Separate
<1>10. Forgotten'
  <2>1. \A i \in Adds : Met(events[i].port) => PulledBefore(0, i, events[i].port)
    BY <1>0 DEF Forgotten
  <2>2. \A q \in Ports : port'[q].key = NoKey \/ (port'[q].authorized /\ port'[q].node = 0)
          => port[q].key = NoKey \/ (port[q].authorized /\ port[q].node = 0)
    BY <1>1
  <2>3. \A q \in Ports : port'[q].key = NoKey \/ (port'[q].authorized /\ port'[q].node = 0) =>
          /\ \A i \in Adds : events[i].port = q => Pulled(i, q)
          /\ Met(q) => Pulled(0, q)
    BY <1>0, <2>2 DEF Forgotten
  <2> QED
    BY <1>1, <1>6, <1>7, <2>1, <2>3 DEF Forgotten
<1>11. Lapses'
  BY <1>0, <1>1, <1>6, <1>7 DEF Lapses, Allowed, Expires
<1>12. Judging' /\ Refusing'
  BY <1>0, <1>1, <1>6, <1>7 DEF Judging, Refusing, Expires
<1>13. Accepting'
  <2>1. monPc \in {"certify", "mount", "track"} => unmounted_usb[monDev.node] # NoEntry
    BY DEF UsbShape, Working
  <2> QED
    BY <1>0, <1>1, <1>6, <1>7, <2>1 DEF Accepting
<1>14. Tracked'
  BY <1>0, <1>1, <1>6, <1>7 DEF Tracked
<1>15. Pursued'
  <2>1. \A q \in Ports : Unwanted(q)' => q # p /\ Unwanted(q)
    BY <1>0, <1>1 DEF Unwanted, Granted, Plugged
  <2>2. \A q, n, j : Pursues(q, n, j) => Pursues(q, n, j)'
    BY <1>1, <1>6 DEF Pursues
  <2> QED
    BY <1>0, <1>1, <2>1, <2>2 DEF Pursued
<1> QED
  BY <1>4, <1>5, <1>8, <1>9, <1>10, <1>11, <1>12, <1>13, <1>14, <1>15
     DEF LogInv, QueueInv, TableInv

LEMMA EnumerateLog ==
  ASSUME UsbShape, LogInv, NEW p \in Ports, Enumerate(p)
  PROVE  LogInv'
<1> USE DEF kernelVars, tableVars, monVars, fanVars, boundVars, historyVars
<1>0. /\ Plugged /\ Deaf /\ Announced /\ Separate /\ Forgotten
      /\ Lapses /\ Judging /\ Refusing /\ Accepting /\ Tracked /\ Pursued
  BY DEF LogInv, QueueInv, TableInv
<1>a. Min(FreeNodes) \in FreeNodes /\ port[p].authorized /\ port[p].node = 0
  BY MinNode DEF Enumerate
<1>b. /\ Min(FreeNodes) \in Nodes /\ port[p].key \in Keys /\ Len(events) + 1 \in Nat
      /\ \A q \in Ports : port[q].node # Min(FreeNodes)
  BY <1>0, <1>a, FreeNode, LogFacts DEF UsbShape, Entries
<1>c. PICK n \in Nodes, k \in Keys, L \in Nat :
        n = Min(FreeNodes) /\ k = port[p].key /\ L = Len(events) + 1
  BY <1>b
<1>d. PICK a \in Event : a = [action |-> "add", port |-> p, node |-> n, key |-> k]
  BY DEF Event
<1>1. /\ port[p].authorized /\ port[p].node = 0 /\ k = port[p].key
      /\ \A q \in Ports : port[q].node # n
  BY <1>a, <1>b, <1>c
<1>2. /\ port' = [port EXCEPT ![p].node = n]
      /\ Notify(<<a>>) /\ watched' = IF listening THEN watched \cup {p} ELSE watched
      /\ UNCHANGED <<listening, tableVars, monVars, overridden>>
  BY <1>c, <1>d DEF Enumerate
<1>3. /\ port'[p].node = n /\ port'[p].key = k /\ port'[p].authorized
      /\ \A q \in Ports : q # p => port'[q] = port[q]
      /\ 0 \notin Nodes /\ NoKey \notin Keys /\ n # 0
  BY <1>1, <1>2, LogFacts DEF AtPort
<1>4. Plugged'
  BY <1>0, <1>1, <1>2, <1>3 DEF Plugged
<1>5. Deaf'
  BY <1>0, <1>2 DEF Deaf, Notify
<1>6. CASE ~listening
  BY <1>2, <1>4, <1>5, <1>6, DeafLog
<1>7. CASE listening
  <2>1. /\ Len(events') = L /\ Len(events) \in Nat /\ events'[L] = a
        /\ \A i \in 1 .. Len(events) : events'[i] = events[i]
    <3>2. <<a>> \in Seq(Event) /\ Len(<<a>>) = 1 /\ <<a>>[1] = a
      OBVIOUS
    <3>3. events \in Seq(Event)
      BY LogFacts
    <3> QED
      <4>1. /\ Len(events') = Len(events) + 1 /\ Len(events) \in Nat
            /\ \A i \in 1 .. Len(events) : events'[i] = events[i]
            /\ \A i \in 1 .. Len(events') : i \notin 1 .. Len(events) =>
                 events'[i] = <<a>>[i - Len(events)]
        BY <1>2, <1>7, <3>2, <3>3, Heard
      <4>2. L \in 1 .. Len(events') /\ L \notin 1 .. Len(events) /\ L - Len(events) = 1
        BY <1>c, <4>1
      <4> QED
        BY <1>c, <3>2, <4>1, <4>2
  <2>2. /\ \A i, q : Pulled(i, q) => Pulled(i, q)' /\ PulledBefore(i, L, q)'
        /\ \A i, m : Goes(i, m)' <=> Goes(i, m)
        /\ \A i, j, q : PulledBefore(i, j, q) => PulledBefore(i, j, q)'
        /\ \A m : ~Goes(L, m)'
    <3>1. Len(events') \in Nat /\ Len(events) <= Len(events')
      BY <1>c, <2>1
    <3>2. /\ \A i, q : Pulled(i, q) => Pulled(i, q)'
          /\ \A i, m : Goes(i, m) => Goes(i, m)'
          /\ \A i, j, q : PulledBefore(i, j, q) => PulledBefore(i, j, q)'
      BY <2>1, <3>1, Grown
    <3>3. \A i, q : Pulled(i, q) => PulledBefore(i, L, q)
      BY <1>c, <2>1, Ended
    <3>4. \A l \in 1 .. Len(events') : l \in 1 .. Len(events) \/ l = L
      BY <1>c, <2>1
    <3>5. \A i, m : Goes(i, m)' => Goes(i, m)
      BY <1>d, <2>1, <3>4 DEF Goes
    <3>6. \A m : ~Goes(L, m)'
      BY <1>c, <2>1 DEF Goes
    <3> QED
      BY <3>2, <3>3, <3>5, <3>6
  <2>3. /\ Adds' = Adds \cup {L} /\ \A i \in Adds : events'[i] = events[i] /\ i < L /\ i # L
    BY <1>c, <1>d, <2>1 DEF Adds
  <2>4. \A q \in Ports, m \in Nodes : \A j :
          Here(q, m, j)' <=> Here(q, m, j) \/ (q = p /\ m = n /\ j = k)
    BY <1>1, <1>3 DEF Here
  <2>5. \A q \in Ports : Met(q)' = Met(q)
    BY <1>2 DEF Met
  <2>6. /\ \A i \in Adds : /\ events[i].port \in Ports /\ events[i].node \in Nodes
                           /\ events[i].key \in Keys
        /\ \A m \in Nodes : unmounted_usb[m] # NoEntry => unmounted_usb[m].port \in Ports
        /\ monPc # "idle" => monDev.port \in Ports /\ monDev.node \in Nodes
        /\ \A m \in Nodes : mounted_usb[m] # NoEntry =>
             mounted_usb[m].port \in Ports \cup {NoPort}
    BY LogFacts DEF UsbShape, UsbTypeOK, EntryOrNone, Entry
  <2>7. Announced'
    <3>1. \A i \in Adds :
            LET e == events[i] IN
            \/ Here(e.port, e.node, e.key)'
            \/ Goes(i, e.node)' /\ (Pulled(i, e.port)' \/ port'[e.port].key = e.key)
      BY <1>0, <1>1, <1>3, <2>2, <2>3, <2>4, <2>6 DEF Announced
    <3>2. Here(p, n, k)'
      BY <1>1, <2>4
    <3> QED
      BY <1>d, <2>1, <2>3, <3>1, <3>2 DEF Announced
  <2>8. Separate'
    <3>1. ASSUME NEW i \in Adds, events[i].port = p \/ events[i].key = k
          PROVE  PulledBefore(i, L, events[i].port)'
      <4>1. CASE events[i].port = p
        BY <1>0, <1>1, <2>2, <2>3, <4>1 DEF Forgotten
      <4>2. CASE events[i].port # p
        <5>1. port[events[i].port].key # k
          BY <1>0, <1>1, <1>3, <2>6, <4>2 DEF Plugged
        <5>2. Pulled(i, events[i].port)
          BY <1>0, <1>1, <2>6, <3>1, <4>2, <5>1 DEF Announced, Here
        <5> QED
          BY <2>2, <2>3, <5>2
      <4> QED
        BY <4>1, <4>2
    <3>2. ASSUME NEW i \in Adds, events[i].node = n
          PROVE  Goes(i, n)'
      BY <1>0, <1>1, <2>2, <2>6, <3>2 DEF Announced, Here
    <3>3. ASSUME NEW i \in Adds, NEW j \in Adds, i < j
          PROVE  /\ \/ events[i].port = events[j].port
                    \/ events[i].key = events[j].key
                    => PulledBefore(i, j, events[i].port)'
                 /\ events[i].node = events[j].node => Goes(i, events[i].node)'
      BY <1>0, <2>2, <2>3, <3>3 DEF Separate
    <3>4. \A j \in Adds : ~(L < j)
      BY <1>c, <2>1 DEF Adds
    <3>5. ~(L < L) /\ a.port = p /\ a.key = k /\ a.node = n
      BY <1>d
    <3> QED
      BY <2>1, <2>3, <3>1, <3>2, <3>3, <3>4, <3>5 DEF Separate
  <2>9. Forgotten'
    <3>1. \A i \in Adds : Met(events[i].port)' => PulledBefore(0, i, events[i].port)'
      BY <1>0, <2>2, <2>3, <2>5, <2>6 DEF Forgotten
    <3>2. Met(p)' => PulledBefore(0, L, p)'
      BY <1>0, <1>1, <2>2, <2>5 DEF Forgotten
    <3>3. ASSUME NEW q \in Ports,
                 port'[q].key = NoKey \/ (port'[q].authorized /\ port'[q].node = 0)
          PROVE  /\ q # p
                 /\ \A i \in Adds : events[i].port = q => Pulled(i, q)'
                 /\ Met(q)' => Pulled(0, q)'
      <4>1. q # p
        BY <1>1, <1>3, <3>3
      <4>2. port[q].key = NoKey \/ (port[q].authorized /\ port[q].node = 0)
        BY <1>3, <3>3, <4>1
      <4> QED
        BY <1>0, <2>2, <2>5, <4>1, <4>2 DEF Forgotten
    <3> QED
      BY <1>d, <2>1, <2>3, <3>1, <3>2, <3>3 DEF Forgotten
  <2>10. \A q \in Ports, m \in Nodes : \A j :
           Here(q, m, j) \/ Pulled(0, q) =>
             /\ Here(q, m, j)' \/ Pulled(0, q)'
             /\ Expires(q, m) => Expires(q, m)'
    <3> SUFFICES ASSUME NEW q \in Ports, NEW m \in Nodes, NEW j,
                        Here(q, m, j) \/ Pulled(0, q)
                 PROVE  /\ Here(q, m, j)' \/ Pulled(0, q)'
                        /\ Expires(q, m) => Expires(q, m)'
      OBVIOUS
    <3>1. m = n => PulledBefore(0, L, q)'
      BY <1>1, <2>2 DEF Here
    <3>2. Expires(q, m) => Expires(q, m)'
      BY <1>d, <2>1, <2>2, <2>3, <3>1 DEF Expires
    <3> QED
      BY <2>2, <2>4, <3>2
  <2>11. Lapses'
    <3> SUFFICES ASSUME NEW m \in Nodes, Allowed(m)
                 PROVE  LET e == unmounted_usb[m] IN
                        /\ Here(e.port, m, e.key)' \/ Pulled(0, e.port)'
                        /\ Expires(e.port, m)'
      BY <1>2 DEF Lapses, Allowed
    <3> QED
      BY <1>0, <1>2, <2>6, <2>10 DEF Lapses, Allowed
  <2>12. Judging' /\ Refusing'
    <3> SUFFICES ASSUME monPc = "authorize"
                 PROVE  LET q == monDev.port
                            m == monDev.node
                            j == monDev.key
                        IN
                        /\ \A x \in Nodes : unmounted_usb[x] # NoEntry => unmounted_usb[x].port # q
                        /\ Here(q, m, j)' \/ Goes(0, m)'
                        /\ j = monDev.read =>
                             (Here(q, m, j)' \/ Pulled(0, q)') /\ Expires(q, m)'
                        /\ Allowed(m) => Goes(0, m)'
      BY <1>0, <1>2 DEF Judging, Refusing, Allowed
    <3> QED
      BY <1>0, <1>2, <2>2, <2>4, <2>6, <2>10 DEF Judging
  <2>13. Accepting'
    <3>1. monPc \in {"certify", "mount", "track"} => unmounted_usb[monDev.node] # NoEntry
      BY DEF UsbShape, Working
    <3> QED
      BY <1>0, <1>2, <2>2, <2>4, <2>6, <3>1 DEF Accepting
  <2>14. Tracked'
    BY <1>0, <1>2, <2>2, <2>4, <2>6 DEF Tracked
  <2>15. Pursued'
    <3>1. \A q, m, j : Pursues(q, m, j) => Pursues(q, m, j)'
      BY <1>2, <2>2, <2>3 DEF Pursues
    <3>2. Pursues(p, n, k)'
      BY <1>d, <2>1, <2>2, <2>3 DEF Pursues
    <3>3. \A q \in Ports : q # p /\ Unwanted(q)' => Unwanted(q)
      BY <1>2, <1>3 DEF Unwanted, Granted
    <3> QED
      BY <1>0, <1>3, <3>1, <3>2, <3>3 DEF Pursued
  <2> QED
    BY <1>4, <1>5, <2>7, <2>8, <2>9, <2>11, <2>12, <2>13, <2>14, <2>15
       DEF LogInv, QueueInv, TableInv
<1> QED
  BY <1>6, <1>7

(* A device that goes: its node's event, and its port's if it is pulled out. *)
LEMMA GoneEvents ==
  ASSUME UsbShape, listening, NEW p \in Ports, NEW n \in Nodes \cup {0},
         NEW evts \in Seq(Event), Notify(evts),
         \A k \in 1 .. Len(evts) : /\ evts[k].action # "add"
                                   /\ evts[k].action = "remove" => evts[k].node = n,
         n # 0 => \E k \in 1 .. Len(evts) : evts[k].action = "remove"
  PROVE  /\ Adds' = Adds /\ \A i \in Adds : events'[i] = events[i]
         /\ \A i, q : Pulled(i, q) => Pulled(i, q)'
         /\ \A i, m : Goes(i, m) => Goes(i, m)'
         /\ \A i, j, q : PulledBefore(i, j, q) => PulledBefore(i, j, q)'
         /\ \A i, m : m # n => (Goes(i, m)' <=> Goes(i, m))
         /\ n # 0 => \A i \in Adds \cup {0} : Goes(i, n)'
         /\ (\E k \in 1 .. Len(evts) : evts[k].action = "unplug" /\ evts[k].port = p) =>
              \A i \in Adds \cup {0} : Pulled(i, p)'
<1> DEFINE N == Len(events)
<1>1. /\ Len(events') = N + Len(evts)
      /\ N \in Nat /\ Len(evts) \in Nat /\ Len(events') \in Nat
      /\ \A i \in 1 .. N : events'[i] = events[i]
      /\ \A i \in 1 .. Len(events') : i \notin 1 .. N =>
           i - N \in 1 .. Len(evts) /\ events'[i] = evts[i - N]
  BY Heard, LogFacts
<1>2. /\ \A i, q : Pulled(i, q) => Pulled(i, q)'
      /\ \A i, m : Goes(i, m) => Goes(i, m)'
      /\ \A i, j, q : PulledBefore(i, j, q) => PulledBefore(i, j, q)'
      /\ \A i \in Adds : i \in Adds' /\ events'[i] = events[i]
  BY <1>1, Grown
<1>3. \A i \in 1 .. Len(events') : i \in 1 .. N \/ events'[i].action # "add"
  BY <1>1
<1>4. Adds' = Adds
  BY <1>1, <1>2, <1>3 DEF Adds
<1>5. \A i, m : m # n => (Goes(i, m)' => Goes(i, m))
  <2>1. \A i \in 1 .. Len(events') : events'[i].action = "remove" =>
          events'[i].node = n \/ (i \in 1 .. N /\ events'[i] = events[i])
    BY <1>1
  <2> QED
    BY <2>1 DEF Goes
<1>6. ASSUME NEW k \in 1 .. Len(evts)
      PROVE  /\ N + k \in 1 .. Len(events') /\ events'[N + k] = evts[k]
             /\ \A i \in Adds \cup {0} : i < N + k
  <2>1. N + k \in 1 .. Len(events') /\ N + k \notin 1 .. N /\ (N + k) - N = k
    BY <1>1
  <2>2. \A i \in Adds \cup {0} : i < N + k
    BY <1>1 DEF Adds
  <2> QED
    BY <1>1, <2>1, <2>2
<1>7. n # 0 => \A i \in Adds \cup {0} : Goes(i, n)'
  BY <1>6 DEF Goes
<1>8. (\E k \in 1 .. Len(evts) : evts[k].action = "unplug" /\ evts[k].port = p) =>
        \A i \in Adds \cup {0} : Pulled(i, p)'
  BY <1>6 DEF Pulled
<1> QED
  BY <1>2, <1>4, <1>5, <1>7, <1>8

LEMMA RemovedIs ==
  ASSUME UsbShape, NEW p \in Ports
  PROVE  /\ RemoveEvents(p) \in Seq(Event) /\ port[p].node \in Nodes \cup {0}
         /\ \A k \in 1 .. Len(RemoveEvents(p)) :
              /\ RemoveEvents(p)[k].action = "remove"
              /\ RemoveEvents(p)[k].node = port[p].node
         /\ port[p].node # 0 => 1 \in 1 .. Len(RemoveEvents(p))
<1> DEFINE r == [action |-> "remove", port |-> p, node |-> port[p].node, key |-> NoKey]
<1>1. r \in Event /\ r.action = "remove" /\ r.node = port[p].node
      /\ port[p].node \in Nodes \cup {0}
  BY LogFacts DEF Event, AtPort
<1>2. RemoveEvents(p) = IF port[p].node = 0 THEN << >> ELSE <<r>>
  BY DEF RemoveEvents
<1> HIDE DEF r
<1> QED
  BY <1>1, <1>2

(* A key that is pulled out: the going of its node, then its own. *)
LEMMA UnplugEvents ==
  ASSUME UsbShape, NEW p \in Ports, NEW n \in Nodes \cup {0}, n = port[p].node,
         NEW u \in Event, Notify(Append(RemoveEvents(p), u))
  PROVE  \E evts \in Seq(Event) :
           /\ Notify(evts)
           /\ \A k \in 1 .. Len(evts) : evts[k] = u \/ (/\ evts[k].action = "remove"
                                                        /\ evts[k].node = n)
           /\ \E k \in 1 .. Len(evts) : evts[k] = u
           /\ n # 0 => \E k \in 1 .. Len(evts) : evts[k].action = "remove"
<1> DEFINE l == RemoveEvents(p)
           s == Append(l, u)
<1>1. /\ l \in Seq(Event)
      /\ n # 0 => 1 \in 1 .. Len(l)
      /\ \A k \in 1 .. Len(l) : l[k].action = "remove" /\ l[k].node = n
  BY RemovedIs
<1>2. Notify(s)
  OBVIOUS
<1> HIDE DEF l
<1>3. /\ s \in Seq(Event) /\ Len(s) = Len(l) + 1 /\ Len(l) \in Nat
      /\ \A k \in 1 .. Len(s) : s[k] = IF k = Len(l) + 1 THEN u ELSE l[k]
  BY <1>1
<1>4. s[Len(l) + 1] = u /\ Len(l) + 1 \in 1 .. Len(s)
  BY <1>3
<1>5. n # 0 => s[1].action = "remove" /\ 1 \in 1 .. Len(s)
  <2>1. SUFFICES ASSUME 1 \in 1 .. Len(l) PROVE s[1] = l[1] /\ 1 \in 1 .. Len(s)
    BY <1>1
  <2> QED
    BY <1>3, <2>1
<1>6. \A k \in 1 .. Len(s) : s[k] = u \/ (s[k].action = "remove" /\ s[k].node = n)
  BY <1>1, <1>3
<1> HIDE DEF s
<1> QED
  BY <1>2, <1>3, <1>4, <1>5, <1>6 DEF s, l

LEMMA UnplugLog ==
  ASSUME UsbShape, LogInv, NEW p \in Ports, Unplug(p)
  PROVE  LogInv'
<1> USE DEF kernelVars, tableVars, monVars, fanVars, boundVars, historyVars
<1>0. /\ Plugged /\ Deaf /\ Announced /\ Separate /\ Forgotten
      /\ Lapses /\ Judging /\ Refusing /\ Accepting /\ Tracked /\ Pursued
  BY DEF LogInv, QueueInv, TableInv
<1>a. PICK u \in Event : u = [action |-> "unplug", port |-> p, node |-> 0, key |-> NoKey]
  BY DEF Event
<1>b. PICK n \in Nodes \cup {0} : n = port[p].node
  BY RemovedIs
<1>1. /\ port'[p].key = NoKey /\ port'[p].node = 0 /\ ~port'[p].authorized
      /\ \A q \in Ports : q # p => port'[q] = port[q]
      /\ Notify(Append(RemoveEvents(p), u)) /\ watched' = watched \ {p}
      /\ UNCHANGED <<listening, tableVars, monVars, overridden>>
      /\ 0 \notin Nodes /\ NoKey \notin Keys
  BY <1>a, LogFacts DEF Unplug, EmptyPort
<1>2. Plugged'
  BY <1>0, <1>1 DEF Plugged
<1>3. Deaf'
  BY <1>0, <1>1 DEF Deaf, Notify
<1>4. CASE ~listening
  BY <1>1, <1>2, <1>3, <1>4, DeafLog
<1>5. CASE listening
  <2>1. PICK evts \in Seq(Event) :
          /\ Notify(evts)
          /\ \A k \in 1 .. Len(evts) : evts[k] = u \/ (/\ evts[k].action = "remove"
                                                       /\ evts[k].node = n)
          /\ \E k \in 1 .. Len(evts) : evts[k] = u
          /\ n # 0 => \E k \in 1 .. Len(evts) : evts[k].action = "remove"
    BY <1>1, <1>b, UnplugEvents
  <2>2. /\ Adds' = Adds /\ \A i \in Adds : events'[i] = events[i]
        /\ \A i, q : Pulled(i, q) => Pulled(i, q)'
        /\ \A i, m : Goes(i, m) => Goes(i, m)'
        /\ \A i, j, q : PulledBefore(i, j, q) => PulledBefore(i, j, q)'
        /\ \A i, m : m # n => (Goes(i, m)' <=> Goes(i, m))
        /\ n # 0 => \A i \in Adds \cup {0} : Goes(i, n)'
        /\ \A i \in Adds \cup {0} : Pulled(i, p)'
    <3>0. u.action = "unplug" /\ u.port = p
      BY <1>a
    <3>1. /\ \A k \in 1 .. Len(evts) : /\ evts[k].action # "add"
                                       /\ evts[k].action = "remove" => evts[k].node = n
          /\ \E k \in 1 .. Len(evts) : evts[k].action = "unplug" /\ evts[k].port = p
      BY <2>1, <3>0
    <3>2. /\ Notify(evts)
          /\ n # 0 => \E k \in 1 .. Len(evts) : evts[k].action = "remove"
      BY <2>1
    <3>3. (\E k \in 1 .. Len(evts) : evts[k].action = "unplug" /\ evts[k].port = p) =>
            \A i \in Adds \cup {0} : Pulled(i, p)'
      BY <1>5, <3>1, <3>2, GoneEvents
    <3>4. /\ Adds' = Adds /\ \A i \in Adds : events'[i] = events[i]
          /\ \A i, q : Pulled(i, q) => Pulled(i, q)'
          /\ \A i, m : Goes(i, m) => Goes(i, m)'
          /\ \A i, j, q : PulledBefore(i, j, q) => PulledBefore(i, j, q)'
          /\ \A i, m : m # n => (Goes(i, m)' <=> Goes(i, m))
          /\ n # 0 => \A i \in Adds \cup {0} : Goes(i, n)'
      BY <1>5, <3>1, <3>2, GoneEvents
    <3> QED
      BY <3>1, <3>3, <3>4
  <2>3. \A q \in Ports, m \in Nodes : \A j : Here(q, m, j)' <=> q # p /\ Here(q, m, j)
    BY <1>1 DEF Here
  <2>4. \A q \in Ports : Met(q)' <=> Met(q)
    BY <1>1 DEF Met
  <2>5. /\ \A i \in Adds : /\ events[i].port \in Ports /\ events[i].node \in Nodes
                           /\ events[i].key \in Keys
        /\ \A m \in Nodes : unmounted_usb[m] # NoEntry => unmounted_usb[m].port \in Ports
        /\ monPc # "idle" => monDev.port \in Ports /\ monDev.node \in Nodes
        /\ \A m \in Nodes : mounted_usb[m] # NoEntry =>
             mounted_usb[m].port \in Ports \cup {NoPort}
    BY LogFacts DEF UsbShape, UsbTypeOK, EntryOrNone, Entry
  <2>6. \A m \in Nodes : \A j : Here(p, m, j) => m = n /\ n # 0
    BY <1>1, <1>b DEF Here
  <2>7. Announced'
    <3>1. ASSUME NEW i \in Adds
          PROVE  LET e == events[i] IN
                 \/ Here(e.port, e.node, e.key)'
                 \/ Goes(i, e.node)' /\ (Pulled(i, e.port)' \/ port'[e.port].key = e.key)
      BY <1>0, <1>1, <2>2, <2>3, <2>5, <2>6 DEF Announced
    <3> QED
      BY <2>2, <3>1 DEF Announced
  <2>8. Separate'
    BY <1>0, <2>2 DEF Separate
  <2>9. Forgotten'
    <3>1. \A i \in Adds : Met(events[i].port)' => PulledBefore(0, i, events[i].port)'
      BY <1>0, <2>2, <2>4, <2>5 DEF Forgotten
    <3>2. ASSUME NEW q \in Ports,
                 port'[q].key = NoKey \/ (port'[q].authorized /\ port'[q].node = 0)
          PROVE  /\ \A i \in Adds : events[i].port = q => Pulled(i, q)'
                 /\ Met(q)' => Pulled(0, q)'
      BY <1>0, <1>1, <2>2, <2>4, <3>2 DEF Forgotten
    <3> QED
      BY <2>2, <3>1, <3>2 DEF Forgotten
  <2>10. \A q \in Ports, m \in Nodes : \A j :
           /\ Here(q, m, j) \/ Pulled(0, q) => Here(q, m, j)' \/ Pulled(0, q)'
           /\ Here(q, m, j) \/ Goes(0, m) => Here(q, m, j)' \/ Goes(0, m)'
           /\ Expires(q, m) => Expires(q, m)'
    BY <2>2, <2>3, <2>6 DEF Expires
  <2>11. Lapses'
    BY <1>0, <1>1, <2>5, <2>10 DEF Lapses, Allowed
  <2>12. Judging' /\ Refusing'
    BY <1>0, <1>1, <2>2, <2>5, <2>10 DEF Judging, Refusing, Allowed
  <2>13. Accepting'
    <3>1. monPc \in {"certify", "mount", "track"} => unmounted_usb[monDev.node] # NoEntry
      BY DEF UsbShape, Working
    <3> QED
      BY <1>0, <1>1, <2>5, <2>10, <3>1 DEF Accepting
  <2>14. Tracked'
    BY <1>0, <1>1, <2>2, <2>5, <2>10 DEF Tracked
  <2>15. Pursued'
    <3>1. ASSUME NEW q \in Ports, Unwanted(q)'
          PROVE  q # p /\ Unwanted(q) /\ port[q].node # n
      <4>1. q # p /\ Unwanted(q)
        BY <1>1, <3>1 DEF Unwanted, Granted
      <4> QED
        BY <1>0, <1>b, <4>1 DEF Unwanted, Plugged
    <3>2. \A q, m, j : m # n /\ Pursues(q, m, j) => Pursues(q, m, j)'
      BY <1>1, <2>2 DEF Pursues
    <3> QED
      BY <1>0, <1>1, <3>1, <3>2 DEF Pursued
  <2> QED
    BY <1>2, <1>3, <2>7, <2>8, <2>9, <2>11, <2>12, <2>13, <2>14, <2>15
       DEF LogInv, QueueInv, TableInv
<1> QED
  BY <1>4, <1>5

(* The monitor has work only while it listens. *)
LEMMA WorkHears == ASSUME LogInv, monPc # "idle" PROVE listening
BY DEF LogInv, QueueInv, Deaf

LEMMA DeauthorizeLog ==
  ASSUME UsbShape, LogInv, MonitorDeauthorize
  PROVE  LogInv'
<1> USE DEF kernelVars, tableVars, monVars, fanVars, boundVars, historyVars
<1>0. /\ Plugged /\ Deaf /\ Announced /\ Separate /\ Forgotten
      /\ Lapses /\ Judging /\ Refusing /\ Accepting /\ Tracked /\ Pursued
  BY DEF LogInv, QueueInv, TableInv
<1>1. /\ monPc = "deauthorize" /\ monPc' = "idle" /\ listening /\ listening'
      /\ UNCHANGED <<tableVars, watched, overridden>>
  BY WorkHears DEF MonitorDeauthorize
<1>2. PICK p \in Ports : p = monDev.port
  BY <1>1, LogFacts
<1>3. PICK n \in Nodes \cup {0} : n = port[p].node
  BY RemovedIs
<1>4. /\ \A i \in Adds : /\ events[i].port \in Ports /\ events[i].node \in Nodes
                         /\ events[i].key \in Keys
      /\ \A m \in Nodes : unmounted_usb[m] # NoEntry => unmounted_usb[m].port \in Ports
      /\ \A m \in Nodes : mounted_usb[m] # NoEntry =>
           mounted_usb[m].port \in Ports \cup {NoPort}
      /\ 0 \notin Nodes
  BY LogFacts DEF UsbShape, UsbTypeOK, EntryOrNone, Entry
<1>5. \A q \in Ports : Met(q)' => Met(q)
  BY <1>1 DEF Met
<1>6. Deaf' /\ Judging' /\ Refusing' /\ Accepting'
  BY <1>1 DEF Deaf, Judging, Refusing, Accepting
<1>7. /\ Adds' = Adds /\ \A i \in Adds : events'[i] = events[i]
      /\ \A i, q : Pulled(i, q) => Pulled(i, q)'
      /\ \A i, m : Goes(i, m) => Goes(i, m)'
      /\ \A i, j, q : PulledBefore(i, j, q) => PulledBefore(i, j, q)'
      /\ \A i, m : m # n => (Goes(i, m)' <=> Goes(i, m))
      /\ n # 0 => \A i \in Adds \cup {0} : Goes(i, n)'
      /\ \A q \in Ports : q # p => port'[q] = port[q]
      /\ port'[p].key = port[p].key /\ port'[p].node = 0
      /\ port'[p].key # NoKey => ~port'[p].authorized
      /\ port[p].key = NoKey => port' = port
  <2>1. CASE port[p].key = NoKey
    <3>1. port' = port /\ events' = events
      BY <1>2, <2>1 DEF MonitorDeauthorize
    <3>2. n = 0
      BY <1>0, <1>3, <2>1 DEF Plugged
    <3> QED
      BY <1>3, <2>1, <3>1, <3>2 DEF Adds, Pulled, Goes, PulledBefore
  <2>2. CASE port[p].key # NoKey
    <3>1. /\ port' = [port EXCEPT ![p] = [EmptyPort EXCEPT !.key = port[p].key]]
          /\ Notify(RemoveEvents(p))
      BY <1>2, <2>2 DEF MonitorDeauthorize
    <3>2. /\ port'[p].key = port[p].key /\ port'[p].node = 0 /\ ~port'[p].authorized
          /\ \A q \in Ports : q # p => port'[q] = port[q]
      BY <3>1, LogFacts DEF EmptyPort
    <3>3. PICK evts \in Seq(Event) : evts = RemoveEvents(p)
      BY RemovedIs
    <3>4. /\ Notify(evts)
          /\ n # 0 => 1 \in 1 .. Len(evts)
          /\ \A k \in 1 .. Len(evts) : evts[k].action = "remove" /\ evts[k].node = n
      BY <1>3, <3>1, <3>3, RemovedIs
    <3>5. /\ \A k \in 1 .. Len(evts) : /\ evts[k].action # "add"
                                       /\ evts[k].action = "remove" => evts[k].node = n
          /\ n # 0 => \E k \in 1 .. Len(evts) : evts[k].action = "remove"
      BY <3>4
    <3>6. /\ Adds' = Adds /\ \A i \in Adds : events'[i] = events[i]
          /\ \A i, q : Pulled(i, q) => Pulled(i, q)'
          /\ \A i, m : Goes(i, m) => Goes(i, m)'
          /\ \A i, j, q : PulledBefore(i, j, q) => PulledBefore(i, j, q)'
          /\ \A i, m : m # n => (Goes(i, m)' <=> Goes(i, m))
          /\ n # 0 => \A i \in Adds \cup {0} : Goes(i, n)'
      BY <1>1, <3>4, <3>5, GoneEvents
    <3> QED
      BY <2>2, <3>2, <3>6
  <2> QED
    BY <2>1, <2>2
<1>8. /\ \A q \in Ports, m \in Nodes : \A j : Here(q, m, j)' <=> q # p /\ Here(q, m, j)
      /\ \A m \in Nodes : \A j : Here(p, m, j) => m = n /\ n # 0 /\ port[p].key = j
  BY <1>3, <1>4, <1>7 DEF Here
<1>9. Plugged'
  BY <1>0, <1>1, <1>7 DEF Plugged
<1>10. Announced'
  <2>1. ASSUME NEW i \in Adds
        PROVE  LET e == events[i] IN
               \/ Here(e.port, e.node, e.key)'
               \/ Goes(i, e.node)' /\ (Pulled(i, e.port)' \/ port'[e.port].key = e.key)
    BY <1>0, <1>4, <1>7, <1>8 DEF Announced
  <2> QED
    BY <1>7, <2>1 DEF Announced
<1>11. Separate'
  BY <1>0, <1>7 DEF Separate
<1>12. Forgotten'
  <2>1. \A i \in Adds : Met(events[i].port)' => PulledBefore(0, i, events[i].port)'
    BY <1>0, <1>4, <1>5, <1>7 DEF Forgotten
  <2>2. ASSUME NEW q \in Ports,
               port'[q].key = NoKey \/ (port'[q].authorized /\ port'[q].node = 0)
        PROVE  /\ \A i \in Adds : events[i].port = q => Pulled(i, q)'
               /\ Met(q)' => Pulled(0, q)'
    <3>1. port[q].key = NoKey \/ (port[q].authorized /\ port[q].node = 0)
      BY <1>7, <2>2
    <3> QED
      BY <1>0, <1>5, <1>7, <3>1 DEF Forgotten
  <2> QED
    BY <1>7, <2>1, <2>2 DEF Forgotten
<1>13. Lapses'
  <2>1. \A m \in Nodes : Allowed(m) => unmounted_usb[m].port # p
    BY <1>0, <1>1, <1>2 DEF Refusing
  <2>2. \A q \in Ports, m \in Nodes : Expires(q, m) => Expires(q, m)'
    BY <1>7 DEF Expires
  <2> QED
    BY <1>0, <1>1, <1>4, <1>7, <1>8, <2>1, <2>2 DEF Lapses, Allowed
<1>14. Tracked'
  BY <1>0, <1>1, <1>4, <1>7, <1>8 DEF Tracked
<1>15. Pursued'
  <2>1. ASSUME NEW q \in Ports, Unwanted(q)'
        PROVE  q # p /\ Unwanted(q) /\ port[q].node # n
    <3>1. q # p /\ Unwanted(q)
      BY <1>1, <1>7, <2>1 DEF Unwanted, Granted
    <3> QED
      BY <1>0, <1>3, <3>1 DEF Unwanted, Plugged
  <2>2. \A q, m, j : q # p /\ m # n /\ Pursues(q, m, j) => Pursues(q, m, j)'
    BY <1>1, <1>2, <1>7 DEF Pursues
  <2> QED
    BY <1>0, <1>7, <2>1, <2>2 DEF Pursued
<1> QED
  BY <1>6, <1>9, <1>10, <1>11, <1>12, <1>13, <1>14, <1>15 DEF LogInv, QueueInv, TableInv

------------------------------------------------------------------------------
(* The monitor reads an event: the positions of the others go down by one.  *)

LEMMA Popped ==
  ASSUME UsbShape, events # << >>, events' = Tail(events)
  PROVE  /\ Head(events) = events[1] /\ 1 \in 1 .. Len(events)
         /\ \A i \in Adds' : i \in Nat /\ i + 1 \in Adds /\ events'[i] = events[i + 1]
         /\ \A i \in Adds : i # 1 => i - 1 \in Adds' /\ events'[i - 1] = events[i]
         /\ \A i \in Nat : \A p : Pulled(i, p)' <=> Pulled(i + 1, p)
         /\ \A i \in Nat : \A n : Goes(i, n)' <=> Goes(i + 1, n)
         /\ \A i, j \in Nat : \A p : PulledBefore(i, j, p)' <=> PulledBefore(i + 1, j + 1, p)
<1>1. /\ events \in Seq(Event) /\ Len(events) \in Nat /\ Len(events) # 0
      /\ Head(events) = events[1] /\ Len(events') = Len(events) - 1
      /\ \A i \in 1 .. Len(events') : events'[i] = events[i + 1]
  <2>1. events \in Seq(Event) /\ Len(events) \in Nat
    BY LogFacts
  <2>2. Tail(events) \in Seq(Event) /\ Len(Tail(events)) = Len(events) - 1
    BY <2>1
  <2> QED
    BY <2>1, <2>2
<1> DEFINE N == Len(events)
           M == Len(events')
<1>2. /\ \A l \in 1 .. M : l + 1 \in 1 .. N /\ l \in Nat
      /\ \A l \in 1 .. N : l \in Nat /\ (l # 1 => l - 1 \in 1 .. M /\ (l - 1) + 1 = l)
      /\ 1 \in 1 .. N
  BY <1>1
<1>3. \A i \in Adds' : i \in Nat /\ i + 1 \in Adds /\ events'[i] = events[i + 1]
  BY <1>1, <1>2 DEF Adds
<1>4. \A i \in Adds : i # 1 => i - 1 \in Adds' /\ events'[i - 1] = events[i]
  BY <1>1, <1>2 DEF Adds
<1>5. \A i \in Nat : \A p : Pulled(i, p)' <=> Pulled(i + 1, p)
  <2>1. ASSUME NEW i \in Nat, NEW p, Pulled(i, p)' PROVE Pulled(i + 1, p)
    BY <1>1, <1>2, <2>1 DEF Pulled
  <2>2. ASSUME NEW i \in Nat, NEW p, Pulled(i + 1, p) PROVE Pulled(i, p)'
    <3>1. PICK l \in 1 .. N :
            i + 1 < l /\ events[l].action = "unplug" /\ events[l].port = p
      BY <2>2 DEF Pulled
    <3>2. l - 1 \in 1 .. M /\ events'[l - 1] = events[l] /\ i < l - 1
      BY <1>1, <1>2, <3>1
    <3> QED
      BY <3>1, <3>2 DEF Pulled
  <2> QED
    BY <2>1, <2>2
<1>6. \A i \in Nat : \A n : Goes(i, n)' <=> Goes(i + 1, n)
  <2>1. ASSUME NEW i \in Nat, NEW n, Goes(i, n)' PROVE Goes(i + 1, n)
    BY <1>1, <1>2, <2>1 DEF Goes
  <2>2. ASSUME NEW i \in Nat, NEW n, Goes(i + 1, n) PROVE Goes(i, n)'
    <3>1. PICK l \in 1 .. N :
            i + 1 < l /\ events[l].action = "remove" /\ events[l].node = n
      BY <2>2 DEF Goes
    <3>2. l - 1 \in 1 .. M /\ events'[l - 1] = events[l] /\ i < l - 1
      BY <1>1, <1>2, <3>1
    <3> QED
      BY <3>1, <3>2 DEF Goes
  <2> QED
    BY <2>1, <2>2
<1>7. \A i, j \in Nat : \A p : PulledBefore(i, j, p)' <=> PulledBefore(i + 1, j + 1, p)
  <2>1. ASSUME NEW i \in Nat, NEW j \in Nat, NEW p, PulledBefore(i, j, p)'
        PROVE  PulledBefore(i + 1, j + 1, p)
    BY <1>1, <1>2, <2>1 DEF PulledBefore
  <2>2. ASSUME NEW i \in Nat, NEW j \in Nat, NEW p, PulledBefore(i + 1, j + 1, p)
        PROVE  PulledBefore(i, j, p)'
    <3>1. PICK l \in 1 .. N : /\ i + 1 < l /\ l < j + 1
                              /\ events[l].action = "unplug" /\ events[l].port = p
      BY <2>2 DEF PulledBefore
    <3>2. l - 1 \in 1 .. M /\ events'[l - 1] = events[l] /\ i < l - 1 /\ l - 1 < j
      BY <1>1, <1>2, <3>1
    <3> QED
      BY <3>1, <3>2 DEF PulledBefore
  <2> QED
    BY <2>1, <2>2
<1> QED
  BY <1>1, <1>2, <1>3, <1>4, <1>5, <1>6, <1>7

(* What the first event adds to the others. *)
LEMMA First ==
  ASSUME UsbShape, 1 \in 1 .. Len(events)
  PROVE  /\ \A p : Pulled(0, p) =>
              Pulled(1, p) \/ (events[1].action = "unplug" /\ events[1].port = p)
         /\ \A n : Goes(0, n) =>
              Goes(1, n) \/ (events[1].action = "remove" /\ events[1].node = n)
         /\ \A j, p : PulledBefore(0, j, p) =>
              PulledBefore(1, j, p) \/ (events[1].action = "unplug" /\ events[1].port = p)
         /\ \A p : ~PulledBefore(0, 1, p)
<1>1. \A l \in 1 .. Len(events) : l \in Nat /\ 0 < l /\ ~(l < 1) /\ (l # 1 => 1 < l)
  BY LogFacts
<1> QED
  BY <1>1 DEF Pulled, Goes, PulledBefore

(* What is left of the queue is as well ordered as it was. *)
LEMMA PoppedQueue ==
  ASSUME UsbShape, LogInv, listening, events # << >>, events' = Tail(events),
         UNCHANGED <<port, listening, watched, overridden>>
  PROVE  /\ Plugged' /\ Deaf' /\ Announced' /\ Separate'
         /\ \A p \in Ports : \A n, k : Here(p, n, k)' <=> Here(p, n, k)
         /\ \A p : Unwanted(p)' <=> Unwanted(p)
         /\ \A p \in Ports :
              port'[p].key = NoKey \/ (port'[p].authorized /\ port'[p].node = 0) =>
                \A i \in Adds' : events'[i].port = p => Pulled(i, p)'
<1>0. Plugged /\ Announced /\ Separate /\ Forgotten
  BY DEF LogInv, QueueInv
<1>1. /\ \A i \in Adds' : i \in Nat /\ i + 1 \in Adds /\ events'[i] = events[i + 1]
      /\ \A i \in Nat : \A p : Pulled(i, p)' <=> Pulled(i + 1, p)
      /\ \A i \in Nat : \A n : Goes(i, n)' <=> Goes(i + 1, n)
      /\ \A i, j \in Nat : \A p : PulledBefore(i, j, p)' <=> PulledBefore(i + 1, j + 1, p)
  BY Popped
<1>2. \A p \in Ports : \A n, k : Here(p, n, k)' <=> Here(p, n, k)
  BY DEF Here
<1>3. \A i \in Adds : events[i].port \in Ports
  BY LogFacts
<1>4. Announced'
  <2>1. ASSUME NEW i \in Adds'
        PROVE  (LET e == events[i] IN
                \/ Here(e.port, e.node, e.key)
                \/ Goes(i, e.node) /\ (Pulled(i, e.port) \/ port[e.port].key = e.key))'
    <3>1. PICK e : e = events[i + 1]
      OBVIOUS
    <3>2. \/ Here(e.port, e.node, e.key)
          \/ Goes(i + 1, e.node) /\ (Pulled(i + 1, e.port) \/ port[e.port].key = e.key)
      BY <1>0, <1>1, <3>1 DEF Announced
    <3>3. events'[i] = e /\ e.port \in Ports
      BY <1>1, <1>3, <3>1
    <3> QED
      BY <1>1, <1>2, <3>2, <3>3 DEF Here
  <2> QED
    BY <2>1 DEF Announced
<1>5. Separate'
  <2>1. ASSUME NEW i \in Adds', NEW j \in Adds', i < j
        PROVE  (/\ \/ events[i].port = events[j].port
                   \/ events[i].key = events[j].key
                   => PulledBefore(i, j, events[i].port)
                /\ events[i].node = events[j].node => Goes(i, events[i].node))'
    <3>1. i + 1 \in Adds /\ j + 1 \in Adds /\ i + 1 < j + 1
      BY <1>1, <2>1
    <3>2. PICK e, f : e = events[i + 1] /\ f = events[j + 1]
      OBVIOUS
    <3>3. /\ e.port = f.port \/ e.key = f.key => PulledBefore(i + 1, j + 1, e.port)
          /\ e.node = f.node => Goes(i + 1, e.node)
      BY <1>0, <3>1, <3>2 DEF Separate
    <3>4. events'[i] = e /\ events'[j] = f
      BY <1>1, <2>1, <3>2
    <3>5. /\ e.port = f.port \/ e.key = f.key => PulledBefore(i, j, e.port)'
          /\ e.node = f.node => Goes(i, e.node)'
      BY <1>1, <2>1, <3>3
    <3> QED
      BY <3>4, <3>5
  <2> QED
    BY <2>1 DEF Separate
<1>6. \A p \in Ports :
        port'[p].key = NoKey \/ (port'[p].authorized /\ port'[p].node = 0) =>
          \A i \in Adds' : events'[i].port = p => Pulled(i, p)'
  BY <1>0, <1>1 DEF Forgotten
<1>7. Plugged' /\ Deaf' /\ \A p : Unwanted(p)' <=> Unwanted(p)
  BY <1>0 DEF Plugged, Deaf, Unwanted, Granted
<1> QED
  BY <1>2, <1>4, <1>5, <1>6, <1>7

(* An event that is neither the announcement of a refused key nor kept for  *)
(* later: what the tables say goes on holding of the rest of the queue.     *)
LEMMA ReadRest ==
  ASSUME UsbShape, LogInv, listening, events # << >>, events' = Tail(events),
         UNCHANGED <<port, listening, watched, overridden, mounted_usb>>,
         monPc = "idle", monPc' \in {"idle", "remove"},
         \A n \in Nodes : Allowed(n)' => Allowed(n) /\ unmounted_usb'[n] = unmounted_usb[n],
         \A p \in Ports : Met(p)' => Met(p),
         events[1].action = "unplug" => \A p \in Ports : Met(p)' => p # events[1].port,
         events[1].action = "remove" => monPc' = "remove" /\ monDev'.node = events[1].node,
         events[1].action = "add" =>
           \A p \in Ports : Unwanted(p) => port[p].node # events[1].node
  PROVE  LogInv'
<1>0. /\ Plugged /\ Deaf /\ Announced /\ Separate /\ Forgotten
      /\ Lapses /\ Judging /\ Refusing /\ Accepting /\ Tracked /\ Pursued
  BY DEF LogInv, QueueInv, TableInv
<1>1. /\ \A i \in Adds' : i \in Nat /\ i + 1 \in Adds /\ events'[i] = events[i + 1]
      /\ \A i \in Adds : i # 1 => i - 1 \in Adds' /\ events'[i - 1] = events[i]
      /\ \A i \in Nat : \A p : Pulled(i, p)' <=> Pulled(i + 1, p)
      /\ \A i \in Nat : \A n : Goes(i, n)' <=> Goes(i + 1, n)
      /\ \A i, j \in Nat : \A p : PulledBefore(i, j, p)' <=> PulledBefore(i + 1, j + 1, p)
      /\ 1 \in 1 .. Len(events)
  BY Popped
<1>2. /\ \A p : Pulled(0, p) =>
           Pulled(1, p) \/ (events[1].action = "unplug" /\ events[1].port = p)
      /\ \A n : Goes(0, n) =>
           Goes(1, n) \/ (events[1].action = "remove" /\ events[1].node = n)
      /\ \A j, p : PulledBefore(0, j, p) =>
           PulledBefore(1, j, p) \/ (events[1].action = "unplug" /\ events[1].port = p)
  BY <1>1, First
<1>3. /\ \A p : Pulled(0, p)' <=> Pulled(1, p)
      /\ \A n : Goes(0, n)' <=> Goes(1, n)
      /\ \A j \in Nat : \A p : PulledBefore(0, j, p)' <=> PulledBefore(1, j + 1, p)
  <2>1. 0 \in Nat /\ 0 + 1 = 1
    OBVIOUS
  <2> QED
    BY <1>1, <2>1
<1>4. /\ Plugged' /\ Deaf' /\ Announced' /\ Separate'
      /\ \A p \in Ports : \A n, k : Here(p, n, k)' <=> Here(p, n, k)
      /\ \A p : Unwanted(p)' <=> Unwanted(p)
      /\ \A p \in Ports :
           port'[p].key = NoKey \/ (port'[p].authorized /\ port'[p].node = 0) =>
             \A i \in Adds' : events'[i].port = p => Pulled(i, p)'
  BY PoppedQueue
<1>5. /\ \A i \in Adds : events[i].port \in Ports
      /\ \A n \in Nodes : unmounted_usb[n] # NoEntry => unmounted_usb[n].port \in Ports
      /\ \A n \in Nodes : mounted_usb[n] # NoEntry =>
           mounted_usb[n].port \in Ports \cup {NoPort}
  BY LogFacts DEF UsbShape, UsbTypeOK, EntryOrNone, Entry
<1>6. \A p \in Ports : Met(p)' => ~(events[1].action = "unplug" /\ events[1].port = p)
  OBVIOUS
<1>7. \A n \in Nodes : Allowed(n)' =>
        /\ Allowed(n) /\ unmounted_usb'[n] = unmounted_usb[n]
        /\ unmounted_usb[n].port \in Ports /\ Met(unmounted_usb[n].port)'
  BY <1>5 DEF Allowed, Met
<1>8. Forgotten'
  <2>1. ASSUME NEW i \in Adds', NEW p \in Ports, p = events'[i].port, Met(p)'
        PROVE  PulledBefore(0, i, p)'
    <3>1. i + 1 \in Adds /\ p = events[i + 1].port
      BY <1>1, <2>1
    <3>2. Met(p)
      BY <2>1
    <3>3. PulledBefore(0, i + 1, p)
      BY <1>0, <3>1, <3>2 DEF Forgotten
    <3>4. PulledBefore(1, i + 1, p)
      BY <1>2, <1>6, <2>1, <3>3
    <3> QED
      BY <1>1, <1>3, <3>4
  <2>2. ASSUME NEW p \in Ports, Met(p)',
               port'[p].key = NoKey \/ (port'[p].authorized /\ port'[p].node = 0)
        PROVE  Pulled(0, p)'
    <3>1. Pulled(0, p)
      BY <1>0, <2>2 DEF Forgotten
    <3> QED
      BY <1>2, <1>3, <1>6, <2>2, <3>1
  <2>3. \A i \in Adds' : events'[i].port \in Ports
    BY <1>1, <1>5
  <2> QED
    BY <1>4, <2>1, <2>2, <2>3 DEF Forgotten
<1>9. Lapses'
  <2>1. ASSUME NEW n \in Nodes, Allowed(n)', NEW p \in Ports, p = unmounted_usb'[n].port
        PROVE  (Here(p, n, unmounted_usb[n].key) \/ Pulled(0, p))' /\ Expires(p, n)'
    <3>1. /\ Here(p, n, unmounted_usb[n].key) \/ Pulled(0, p)
          /\ Expires(p, n)
          /\ Met(p)' /\ unmounted_usb'[n] = unmounted_usb[n]
      BY <1>0, <1>7, <2>1 DEF Lapses
    <3>2. Here(p, n, unmounted_usb[n].key) \/ Pulled(0, p)'
      BY <1>2, <1>3, <1>6, <3>1
    <3>3. (Here(p, n, unmounted_usb[n].key) \/ Pulled(0, p))'
      BY <1>4, <3>1, <3>2 DEF Here
    <3>4. ASSUME NEW i \in Adds', events'[i].node = n, ~Goes(i, n)'
          PROVE  PulledBefore(0, i, p)'
      <4>1. PulledBefore(0, i + 1, p)
        BY <1>1, <3>1, <3>4 DEF Expires
      <4> QED
        BY <1>1, <1>2, <1>3, <1>6, <3>1, <4>1
    <3> QED
      BY <3>3, <3>4 DEF Expires
  <2> QED
    BY <1>7, <2>1 DEF Lapses
<1>10. Judging' /\ Refusing' /\ Accepting'
  BY DEF Judging, Refusing, Accepting
<1>11. Tracked'
  <2>1. ASSUME NEW n \in Nodes, mounted_usb[n] # NoEntry, mounted_usb[n].port # NoPort
        PROVE  (\/ Here(mounted_usb[n].port, n, mounted_usb[n].key)
                \/ Goes(0, n)
                \/ monPc = "remove" /\ monDev.node = n)'
    <3>1. \/ Here(mounted_usb[n].port, n, mounted_usb[n].key) \/ Goes(0, n)
      BY <1>0, <2>1 DEF Tracked
    <3>2. \/ Here(mounted_usb[n].port, n, mounted_usb[n].key)
          \/ Goes(0, n)'
          \/ monPc' = "remove" /\ monDev'.node = n
      BY <1>2, <1>3, <3>1
    <3> QED
      BY <3>2 DEF Here
  <2> QED
    BY <2>1 DEF Tracked
<1>12. Pursued'
  <2>1. ASSUME NEW p \in Ports, Unwanted(p)', NEW n, n = port[p].node, NEW k, k = port[p].key
        PROVE  Pursues(p, n, k)'
    <3>1. Unwanted(p)
      BY <1>4, <2>1
    <3>2. PICK i \in Adds : /\ events[i].port = p /\ events[i].node = n
                            /\ events[i].key = k /\ ~Goes(i, n)
      BY <1>0, <2>1, <3>1 DEF Pursued, Pursues
    <3>3. i # 1
      BY <2>1, <3>1, <3>2 DEF Adds
    <3>4. /\ i - 1 \in Adds' /\ events'[i - 1] = events[i]
          /\ i - 1 \in Nat /\ (i - 1) + 1 = i
      BY <1>1, <3>3, LogFacts
    <3>5. ~Goes(i - 1, n)'
      BY <1>1, <3>2, <3>4
    <3> QED
      BY <3>2, <3>4, <3>5 DEF Pursues
  <2> QED
    BY <2>1 DEF Pursued
<1> QED
  BY <1>4, <1>8, <1>9, <1>10, <1>11, <1>12 DEF LogInv, QueueInv, TableInv

LEMMA ReadLog ==
  ASSUME UsbShape, LogInv, MonitorUnplug \/ MonitorRemove \/ MonitorIgnore
  PROVE  LogInv'
<1> USE DEF kernelVars, tableVars, monVars, fanVars, boundVars, historyVars
<1>1. /\ listening /\ events # << >> /\ events' = Tail(events) /\ monPc = "idle"
      /\ UNCHANGED <<port, listening, watched, overridden, mounted_usb>>
  BY DEF MonitorUnplug, MonitorRemove, MonitorIgnore, Reading
<1>2. Head(events) = events[1] /\ 1 \in 1 .. Len(events) /\ events[1].port \in Ports
  BY <1>1, Popped, LogFacts
<1>3. CASE MonitorUnplug
  <2>1. /\ events[1].action = "unplug" /\ monPc' = "idle"
        /\ unmounted_usb' = [n \in Nodes |->
             IF unmounted_usb[n] # NoEntry /\ unmounted_usb[n].port = events[1].port
             THEN NoEntry ELSE unmounted_usb[n]]
    BY <1>1, <1>2, <1>3 DEF MonitorUnplug, Reading
  <2>2. \A n \in Nodes : unmounted_usb'[n] # NoEntry =>
          /\ unmounted_usb'[n] = unmounted_usb[n]
          /\ unmounted_usb[n] # NoEntry /\ unmounted_usb[n].port # events[1].port
    BY <2>1
  <2>3. /\ \A n \in Nodes : Allowed(n)' =>
             Allowed(n) /\ unmounted_usb'[n] = unmounted_usb[n]
        /\ \A p \in Ports : Met(p)' => Met(p) /\ p # events[1].port
    BY <2>1, <2>2 DEF Allowed, Met
  <2> QED
    BY <1>1, <2>1, <2>3, ReadRest
<1>4. CASE MonitorRemove
  <2>1. /\ events[1].action = "remove" /\ monPc' = "remove"
        /\ monDev'.node = events[1].node /\ UNCHANGED unmounted_usb
    BY <1>1, <1>2, <1>4 DEF MonitorRemove, Reading
  <2>2. /\ \A n \in Nodes : Allowed(n)' =>
             Allowed(n) /\ unmounted_usb'[n] = unmounted_usb[n]
        /\ \A p \in Ports : Met(p)' => Met(p)
    BY <1>1, <2>1 DEF Allowed, Met
  <2> QED
    BY <1>1, <2>1, <2>2, ReadRest
<1>5. CASE MonitorIgnore
  <2>1. /\ events[1].action = "add" /\ UNCHANGED <<monPc, monDev, unmounted_usb>>
        /\ ~Readable(KeyAt(events[1].node))
    BY <1>1, <1>2, <1>5 DEF MonitorIgnore, Reading
  <2>2. /\ \A n \in Nodes : Allowed(n)' =>
             Allowed(n) /\ unmounted_usb'[n] = unmounted_usb[n]
        /\ \A p \in Ports : Met(p)' => Met(p)
    BY <2>1 DEF Allowed, Met
  <2>3. ASSUME NEW p \in Ports, Unwanted(p) PROVE port[p].node # events[1].node
    <3>1. Plugged /\ port[p].node # 0
      BY <2>3 DEF LogInv, QueueInv, Unwanted
    <3>2. port[p].key # NoKey /\ KeyAt(port[p].node) = port[p].key
      BY <3>1, KeyThere DEF Plugged
    <3>3. Signature[port[p].key] # "unreadable"
      BY <2>3 DEF Unwanted
    <3> QED
      BY <2>1, <3>2, <3>3 DEF Readable
  <2> QED
    BY <1>1, <2>1, <2>2, <2>3, ReadRest
<1> QED
  BY <1>3, <1>4, <1>5

------------------------------------------------------------------------------
(* The monitor changes its tables. *)

LEMMA TablesQueue ==
  ASSUME UsbShape, LogInv, listening,
         UNCHANGED <<port, events, listening, watched, overridden>>,
         \A p \in Ports : Met(p)' => Met(p)
  PROVE  /\ QueueInv' /\ Adds' = Adds
         /\ \A i, p : Pulled(i, p)' <=> Pulled(i, p)
         /\ \A i, n : Goes(i, n)' <=> Goes(i, n)
         /\ \A p, n : Expires(p, n)' <=> Expires(p, n)
         /\ \A p, n, k : Here(p, n, k)' <=> Here(p, n, k)
         /\ \A p : Unwanted(p)' <=> Unwanted(p)
<1>1. /\ Plugged /\ Deaf /\ Announced /\ Separate /\ Forgotten
  BY DEF LogInv, QueueInv
<1>2. /\ Adds' = Adds
      /\ \A i, p : Pulled(i, p)' <=> Pulled(i, p)
      /\ \A i, n : Goes(i, n)' <=> Goes(i, n)
      /\ \A i, j, p : PulledBefore(i, j, p)' <=> PulledBefore(i, j, p)
      /\ \A p, n, k : Here(p, n, k)' <=> Here(p, n, k)
      /\ \A p : Unwanted(p)' <=> Unwanted(p)
  BY DEF Adds, Pulled, Goes, PulledBefore, Here, Unwanted, Granted
<1>3. \A p, n : Expires(p, n)' <=> Expires(p, n)
  BY <1>2 DEF Expires
<1>4. \A i \in Adds : events[i].port \in Ports
  BY LogFacts
<1>5. Plugged' /\ Deaf' /\ Announced' /\ Separate'
  BY <1>1, <1>2 DEF Plugged, Deaf, Announced, Separate
<1>6. Forgotten'
  BY <1>1, <1>2, <1>4 DEF Forgotten
<1> QED
  BY <1>2, <1>3, <1>5, <1>6 DEF QueueInv

LEMMA ForgetLog ==
  ASSUME UsbShape, LogInv, MonitorForget
  PROVE  LogInv'
<1> USE DEF kernelVars, tableVars, monVars, fanVars, boundVars, historyVars
<1>0. Lapses /\ Tracked /\ Pursued
  BY DEF LogInv, TableInv
<1>1. PICK n \in Nodes : n = monDev.node /\ monPc = "remove" /\ monPc' = "idle"
  BY LogFacts DEF MonitorForget
<1>2. /\ listening /\ UNCHANGED <<port, events, listening, watched, overridden>>
      /\ mounted_usb' = [mounted_usb EXCEPT ![n] = NoEntry]
      /\ \/ unmounted_usb' = unmounted_usb
         \/ unmounted_usb' = [unmounted_usb EXCEPT ![n] = NoEntry]
  BY <1>1, WorkHears DEF MonitorForget
<1>3. /\ unmounted_usb \in [Nodes -> EntryOrNone] /\ mounted_usb \in [Nodes -> EntryOrNone]
  BY DEF UsbShape, UsbTypeOK
<1>4. /\ \A m \in Nodes : unmounted_usb'[m] # NoEntry => unmounted_usb'[m] = unmounted_usb[m]
      /\ \A m \in Nodes : mounted_usb'[m] # NoEntry =>
           mounted_usb'[m] = mounted_usb[m] /\ m # n
  BY <1>2, <1>3
<1>5. \A p \in Ports : Met(p)' => Met(p)
  BY <1>1, <1>4 DEF Met
<1>6. /\ QueueInv' /\ Adds' = Adds
      /\ \A i, p : Pulled(i, p)' <=> Pulled(i, p)
      /\ \A i, m : Goes(i, m)' <=> Goes(i, m)
      /\ \A p, m : Expires(p, m)' <=> Expires(p, m)
      /\ \A p, m, k : Here(p, m, k)' <=> Here(p, m, k)
      /\ \A p : Unwanted(p)' <=> Unwanted(p)
  BY <1>2, <1>5, TablesQueue
<1>7. Lapses'
  BY <1>0, <1>4, <1>6 DEF Lapses, Allowed
<1>8. Judging' /\ Refusing' /\ Accepting'
  BY <1>1 DEF Judging, Refusing, Accepting
<1>9. Tracked'
  BY <1>0, <1>1, <1>4, <1>6 DEF Tracked
<1>10. Pursued'
  <2>1. \A p, m, k : Pursues(p, m, k) => Pursues(p, m, k)'
    BY <1>1, <1>2, <1>6 DEF Pursues
  <2> QED
    BY <1>0, <1>2, <1>6, <2>1 DEF Pursued
<1> QED
  BY <1>6, <1>7, <1>8, <1>9, <1>10 DEF LogInv, TableInv

LEMMA TrackLog ==
  ASSUME UsbShape, LogInv, MonitorTrack
  PROVE  LogInv'
<1> USE DEF kernelVars, tableVars, monVars, fanVars, boundVars, historyVars
<1>0. Lapses /\ Accepting /\ Tracked /\ Pursued
  BY DEF LogInv, TableInv
<1>1. PICK n \in Nodes : n = monDev.node /\ monPc = "track" /\ monPc' = "idle"
  BY LogFacts DEF MonitorTrack
<1>2. /\ listening /\ UNCHANGED <<port, events, listening, watched, overridden>>
      /\ mounted_usb' = [mounted_usb EXCEPT ![n] = unmounted_usb[n]]
      /\ unmounted_usb' = [unmounted_usb EXCEPT ![n] = NoEntry]
  BY <1>1, WorkHears DEF MonitorTrack, UsbShape, Working
<1>3. /\ unmounted_usb \in [Nodes -> EntryOrNone] /\ mounted_usb \in [Nodes -> EntryOrNone]
  BY DEF UsbShape, UsbTypeOK
<1>4. /\ \A m \in Nodes : unmounted_usb'[m] # NoEntry => unmounted_usb'[m] = unmounted_usb[m]
      /\ \A m \in Nodes : m # n => mounted_usb'[m] = mounted_usb[m]
      /\ mounted_usb'[n] = unmounted_usb[n]
  BY <1>2, <1>3
<1>5. \A p \in Ports : Met(p)' => Met(p)
  BY <1>1, <1>4 DEF Met
<1>6. /\ QueueInv' /\ Adds' = Adds
      /\ \A i, p : Pulled(i, p)' <=> Pulled(i, p)
      /\ \A i, m : Goes(i, m)' <=> Goes(i, m)
      /\ \A p, m : Expires(p, m)' <=> Expires(p, m)
      /\ \A p, m, k : Here(p, m, k)' <=> Here(p, m, k)
      /\ \A p : Unwanted(p)' <=> Unwanted(p)
  BY <1>2, <1>5, TablesQueue
<1>7. Lapses'
  BY <1>0, <1>4, <1>6 DEF Lapses, Allowed
<1>8. Judging' /\ Refusing' /\ Accepting'
  BY <1>1 DEF Judging, Refusing, Accepting
<1>9. Tracked'
  <2>1. \/ Here(unmounted_usb[n].port, n, unmounted_usb[n].key) \/ Goes(0, n)
    BY <1>0, <1>1 DEF Accepting
  <2> QED
    BY <1>0, <1>1, <1>4, <1>6, <2>1 DEF Tracked
<1>10. Pursued'
  <2>1. \A p, m, k : Pursues(p, m, k) => Pursues(p, m, k)'
    BY <1>1, <1>2, <1>6 DEF Pursues
  <2> QED
    BY <1>0, <1>2, <1>6, <2>1 DEF Pursued
<1> QED
  BY <1>6, <1>7, <1>8, <1>9, <1>10 DEF LogInv, TableInv

(* authorize_usb, when the policy refuses what has no signature.            *)
LEMMA AuthorizeLog ==
  ASSUME UsbShape, LogInv, Strict, MonitorAuthorize
  PROVE  LogInv'
<1> USE DEF kernelVars, tableVars, monVars, fanVars, boundVars, historyVars
<1>0. Lapses /\ Judging /\ Tracked /\ Pursued
  BY DEF LogInv, TableInv
<1>1. /\ monPc = "authorize" /\ monDev \in Work /\ monDev.port \in Ports
      /\ monDev.node \in Nodes /\ monDev.key \in Keys /\ monDev.read \in Keys
  BY LogFacts DEF MonitorAuthorize, UsbShape, Working
<1>2. PICK p \in Ports, n \in Nodes, k \in Keys, r \in Keys :
        p = monDev.port /\ n = monDev.node /\ k = monDev.key /\ r = monDev.read
  BY <1>1
<1>3. /\ \A m \in Nodes : unmounted_usb[m] # NoEntry => unmounted_usb[m].port # p
      /\ Here(p, n, k) \/ Goes(0, n)
      /\ k = r => (Here(p, n, k) \/ Pulled(0, p)) /\ Expires(p, n)
      /\ Allowed(n) => Goes(0, n)
  BY <1>0, <1>1, <1>2 DEF Judging
<1>4. /\ listening /\ UNCHANGED <<port, events, listening, watched, overridden, mounted_usb>>
      /\ unmounted_usb \in [Nodes -> EntryOrNone]
      /\ monPc' \in {"certify", "deauthorize"}
      /\ monDev'.port = p /\ monDev'.node = n
  BY <1>1, <1>2, WorkHears DEF MonitorAuthorize, UsbShape, UsbTypeOK, Work
<1>5. PICK e : e = [port |-> p, key |-> k, auth |-> Authorization(k, r)]
  OBVIOUS
<1>6. \/ /\ Allowed(n) /\ monPc' = "certify"
         /\ unmounted_usb' = [unmounted_usb EXCEPT ![n] = unmounted_usb[n]]
      \/ /\ ~Allowed(n) /\ monPc' = IF e.auth = "Block" THEN "deauthorize" ELSE "certify"
         /\ unmounted_usb' = [unmounted_usb EXCEPT ![n] = e]
  BY <1>2, <1>5 DEF MonitorAuthorize, Allowed
<1>7. /\ e.port = p /\ e.key = k /\ e.auth = Authorization(k, r)
      /\ e.auth # "Block" => Signature[k] = "valid" /\ k = r
  BY <1>5 DEF Strict, Authorization
<1>8. /\ \A m \in Nodes : m # n => unmounted_usb'[m] = unmounted_usb[m]
      /\ \/ Allowed(n) /\ unmounted_usb'[n] = unmounted_usb[n] /\ monPc' = "certify"
         \/ /\ unmounted_usb'[n] = e
            /\ monPc' = IF e.auth = "Block" THEN "deauthorize" ELSE "certify"
  BY <1>4, <1>6
<1>9. \A q \in Ports : Met(q)' => Met(q)
  <2>1. Met(p)
    BY <1>1, <1>2 DEF Met
  <2>2. \A q \in Ports : Met(q)' => Met(q) \/ q = p
    BY <1>4, <1>7, <1>8 DEF Met, Allowed
  <2> QED
    BY <2>1, <2>2
<1>10. /\ QueueInv' /\ Adds' = Adds
       /\ \A i, q : Pulled(i, q)' <=> Pulled(i, q)
       /\ \A i, m : Goes(i, m)' <=> Goes(i, m)
       /\ \A q, m : Expires(q, m)' <=> Expires(q, m)
       /\ \A q, m, j : Here(q, m, j)' <=> Here(q, m, j)
       /\ \A q : Unwanted(q)' <=> Unwanted(q)
  BY <1>4, <1>9, TablesQueue
<1>11. \A m \in Nodes : Allowed(m)' =>
         \/ Allowed(m) /\ unmounted_usb'[m] = unmounted_usb[m]
         \/ /\ m = n /\ unmounted_usb'[m] = e /\ monPc' = "certify"
            /\ Signature[k] = "valid" /\ k = r
  BY <1>7, <1>8 DEF Allowed
<1>12. Lapses'
  <2>1. ASSUME NEW m \in Nodes, Allowed(m)', NEW f, f = unmounted_usb'[m]
        PROVE  (Here(f.port, m, f.key) \/ Pulled(0, f.port)) /\ Expires(f.port, m)
    <3>1. CASE Allowed(m) /\ unmounted_usb'[m] = unmounted_usb[m]
      BY <1>0, <2>1, <3>1 DEF Lapses
    <3>2. CASE m = n /\ unmounted_usb'[m] = e /\ k = r
      BY <1>3, <1>7, <2>1, <3>2
    <3> QED
      BY <1>11, <2>1, <3>1, <3>2
  <2> QED
    BY <1>10, <2>1 DEF Lapses
<1>13. Judging' /\ Refusing'
  <2>1. Judging'
    BY <1>4 DEF Judging
  <2>2. ASSUME monPc' = "deauthorize", NEW m \in Nodes, Allowed(m)'
        PROVE  unmounted_usb'[m].port # monDev'.port
    BY <1>3, <1>4, <1>11, <2>2 DEF Allowed
  <2> QED
    BY <2>1, <2>2 DEF Refusing
<1>14. Accepting'
  <2>1. ASSUME NEW f, f = unmounted_usb'[n], monPc' = "certify"
        PROVE  Here(f.port, n, f.key) \/ Goes(0, n)
    BY <1>3, <1>7, <1>8, <2>1
  <2> QED
    BY <1>4, <1>10, <2>1 DEF Accepting
<1>15. Tracked'
  BY <1>0, <1>1, <1>4, <1>10 DEF Tracked
<1>16. Pursued'
  <2>1. ASSUME NEW q \in Ports, Unwanted(q), NEW m, m = port[q].node, NEW j, j = port[q].key
        PROVE  Pursues(q, m, j)'
    <3>1. Pursues(q, m, j)
      BY <1>0, <2>1 DEF Pursued
    <3>2. CASE \E i \in Adds : /\ events[i].port = q /\ events[i].node = m
                               /\ events[i].key = j /\ ~Goes(i, m)
      BY <1>4, <1>10, <3>2 DEF Pursues
    <3>3. CASE ~Goes(0, m) /\ monDev = [port |-> q, node |-> m, key |-> j, read |-> j]
      <4>1. q = p /\ m = n /\ j = k /\ j = r
        BY <1>2, <3>3
      <4>2. ~Allowed(n) /\ Signature[k] # "valid"
        BY <1>3, <2>1, <3>3, <4>1 DEF Unwanted, Granted
      <4>3. monPc' = "deauthorize" /\ monDev'.port = q
        BY <1>4, <1>7, <1>8, <4>1, <4>2
      <4> QED
        BY <4>3 DEF Pursues
    <3> QED
      BY <1>1, <3>1, <3>2, <3>3 DEF Pursues
  <2> QED
    BY <1>4, <1>10, <2>1 DEF Pursued
<1> QED
  BY <1>10, <1>12, <1>13, <1>14, <1>15, <1>16 DEF LogInv, TableInv

(* What the monitor reads of a device and of its signature block.           *)
LEMMA BlockLog ==
  ASSUME UsbShape, LogInv, MonitorRead
  PROVE  LogInv'
<1> USE DEF kernelVars, tableVars, monVars, fanVars, boundVars, historyVars
<1>0. /\ Plugged /\ Deaf /\ Announced /\ Separate /\ Forgotten
      /\ Lapses /\ Judging /\ Refusing /\ Accepting /\ Tracked /\ Pursued
  BY DEF LogInv, QueueInv, TableInv
<1>1. /\ listening /\ events # << >> /\ events' = Tail(events) /\ monPc = "idle"
      /\ UNCHANGED <<port, listening, watched, overridden, tableVars>>
      /\ monPc' = "authorize"
  BY DEF MonitorRead, Reading
<1>2. /\ Head(events) = events[1] /\ 1 \in 1 .. Len(events)
      /\ \A i \in Adds' : i \in Nat /\ i + 1 \in Adds /\ events'[i] = events[i + 1]
      /\ \A i \in Adds : i # 1 => i - 1 \in Adds' /\ events'[i - 1] = events[i]
      /\ \A i \in Nat : \A p : Pulled(i, p)' <=> Pulled(i + 1, p)
      /\ \A i \in Nat : \A n : Goes(i, n)' <=> Goes(i + 1, n)
      /\ \A i, j \in Nat : \A p : PulledBefore(i, j, p)' <=> PulledBefore(i + 1, j + 1, p)
  BY <1>1, Popped
<1>3. /\ 1 \in Adds
      /\ \A i \in Adds : /\ events[i].port \in Ports /\ events[i].node \in Nodes
                         /\ events[i].key \in Keys
      /\ \A n \in Nodes : unmounted_usb[n] # NoEntry => unmounted_usb[n].port \in Ports
      /\ \A n \in Nodes : mounted_usb[n] # NoEntry =>
           mounted_usb[n].port \in Ports \cup {NoPort}
      /\ 0 \notin Nodes
  BY <1>2, LogFacts DEF MonitorRead, Reading, Adds, UsbShape, UsbTypeOK, EntryOrNone, Entry
<1>4. PICK p \in Ports, n \in Nodes, k \in Keys :
        p = events[1].port /\ n = events[1].node /\ k = events[1].key
  BY <1>3
<1>5. PICK r : r = KeyAt(n)
  OBVIOUS
<1>6. /\ monDev' = [port |-> p, node |-> n, key |-> k, read |-> r] /\ Readable(r)
  BY <1>2, <1>4, <1>5 DEF MonitorRead
<1>7. /\ \A q : Pulled(0, q) => Pulled(1, q)
      /\ \A m : Goes(0, m) => Goes(1, m)
      /\ \A j, q : PulledBefore(0, j, q) => PulledBefore(1, j, q)
      /\ \A q : ~PulledBefore(0, 1, q)
  BY <1>2, <1>3, First DEF Adds
<1>8. /\ \A q : Pulled(0, q)' <=> Pulled(1, q)
      /\ \A m : Goes(0, m)' <=> Goes(1, m)
      /\ \A j \in Nat : \A q : PulledBefore(0, j, q)' <=> PulledBefore(1, j + 1, q)
  <2>1. 0 \in Nat /\ 0 + 1 = 1
    OBVIOUS
  <2> QED
    BY <1>2, <2>1
<1>9. /\ Plugged' /\ Deaf' /\ Announced' /\ Separate'
      /\ \A q \in Ports : \A m, j : Here(q, m, j)' <=> Here(q, m, j)
      /\ \A q : Unwanted(q)' <=> Unwanted(q)
      /\ \A q \in Ports :
           port'[q].key = NoKey \/ (port'[q].authorized /\ port'[q].node = 0) =>
             \A i \in Adds' : events'[i].port = q => Pulled(i, q)'
  BY <1>1, PoppedQueue
<1>10. \A q \in Ports : Met(q)' => Met(q) \/ q = p
  BY <1>1, <1>6 DEF Met
(* Nothing of the port is known yet. *)
<1>11. ASSUME NEW m \in Nodes, unmounted_usb[m] # NoEntry PROVE unmounted_usb[m].port # p
  <2>1. SUFFICES ASSUME unmounted_usb[m].port = p PROVE FALSE
    OBVIOUS
  <2>2. Met(p)
    BY <1>11, <2>1 DEF Met
  <2>3. PulledBefore(0, 1, p)
    BY <1>0, <1>3, <1>4, <2>2 DEF Forgotten
  <2> QED
    BY <1>7, <2>3
<1>12. Here(p, n, k) \/ (Goes(1, n) /\ (Pulled(1, p) \/ port[p].key = k))
  BY <1>0, <1>3, <1>4 DEF Announced
(* The devices of one port, key or node that follow. *)
<1>13. \A j \in Adds : 1 < j =>
         /\ events[j].port = p \/ events[j].key = k => PulledBefore(1, j, p)
         /\ events[j].node = n => Goes(1, n)
  BY <1>0, <1>3, <1>4 DEF Separate
<1>14. \A i \in Adds' : i \in Nat /\ i + 1 \in Adds /\ 1 < i + 1 /\ events'[i] = events[i + 1]
  <2>1. \A i \in Adds' : i # 0
    BY DEF Adds
  <2> QED
    BY <1>2, <2>1
<1>15. Forgotten'
  <2>1. ASSUME NEW i \in Adds', NEW q \in Ports, q = events'[i].port, Met(q)'
        PROVE  PulledBefore(0, i, q)'
    <3>1. PulledBefore(1, i + 1, q)
      <4>1. CASE q = p
        BY <1>13, <1>14, <2>1, <4>1
      <4>2. CASE Met(q)
        <5>1. PulledBefore(0, i + 1, q)
          BY <1>0, <1>14, <2>1, <4>2 DEF Forgotten
        <5> QED
          BY <1>7, <5>1
      <4> QED
        BY <1>10, <2>1, <4>1, <4>2
    <3> QED
      BY <1>8, <1>14, <3>1
  <2>2. ASSUME NEW q \in Ports, Met(q)',
               port[q].key = NoKey \/ (port[q].authorized /\ port[q].node = 0)
        PROVE  Pulled(0, q)'
    <3>1. CASE q = p
      BY <1>0, <1>3, <1>4, <1>8, <2>2, <3>1 DEF Forgotten
    <3>2. CASE Met(q)
      BY <1>0, <1>7, <1>8, <2>2, <3>2 DEF Forgotten
    <3> QED
      BY <1>10, <2>2, <3>1, <3>2
  <2>3. \A i \in Adds' : events'[i].port \in Ports
    BY <1>3, <1>14
  <2> QED
    BY <1>1, <1>9, <2>1, <2>2, <2>3 DEF Forgotten
<1>16. Lapses'
  <2>1. ASSUME NEW m \in Nodes, Allowed(m), NEW q, q = unmounted_usb[m].port
        PROVE  /\ (Here(q, m, unmounted_usb[m].key) \/ Pulled(0, q))'
               /\ Expires(q, m)'
    <3>1. /\ Here(q, m, unmounted_usb[m].key) \/ Pulled(0, q)
          /\ Expires(q, m) /\ q \in Ports
      BY <1>0, <1>3, <2>1 DEF Lapses, Allowed
    <3>2. (Here(q, m, unmounted_usb[m].key) \/ Pulled(0, q))'
      BY <1>1, <1>7, <1>8, <3>1 DEF Here
    <3>3. ASSUME NEW i \in Adds', events'[i].node = m, ~Goes(i, m)'
          PROVE  PulledBefore(0, i, q)'
      <4>1. PulledBefore(0, i + 1, q)
        BY <1>2, <1>14, <3>1, <3>3 DEF Expires
      <4> QED
        BY <1>7, <1>8, <1>14, <4>1
    <3> QED
      BY <3>2, <3>3 DEF Expires
  <2>2. \A m \in Nodes : Allowed(m)' => Allowed(m)
    BY <1>1 DEF Allowed
  <2> QED
    BY <1>1, <2>1, <2>2 DEF Lapses
(* The key that answers at the node, when it is the one that was announced. *)
<1>17. ASSUME k = r PROVE (Here(p, n, k) \/ Pulled(0, p)') /\ Expires(p, n)'
  <2>1. PICK q \in Ports : port[q].node = n /\ port[q].key = k
    BY <1>5, <1>17, KeyIsThere
  <2>2. k # NoKey /\ n # 0
    BY <1>3, UsbAssumption
  <2>3. \A s \in Ports : port[s].node = n \/ port[s].key = k => s = q
    BY <1>0, <2>1, <2>2 DEF Plugged
  <2>4. Here(p, n, k) \/ Pulled(0, p)'
    BY <1>8, <1>12, <2>1, <2>3 DEF Here
  <2>5. ASSUME NEW i \in Adds', events'[i].node = n, ~Goes(i, n)'
        PROVE  PulledBefore(0, i, p)'
    <3>1. PICK f : f = events[i + 1]
      OBVIOUS
    <3>2. /\ f.node = n /\ ~Goes(i + 1, n) /\ i + 1 \in Adds
          /\ f.port \in Ports
      BY <1>2, <1>3, <1>14, <2>5, <3>1
    <3>3. Here(f.port, n, f.key)
      BY <1>0, <3>1, <3>2 DEF Announced
    <3>4. f.key = k
      BY <2>1, <2>3, <3>2, <3>3 DEF Here
    <3>5. PulledBefore(1, i + 1, p)
      BY <1>13, <1>14, <2>5, <3>1, <3>4
    <3> QED
      BY <1>8, <1>14, <3>5
  <2> QED
    BY <2>4, <2>5 DEF Expires
<1>18. ASSUME Allowed(n) PROVE Goes(1, n)
  <2>1. PICK q : q = unmounted_usb[n].port
    OBVIOUS
  <2>2. Expires(q, n)
    BY <1>0, <1>18, <2>1 DEF Lapses
  <2> QED
    BY <1>3, <1>4, <1>7, <2>2 DEF Expires
<1>19. Judging'
  <2>1. monDev'.port = p /\ monDev'.node = n /\ monDev'.key = k /\ monDev'.read = r
    BY <1>6
  <2>2. Here(p, n, k) \/ Goes(0, n)'
    BY <1>8, <1>12
  <2>3. Allowed(n)' => Goes(0, n)'
    BY <1>1, <1>8, <1>18 DEF Allowed
  <2>4. \A m \in Nodes : unmounted_usb'[m] # NoEntry => unmounted_usb'[m].port # p
    BY <1>1, <1>11
  <2>5. Here(p, n, k)' <=> Here(p, n, k)
    BY <1>9
  <2> QED
    BY <1>17, <2>1, <2>2, <2>3, <2>4, <2>5 DEF Judging
<1>20. Refusing' /\ Accepting'
  BY <1>1 DEF Refusing, Accepting
<1>21. Tracked'
  <2>1. ASSUME NEW m \in Nodes, mounted_usb[m] # NoEntry, mounted_usb[m].port # NoPort
        PROVE  Here(mounted_usb[m].port, m, mounted_usb[m].key) \/ Goes(0, m)'
    BY <1>0, <1>1, <1>7, <1>8, <2>1 DEF Tracked
  <2> QED
    BY <1>1, <2>1 DEF Tracked, Here
<1>22. Pursued'
  <2>1. ASSUME NEW q \in Ports, Unwanted(q), NEW m, m = port[q].node, NEW j, j = port[q].key
        PROVE  Pursues(q, m, j)'
    <3>1. PICK i \in Adds : /\ events[i].port = q /\ events[i].node = m
                            /\ events[i].key = j /\ ~Goes(i, m)
      BY <1>0, <1>1, <2>1 DEF Pursued, Pursues
    <3>2. CASE i = 1
      <4>1. q = p /\ m = n /\ j = k /\ ~Goes(0, n)'
        BY <1>4, <1>8, <3>1, <3>2
      <4>2. r = k
        BY <1>0, <1>3, <1>5, <2>1, <4>1, KeyThere
      <4> QED
        BY <1>1, <1>6, <4>1, <4>2 DEF Pursues
    <3>3. CASE i # 1
      <4>1. /\ i - 1 \in Adds' /\ events'[i - 1] = events[i]
            /\ i - 1 \in Nat /\ (i - 1) + 1 = i
        BY <1>2, <3>3, LogFacts
      <4>2. ~Goes(i - 1, m)'
        BY <1>2, <3>1, <4>1
      <4> QED
        BY <3>1, <4>1, <4>2 DEF Pursues
    <3> QED
      BY <3>2, <3>3
  <2> QED
    BY <1>1, <1>9, <2>1 DEF Pursued
<1> QED
  BY <1>9, <1>15, <1>16, <1>19, <1>20, <1>21, <1>22 DEF LogInv, QueueInv, TableInv

------------------------------------------------------------------------------
LEMMA CrashLog ==
  ASSUME LogInv, Crash
  PROVE  LogInv'
<1> USE DEF kernelVars, tableVars, monVars, fanVars, boundVars, historyVars
<1>1. /\ ~listening' /\ events' = << >> /\ monPc' = "idle" /\ watched' = {}
      /\ \A n \in Nodes : unmounted_usb'[n] = NoEntry /\ mounted_usb'[n] = NoEntry
      /\ UNCHANGED <<port, overridden>>
  BY DEF Crash
<1>2. Plugged'
  BY <1>1 DEF LogInv, QueueInv, Plugged
<1>3. Deaf'
  BY <1>1 DEF Deaf
<1> QED
  BY <1>1, <1>2, <1>3, DeafLog

(* A refused key that stays is one whose event is still to be read, or is   *)
(* exempt.                                                                  *)
LEMMA FailsLog ==
  ASSUME UsbShape, LogInv, MonitorDeauthorizeFails
  PROVE  LogInv'
<1> USE DEF kernelVars, tableVars, monVars, fanVars, boundVars, historyVars
<1>1. /\ monPc = "deauthorize" /\ monPc' = "idle"
      /\ watched' = IF Awaited(monDev.port) THEN watched ELSE watched \ {monDev.port}
      /\ UNCHANGED <<port, events, listening, tableVars, overridden>>
  BY DEF MonitorDeauthorizeFails
<1>2. Pursued'
  <2>1. SUFFICES ASSUME NEW p \in Ports, Unwanted(p)'
                 PROVE  Pursues(p, port[p].node, port[p].key)'
    BY <1>1 DEF Pursued
  <2>2. Unwanted(p) /\ (p = monDev.port => Awaited(p))
    BY <1>1, <2>1 DEF Unwanted, Granted
  <2>3. \E i \in Adds : /\ events[i].port = p /\ events[i].node = port[p].node
                       /\ events[i].key = port[p].key /\ ~Goes(i, port[p].node)
    <3>1. CASE p # monDev.port
      BY <1>1, <2>2, <3>1 DEF LogInv, TableInv, Pursued, Pursues
    <3>2. CASE p = monDev.port
      <4>1. PICK i \in Adds :
              /\ events[i].port = p
              /\ \A j \in i + 1 .. Len(events) : events[j].node # events[i].node
        BY <2>2, <3>2 DEF Awaited, Adds
      <4>2. ~Goes(i, events[i].node)
        BY <4>1, LogFacts DEF Goes
      <4>3. Here(p, events[i].node, events[i].key)
        BY <4>1, <4>2 DEF LogInv, QueueInv, Announced
      <4> QED
        BY <4>1, <4>2, <4>3 DEF Here
    <3> QED
      BY <3>1, <3>2
  <2> QED
    BY <1>1, <2>3 DEF Pursues, Adds, Goes
<1> QED
  BY <1>1, <1>2, OrdinaryLog DEF SamePorts

(* The steps that leave the ports, the queue and the tables as they are.    *)
LEMMA QuietStepLog ==
  ASSUME UsbShape, LogInv,
         \/ \E n \in Nodes : \/ Unmount(n) \/ DesktopMount(n)
                             \/ \E auth \in UsbAuthorization : RequestUpdate(n, auth)
         \/ \E n \in Mounts : Open(n)
         \/ Filter \/ FilterStops \/ Start \/ Listen \/ Recover
         \/ MonitorCertify \/ MonitorMount \/ MonitorMountFails
         \/ UNCHANGED vars
  PROVE  LogInv'
<1> USE DEF kernelVars, tableVars, monVars, fanVars, boundVars, historyVars
<1>1. CASE \/ \E n \in Nodes : \/ Unmount(n) \/ DesktopMount(n)
                               \/ \E auth \in UsbAuthorization : RequestUpdate(n, auth)
           \/ \E n \in Mounts : Open(n)
           \/ Filter \/ FilterStops \/ Start \/ Listen \/ UNCHANGED vars
  <2>1. /\ UNCHANGED <<port, events, tableVars, monVars, watched, overridden>>
        /\ listening => listening'
    BY <1>1 DEF Unmount, DesktopMount, Open, RequestUpdate, Filter, FilterAllow,
                FilterAsk, FilterAnswer, FilterStops, Start, Listen, vars
  <2> QED
    BY <2>1, OrdinaryLog DEF SamePorts
<1>2. CASE Recover
  <2>1. /\ UNCHANGED <<port, events, unmounted_usb, monVars, watched, overridden, listening>>
        /\ \A n \in Nodes : mounted_usb'[n] = NoEntry \/ mounted_usb'[n].port = NoPort
    BY <1>2 DEF Recover
  <2> QED
    BY <2>1, OrdinaryLog DEF SamePorts
<1>3. CASE MonitorCertify
  <2>1. /\ UNCHANGED <<events, tableVars, monDev, watched, overridden, listening>>
        /\ monPc = "certify" /\ monPc' = "mount"
    BY <1>3 DEF MonitorCertify
  <2>2. SamePorts
    <3>1. \A p \in Ports : port'[p] = IF port[p].node = monDev.node
                                      THEN [port[p] EXCEPT !.shown = TRUE] ELSE port[p]
      BY <1>3 DEF MonitorCertify
    <3>2. \A p \in Ports : port[p] \in AtPort
      BY LogFacts
    <3> QED
      BY <3>1, <3>2 DEF SamePorts, AtPort
  <2> QED
    BY <2>1, <2>2, OrdinaryLog
<1>4. CASE MonitorMount
  <2>1. /\ UNCHANGED <<port, events, tableVars, monDev, watched, overridden, listening>>
        /\ monPc = "mount" /\ monPc' = "track"
    BY <1>4 DEF MonitorMount
  <2> QED
    BY <2>1, OrdinaryLog DEF SamePorts
<1>5. CASE MonitorMountFails
  <2>1. /\ UNCHANGED <<port, events, tableVars, watched, overridden, listening>>
        /\ monPc = "mount" /\ monPc' = "idle"
    BY <1>5 DEF MonitorMountFails
  <2> QED
    BY <2>1, OrdinaryLog DEF SamePorts
<1> QED
  BY <1>1, <1>2, <1>3, <1>4, <1>5

LEMMA LogStep ==
  ASSUME Strict, UsbShape, LogInv, [Next]_vars
  PROVE  LogInv'
<1>1. \A n \in Nodes : ~Override(n)
  BY DEF Strict, Override
<1>2. CASE \E p \in Ports : Unplug(p) \/ Enumerate(p) \/ \E k \in Keys : Plug(p, k)
  BY <1>2, UnplugLog, EnumerateLog, PlugLog
<1>3. CASE Monitor
  BY <1>3, ReadLog, BlockLog, AuthorizeLog, DeauthorizeLog, FailsLog, ForgetLog,
     TrackLog, QuietStepLog DEF Monitor
<1>4. CASE Crash
  BY <1>4, CrashLog
<1>5. CASE \/ \E n \in Nodes : \/ Unmount(n) \/ DesktopMount(n)
                               \/ \E auth \in UsbAuthorization : RequestUpdate(n, auth)
           \/ \E n \in Mounts : Open(n)
           \/ Filter \/ FilterStops \/ Start \/ Listen \/ Recover \/ UNCHANGED vars
  BY <1>5, QuietStepLog
<1> QED
  BY <1>1, <1>2, <1>3, <1>4, <1>5 DEF Next, Environment, Kernel, User, Daemon

(* When the user cannot allow refused keys, once the monitor has caught up  *)
(* with what was plugged, pulled out and plugged again at the same node     *)
(* while it worked, no refused key is left connected: no authorisation of   *)
(* the tables passes to the next key.  (Under a policy that lets in keys    *)
(* without a signature, the property has every key granted.)                *)
THEOREM NoRefusedKeyStays ==
  ASSUME ~allow_user_usb_authorization PROVE Spec => []QuietIsClean
<1>1. CASE disable_unsigned_usb
  <2>1. QuietIsClean
    BY <1>1 DEF QuietIsClean, Unwanted, Granted
  <2> QED
    BY <2>1, PTL
<1>2. CASE ~disable_unsigned_usb
  <2>1. Strict
    BY <1>2 DEF Strict
  <2>2. UsbShape /\ LogInv => QuietIsClean
    <3>1. SUFFICES ASSUME UsbShape, LogInv, Quiet, NEW p \in Ports, Unwanted(p)
                   PROVE  FALSE
      BY DEF QuietIsClean
    <3>2. Pursues(p, port[p].node, port[p].key)
      BY <3>1 DEF LogInv, TableInv, Pursued
    <3>3. Adds = {}
      BY <3>1 DEF Quiet, Adds
    <3> QED
      BY <3>1, <3>2, <3>3 DEF Pursues, Quiet
  <2>3. UsbShape /\ LogInv /\ [Next]_vars => UsbShape' /\ LogInv'
    BY <2>1, LogStep, UsbShapeStep
  <2>4. Init => UsbShape /\ LogInv
    BY UsbInitShape, LogInit
  <2> QED
    BY <2>2, <2>3, <2>4, PTL DEF Spec
<1> QED
  BY <1>1, <1>2

(* Under the delivered policy, which also refuses the keys without a        *)
(* signature, once the monitor has caught up, what mounted_usb says stands  *)
(* at a node is the key that stands there.                                  *)
THEOREM TablesFollowDevices == ASSUME Strict PROVE Spec => []QuietIsTracked
<1>1. UsbShape /\ LogInv => QuietIsTracked
  <2>1. SUFFICES ASSUME UsbShape, LogInv, Quiet, NEW n \in Nodes,
                        mounted_usb[n] # NoEntry, mounted_usb[n].port # NoPort
                 PROVE  KeyAt(n) = mounted_usb[n].key
    BY DEF QuietIsTracked
  <2>2. PICK p : p = mounted_usb[n].port
    OBVIOUS
  <2>3. Here(p, n, mounted_usb[n].key)
    BY <2>1, <2>2 DEF LogInv, TableInv, Tracked, Quiet, Goes
  <2>4. p \in Ports /\ n # 0
    BY <2>1, <2>2, UsbAssumption DEF UsbShape, UsbTypeOK, EntryOrNone, Entry
  <2> QED
    BY <2>1, <2>3, <2>4, KeyThere DEF Here, LogInv, QueueInv
<1>2. UsbShape /\ LogInv /\ [Next]_vars => UsbShape' /\ LogInv'
  BY LogStep, UsbShapeStep
<1>3. Init => UsbShape /\ LogInv
  BY UsbInitShape, LogInit
<1> QED
  BY <1>1, <1>2, <1>3, PTL DEF Spec

------------------------------------------------------------------------------
(* A single port, where the user overrides what he likes.  Between two      *)
(* pullings out all is of one key: an entry the user allows is of the key   *)
(* of the device that finds it.                                             *)

OnePort == \A p, q \in Ports : p = q

(* The devices announced after event i (0: at all) have the key k, until    *)
(* the next one is pulled out.                                              *)
Era(i, k) ==
  /\ \A p \in Ports : Pulled(i, p) \/ port[p].key = k
  /\ \A j \in Adds : i < j => PulledBefore(i, j, events[j].port) \/ events[j].key = k

(* The device of node n with key k is there, or its going comes after i.    *)
Stands(i, n, k) == Goes(i, n) \/ \E p \in Ports : Here(p, n, k)

Wired ==
  \A p \in Ports : /\ port[p].node # 0 => port[p].authorized
                   /\ port[p].authorized => port[p].key # NoKey

Told ==
  \A i \in Adds : Era(i, events[i].key) /\ Stands(i, events[i].node, events[i].key)

(* An allowance is the key's own, or is forgotten with its device.          *)
Noticed ==
  \A n \in Nodes : unmounted_usb[n] # NoEntry =>
    /\ Era(0, unmounted_usb[n].key)
    /\ Allowed(n) => \A p \in Ports : Granted(unmounted_usb[n].key) \/ Pulled(0, p)

Weighed ==
  monPc = "authorize" =>
    /\ Era(0, monDev.key) /\ Stands(0, monDev.node, monDev.key)
    /\ \A n \in Nodes : unmounted_usb[n] # NoEntry => unmounted_usb[n].key = monDev.key

Taken ==
  monPc \in {"certify", "mount", "track"} =>
    Stands(0, monDev.node, unmounted_usb[monDev.node].key)

Kept ==
  \A n \in Nodes :
    mounted_usb[n] # NoEntry /\ mounted_usb[n].port # NoPort =>
      Stands(0, n, mounted_usb[n].key) \/ (monPc = "remove" /\ monDev.node = n)

(* A refused key is known to the monitor, or about to be.                   *)
Seeks(p, n, k) ==
  \/ \E i \in Adds : /\ events[i].port = p /\ events[i].node = n
                     /\ events[i].key = k /\ ~Pulled(i, p)
  \/ /\ monPc = "authorize" /\ ~Pulled(0, p)
     /\ monDev = [port |-> p, node |-> n, key |-> k, read |-> k]
  \/ monPc = "deauthorize"
Sought ==
  \A p \in Ports : Unwanted(p) => Seeks(p, port[p].node, port[p].key)

EraInv ==
  Wired /\ Deaf /\ Told /\ Noticed /\ Weighed /\ Taken /\ Kept /\ Sought

LEMMA DeafEra ==
  ASSUME ~listening', Deaf', Wired'
  PROVE  EraInv'
<1>1. events' = << >> /\ Adds' = {} /\ monPc' = "idle" /\ watched' = {}
      /\ \A n \in Nodes : /\ unmounted_usb'[n] = NoEntry
                          /\ mounted_usb'[n] = NoEntry \/ mounted_usb'[n].port = NoPort
  BY DEF Deaf, Adds
<1>2. Told' /\ Noticed' /\ Weighed' /\ Taken' /\ Kept' /\ Sought'
  BY <1>1 DEF Told, Noticed, Weighed, Taken, Kept, Sought, Unwanted
<1> QED
  BY <1>2 DEF EraInv

LEMMA EraInit == Init => EraInv
<1> SUFFICES ASSUME Init PROVE EraInv
  OBVIOUS
<1>1. /\ Adds = {} /\ monPc = "idle" /\ watched = {}
      /\ \A n \in Nodes : unmounted_usb[n] = NoEntry /\ mounted_usb[n] = NoEntry
  BY DEF Init, Adds
<1>2. Wired /\ Deaf
  BY <1>1 DEF Wired, Deaf, Init, EmptyPort
<1>3. Told /\ Noticed /\ Weighed /\ Taken /\ Kept /\ Sought
  BY <1>1 DEF Told, Noticed, Weighed, Taken, Kept, Sought, Unwanted
<1> QED
  BY <1>2, <1>3 DEF EraInv

(* Steps that announce nothing and leave the devices where they are: what a *)
(* user allows is granted.                                                  *)
LEMMA OrdinaryEra ==
  ASSUME UsbShape, EraInv, Wired',
         \A p \in Ports : port'[p].key = port[p].key /\ port'[p].node = port[p].node,
         UNCHANGED events, watched' \subseteq watched, overridden \subseteq overridden',
         listening => listening', ~listening' => UNCHANGED unmounted_usb,
         \A n \in Nodes :
           unmounted_usb'[n] # NoEntry =>
             /\ unmounted_usb[n] # NoEntry /\ unmounted_usb'[n].key = unmounted_usb[n].key
             /\ Allowed(n)' => Allowed(n) \/ unmounted_usb[n].key \in overridden',
         monPc \in {"certify", "mount", "track"} =>
           unmounted_usb'[monDev.node] = unmounted_usb[monDev.node],
         \A n \in Nodes : \/ mounted_usb'[n] = mounted_usb[n]
                          \/ mounted_usb'[n] = NoEntry
                          \/ mounted_usb'[n].port = NoPort,
         \/ UNCHANGED <<monPc, monDev>>
         \/ /\ monPc \in {"certify", "mount"} /\ monPc' \in {"mount", "track"}
            /\ UNCHANGED monDev
         \/ monPc = "mount" /\ monPc' = "idle"
         \/ monPc = "deauthorize" /\ monPc' = "idle" /\ Sought'
  PROVE  EraInv'
<1>0. Wired /\ Deaf /\ Told /\ Noticed /\ Weighed /\ Taken /\ Kept /\ Sought
  BY DEF EraInv
<1>1. /\ Adds' = Adds /\ \A i, p : Pulled(i, p)' <=> Pulled(i, p)
      /\ \A i, j, p : PulledBefore(i, j, p)' <=> PulledBefore(i, j, p)
      /\ \A i, n : Goes(i, n)' <=> Goes(i, n)
      /\ \A p \in Ports : \A n, k : Here(p, n, k)' <=> Here(p, n, k)
      /\ \A k : Granted(k) => Granted(k)'
      /\ \A k : k \in overridden' => Granted(k)'
  BY DEF Adds, Pulled, PulledBefore, Goes, Here, Granted
<1>2. /\ \A i, k : Era(i, k)' <=> Era(i, k)
      /\ \A i, n, k : Stands(i, n, k)' <=> Stands(i, n, k)
      /\ \A p \in Ports : Unwanted(p)' => Unwanted(p)
  BY <1>1 DEF Era, Stands, Unwanted
<1>3. Deaf'
  BY <1>0 DEF Deaf
<1>4. Told'
  BY <1>0, <1>1, <1>2 DEF Told
<1>5. Noticed'
  BY <1>0, <1>1, <1>2 DEF Noticed
<1>6. Weighed'
  BY <1>0, <1>2 DEF Weighed
<1>7. Taken'
  BY <1>0, <1>2 DEF Taken
<1>8. Kept'
  BY <1>0, <1>2 DEF Kept
<1>9. Sought'
  <2>1. ASSUME ~Sought', NEW p, NEW n, NEW k, Seeks(p, n, k) PROVE Seeks(p, n, k)'
    BY <1>1, <2>1 DEF Seeks
  <2> QED
    BY <1>0, <1>2, <2>1 DEF Sought
<1> QED
  BY <1>3, <1>4, <1>5, <1>6, <1>7, <1>8, <1>9 DEF EraInv

(* Steps of the ports that announce nothing: what is pulled out or           *)
(* disconnected is told after all that was announced.                       *)
LEMMA PortsEra ==
  ASSUME UsbShape, EraInv, Wired', Deaf', UNCHANGED <<tableVars, listening>>,
         Adds' = Adds, \A i \in Adds : events'[i] = events[i],
         \A i, p : Pulled(i, p) => Pulled(i, p)',
         \A i, j, p : PulledBefore(i, j, p) => PulledBefore(i, j, p)',
         \A i \in Adds \cup {0} : \A n \in Nodes : \A k : Stands(i, n, k) => Stands(i, n, k)',
         \A i \in Adds \cup {0} : \A k \in Keys : \A p \in Ports :
           port[p].key = k => port'[p].key = k \/ Pulled(i, p)',
         \A k \in Keys, p \in Ports :
           Granted(k) => Granted(k)' \/ port[p].key = NoKey,
         \A p \in Ports : Unwanted(p)' =>
           /\ Unwanted(p) /\ port'[p].node = port[p].node /\ port'[p].key = port[p].key
           /\ \A i : Pulled(i, p)' => Pulled(i, p),
         \/ UNCHANGED monVars
         \/ monPc = "deauthorize" /\ monPc' = "idle" /\ \A p \in Ports : ~Unwanted(p)'
  PROVE  EraInv'
<1> USE DEF tableVars, monVars
<1>0. Wired /\ Deaf /\ Told /\ Noticed /\ Weighed /\ Taken /\ Kept /\ Sought
  BY DEF EraInv
<1>1. /\ \A i \in Adds : /\ events[i].node \in Nodes /\ events[i].key \in Keys
      /\ NoKey \notin Keys
      /\ monPc # "idle" => monDev.node \in Nodes
      /\ \A n \in Nodes : unmounted_usb[n] # NoEntry => unmounted_usb[n].key \in Keys
      /\ monPc = "authorize" => monDev.key \in Keys
  BY LogFacts DEF UsbShape, Working
<1>2. \A i \in Adds \cup {0} : \A k \in Keys : Era(i, k) => Era(i, k)'
  BY DEF Era
<1>3. Told'
  BY <1>0, <1>1, <1>2 DEF Told
<1>4. Noticed'
  <2>1. ASSUME NEW n \in Nodes, unmounted_usb[n] # NoEntry, NEW k, k = unmounted_usb[n].key
        PROVE  /\ Era(0, k)'
               /\ Allowed(n) => \A p \in Ports : Granted(k)' \/ Pulled(0, p)'
    <3>1. k \in Keys /\ Era(0, k)
      BY <1>0, <1>1, <2>1 DEF Noticed
    <3>2. ASSUME NEW p \in Ports, Allowed(n) PROVE Granted(k)' \/ Pulled(0, p)'
      <4>1. Granted(k) \/ Pulled(0, p)
        BY <1>0, <2>1, <3>2 DEF Noticed
      <4>2. Pulled(0, p) \/ port[p].key # NoKey
        BY <1>1, <3>1 DEF Era
      <4> QED
        BY <3>1, <4>1, <4>2
    <3> QED
      BY <1>2, <3>1, <3>2
  <2> QED
    BY <2>1 DEF Noticed, Allowed
<1>5. Weighed'
  <2>1. ASSUME monPc = "authorize", NEW k, k = monDev.key, NEW n, n = monDev.node
        PROVE  Era(0, k)' /\ Stands(0, n, k)'
    BY <1>0, <1>1, <1>2, <2>1 DEF Weighed
  <2> QED
    BY <1>0, <2>1 DEF Weighed
<1>6. Taken'
  <2>1. ASSUME monPc \in {"certify", "mount", "track"}, NEW n, n = monDev.node,
               NEW k, k = unmounted_usb[n].key
        PROVE  Stands(0, n, k)'
    BY <1>0, <1>1, <2>1 DEF Taken
  <2> QED
    BY <2>1 DEF Taken
<1>7. Kept'
  <2>1. ASSUME NEW n \in Nodes, mounted_usb[n] # NoEntry, mounted_usb[n].port # NoPort,
               NEW k, k = mounted_usb[n].key
        PROVE  Stands(0, n, k)' \/ (monPc' = "remove" /\ monDev'.node = n)
    BY <1>0, <2>1 DEF Kept
  <2> QED
    BY <2>1 DEF Kept
<1>8. Sought'
  <2>1. ASSUME NEW p \in Ports, Unwanted(p)', NEW n, n = port[p].node, NEW k, k = port[p].key
        PROVE  Seeks(p, n, k)' /\ port'[p].node = n /\ port'[p].key = k
    <3>1. Seeks(p, n, k) /\ UNCHANGED monVars
      BY <1>0, <2>1 DEF Sought
    <3>2. \A i : ~Pulled(i, p) => ~Pulled(i, p)'
      BY <2>1
    <3> QED
      BY <2>1, <3>1, <3>2 DEF Seeks
  <2> QED
    BY <2>1 DEF Sought
<1> QED
  BY <1>3, <1>4, <1>5, <1>6, <1>7, <1>8 DEF EraInv

LEMMA PlugEra ==
  ASSUME OnePort, UsbShape, EraInv, NEW p \in Ports, NEW k \in Keys, Plug(p, k)
  PROVE  EraInv'
<1> USE DEF kernelVars, tableVars, monVars, fanVars, boundVars, historyVars
<1>0. Wired /\ Deaf
  BY DEF EraInv
<1>1. /\ port[p].key = NoKey /\ port[p].node = 0 /\ NoKey \notin Keys /\ 0 \notin Nodes
      /\ \A q \in Ports : q = p
  BY <1>0, LogFacts, UsbAssumption DEF Plug, Wired, OnePort
<1>2. /\ port'[p].key = k /\ port'[p].authorized /\ port'[p].node = 0
      /\ overridden' = overridden \ {k}
      /\ UNCHANGED <<events, tableVars, monVars, listening, watched>>
  BY LogFacts DEF Plug, EmptyPort
<1>3. Wired' /\ Deaf'
  BY <1>0, <1>1, <1>2 DEF Wired, Deaf
<1>4. /\ Adds' = Adds /\ \A i, q : Pulled(i, q)' <=> Pulled(i, q)
      /\ \A i, j, q : PulledBefore(i, j, q)' <=> PulledBefore(i, j, q)
      /\ \A i, n : Goes(i, n)' <=> Goes(i, n)
  BY <1>2 DEF Adds, Pulled, PulledBefore, Goes
<1>5. /\ \A i : \A n \in Nodes : \A j : Stands(i, n, j) => Stands(i, n, j)'
      /\ \A q \in Ports : ~Unwanted(q)'
  BY <1>1, <1>2, <1>4 DEF Stands, Here, Unwanted
<1> QED
  BY <1>1, <1>2, <1>3, <1>4, <1>5, PortsEra

LEMMA UnplugEra ==
  ASSUME OnePort, UsbShape, EraInv, NEW p \in Ports, Unplug(p)
  PROVE  EraInv'
<1> USE DEF kernelVars, tableVars, monVars, fanVars, boundVars, historyVars
<1>0. Wired /\ Deaf
  BY DEF EraInv
<1>1. PICK u \in Event : u = [action |-> "unplug", port |-> p, node |-> 0, key |-> NoKey]
  BY DEF Event
<1>2. PICK n \in Nodes \cup {0} : n = port[p].node
  BY RemovedIs
<1>3. /\ port'[p].key = NoKey /\ port'[p].node = 0 /\ ~port'[p].authorized
      /\ Notify(Append(RemoveEvents(p), u)) /\ watched' = watched \ {p}
      /\ UNCHANGED <<listening, tableVars, monVars, overridden>>
      /\ \A q \in Ports : q = p
  BY <1>1, LogFacts DEF Unplug, EmptyPort, OnePort
<1>4. Wired' /\ Deaf'
  BY <1>0, <1>3 DEF Wired, Deaf, Notify
<1>5. CASE ~listening
  BY <1>3, <1>4, <1>5, DeafEra
<1>6. CASE listening
  <2>1. PICK evts \in Seq(Event) :
          /\ Notify(evts)
          /\ \A k \in 1 .. Len(evts) : evts[k] = u \/ (/\ evts[k].action = "remove"
                                                       /\ evts[k].node = n)
          /\ \E k \in 1 .. Len(evts) : evts[k] = u
          /\ n # 0 => \E k \in 1 .. Len(evts) : evts[k].action = "remove"
    BY <1>1, <1>2, <1>3, UnplugEvents
  <2>2. /\ Adds' = Adds /\ \A i \in Adds : events'[i] = events[i]
        /\ \A i, q : Pulled(i, q) => Pulled(i, q)'
        /\ \A i, m : Goes(i, m) => Goes(i, m)'
        /\ \A i, j, q : PulledBefore(i, j, q) => PulledBefore(i, j, q)'
        /\ n # 0 => \A i \in Adds \cup {0} : Goes(i, n)'
        /\ \A i \in Adds \cup {0} : Pulled(i, p)'
    <3>1. u.action = "unplug" /\ u.port = p
      BY <1>1
    <3>2. /\ \A k \in 1 .. Len(evts) : /\ evts[k].action # "add"
                                       /\ evts[k].action = "remove" => evts[k].node = n
          /\ \E k \in 1 .. Len(evts) : evts[k].action = "unplug" /\ evts[k].port = p
      BY <2>1, <3>1
    <3> QED
      BY <1>6, <2>1, <3>2, GoneEvents
  <2>3. \A i \in Adds \cup {0} : \A m \in Nodes : \A k : Stands(i, m, k) => Stands(i, m, k)'
    BY <1>2, <1>3, <2>2, UsbAssumption DEF Stands, Here
  <2>4. /\ \A q \in Ports : ~Unwanted(q)'
        /\ \A k : Granted(k)' <=> Granted(k)
    BY <1>3 DEF Unwanted, Granted
  <2> QED
    BY <1>3, <1>4, <2>2, <2>3, <2>4, PortsEra
<1> QED
  BY <1>5, <1>6

LEMMA DeauthorizeEra ==
  ASSUME OnePort, UsbShape, EraInv, MonitorDeauthorize
  PROVE  EraInv'
<1> USE DEF kernelVars, tableVars, monVars, fanVars, boundVars, historyVars
<1>0. Wired /\ Deaf
  BY DEF EraInv
<1>1. /\ monPc = "deauthorize" /\ monPc' = "idle" /\ listening /\ listening'
      /\ UNCHANGED <<tableVars, watched, overridden>>
  BY <1>0 DEF MonitorDeauthorize, Deaf
<1>2. PICK p \in Ports : p = monDev.port
  BY <1>1, LogFacts
<1>3. PICK n \in Nodes \cup {0} : n = port[p].node
  BY RemovedIs
<1>4. \A q \in Ports : q = p
  BY DEF OnePort
<1>5. /\ Adds' = Adds /\ \A i \in Adds : events'[i] = events[i]
      /\ \A i, q : Pulled(i, q) => Pulled(i, q)'
      /\ \A i, m : Goes(i, m) => Goes(i, m)'
      /\ \A i, j, q : PulledBefore(i, j, q) => PulledBefore(i, j, q)'
      /\ n # 0 => \A i \in Adds \cup {0} : Goes(i, n)'
      /\ port'[p].key = port[p].key /\ port'[p].node = 0
      /\ port'[p].authorized => port'[p].key # NoKey
  <2>1. CASE port[p].key = NoKey
    <3>1. port' = port /\ events' = events
      BY <1>2, <2>1 DEF MonitorDeauthorize
    <3>2. n = 0 /\ ~port[p].authorized
      BY <1>0, <1>3, <2>1 DEF Wired
    <3> QED
      BY <1>3, <3>1, <3>2 DEF Adds, Pulled, Goes, PulledBefore
  <2>2. CASE port[p].key # NoKey
    <3>1. /\ port' = [port EXCEPT ![p] = [EmptyPort EXCEPT !.key = port[p].key]]
          /\ Notify(RemoveEvents(p))
      BY <1>2, <2>2 DEF MonitorDeauthorize
    <3>2. /\ port'[p].key = port[p].key /\ port'[p].node = 0 /\ ~port'[p].authorized
      BY <3>1, LogFacts DEF EmptyPort
    <3>3. PICK evts \in Seq(Event) : evts = RemoveEvents(p)
      BY RemovedIs
    <3>4. /\ Notify(evts)
          /\ n # 0 => 1 \in 1 .. Len(evts)
          /\ \A k \in 1 .. Len(evts) : evts[k].action = "remove" /\ evts[k].node = n
      BY <1>3, <3>1, <3>3, RemovedIs
    <3>5. /\ \A k \in 1 .. Len(evts) : /\ evts[k].action # "add"
                                       /\ evts[k].action = "remove" => evts[k].node = n
          /\ n # 0 => \E k \in 1 .. Len(evts) : evts[k].action = "remove"
      BY <3>4
    <3>6. /\ Adds' = Adds /\ \A i \in Adds : events'[i] = events[i]
          /\ \A i, q : Pulled(i, q) => Pulled(i, q)'
          /\ \A i, m : Goes(i, m) => Goes(i, m)'
          /\ \A i, j, q : PulledBefore(i, j, q) => PulledBefore(i, j, q)'
          /\ n # 0 => \A i \in Adds \cup {0} : Goes(i, n)'
      BY <1>1, <3>4, <3>5, GoneEvents
    <3> QED
      BY <2>2, <3>2, <3>6
  <2> QED
    BY <2>1, <2>2
<1>6. Wired' /\ Deaf'
  BY <1>1, <1>4, <1>5 DEF Wired, Deaf
<1>7. \A i \in Adds \cup {0} : \A m \in Nodes : \A k : Stands(i, m, k) => Stands(i, m, k)'
  BY <1>3, <1>4, <1>5, UsbAssumption DEF Stands, Here
<1>8. (\A q \in Ports : ~Unwanted(q)') /\ (\A k : Granted(k)' <=> Granted(k))
  BY <1>1, <1>4, <1>5 DEF Unwanted, Granted
<1> QED
  BY <1>1, <1>4, <1>5, <1>6, <1>7, <1>8, PortsEra

LEMMA EnumerateEra ==
  ASSUME OnePort, UsbShape, EraInv, NEW p \in Ports, Enumerate(p)
  PROVE  EraInv'
<1> USE DEF kernelVars, tableVars, monVars, fanVars, boundVars, historyVars
<1>0. Wired /\ Deaf /\ Told /\ Noticed /\ Weighed /\ Taken /\ Kept /\ Sought
  BY DEF EraInv
<1>a. /\ Min(FreeNodes) \in Nodes /\ port[p].authorized /\ port[p].node = 0
      /\ port[p].key \in Keys /\ Len(events) + 1 \in Nat
  BY MinNode, LogFacts DEF Enumerate, FreeNodes, UsbShape, Entries
<1>b. PICK n \in Nodes, k \in Keys, L \in Nat :
        n = Min(FreeNodes) /\ k = port[p].key /\ L = Len(events) + 1
  BY <1>a
<1>c. PICK a \in Event : a = [action |-> "add", port |-> p, node |-> n, key |-> k]
  BY DEF Event
<1>1. /\ port' = [port EXCEPT ![p].node = n]
      /\ Notify(<<a>>) /\ watched' = IF listening THEN watched \cup {p} ELSE watched
      /\ UNCHANGED <<listening, tableVars, monVars, overridden>>
  BY <1>b, <1>c DEF Enumerate
<1>2. /\ port'[p].node = n /\ port'[p].key = k /\ port'[p].authorized
      /\ port[p].key = k /\ port[p].node = 0
      /\ \A q \in Ports : q = p
      /\ 0 \notin Nodes /\ NoKey \notin Keys
  BY <1>a, <1>b, <1>1, LogFacts DEF AtPort, OnePort
<1>3. Wired' /\ Deaf'
  BY <1>0, <1>1, <1>2 DEF Wired, Deaf, Notify
<1>4. CASE ~listening
  BY <1>1, <1>3, <1>4, DeafEra
<1>5. CASE listening
  <2>1. /\ Len(events') = L /\ Len(events) \in Nat /\ events'[L] = a
        /\ \A i \in 1 .. Len(events) : events'[i] = events[i]
    <3>1. <<a>> \in Seq(Event) /\ Len(<<a>>) = 1 /\ <<a>>[1] = a
      OBVIOUS
    <3>2. events \in Seq(Event)
      BY LogFacts
    <3>3. /\ Len(events') = Len(events) + 1 /\ Len(events) \in Nat
          /\ \A i \in 1 .. Len(events) : events'[i] = events[i]
          /\ \A i \in 1 .. Len(events') : i \notin 1 .. Len(events) =>
               events'[i] = <<a>>[i - Len(events)]
      BY <1>1, <1>5, <3>1, <3>2, Heard
    <3>4. L \in 1 .. Len(events') /\ L \notin 1 .. Len(events) /\ L - Len(events) = 1
      BY <1>b, <3>3
    <3> QED
      BY <1>b, <3>1, <3>3, <3>4
  <2>2. /\ \A i, q : Pulled(i, q) => Pulled(i, q)' /\ PulledBefore(i, L, q)'
        /\ \A i, m : Goes(i, m) => Goes(i, m)'
        /\ \A i, j, q : PulledBefore(i, j, q) => PulledBefore(i, j, q)'
        /\ \A q : ~Pulled(L, q)'
    <3>1. Len(events') \in Nat /\ Len(events) <= Len(events')
      BY <1>b, <2>1
    <3>2. /\ \A i, q : Pulled(i, q) => Pulled(i, q)'
          /\ \A i, m : Goes(i, m) => Goes(i, m)'
          /\ \A i, j, q : PulledBefore(i, j, q) => PulledBefore(i, j, q)'
      BY <2>1, <3>1, Grown
    <3>3. \A i, q : Pulled(i, q) => PulledBefore(i, L, q)
      BY <1>b, <2>1, Ended
    <3>4. \A q : ~Pulled(L, q)'
      BY <1>b, <2>1 DEF Pulled
    <3> QED
      BY <3>2, <3>3, <3>4
  <2>3. /\ Adds' = Adds \cup {L} /\ \A i \in Adds : events'[i] = events[i] /\ i < L
        /\ \A j \in Adds' : ~(L < j)
    BY <1>b, <1>c, <2>1 DEF Adds
  <2>4. /\ \A i \in Adds : /\ events[i].port \in Ports /\ events[i].node \in Nodes
                           /\ events[i].key \in Keys
        /\ monPc # "idle" => monDev.node \in Nodes
    BY LogFacts
  <2>5. \A i \in Adds \cup {0} : \A j : Era(i, j) => Era(i, j)'
    <3> SUFFICES ASSUME NEW i \in Adds \cup {0}, NEW j, Era(i, j)
                 PROVE  Era(i, j)'
      OBVIOUS
    <3>1. Pulled(i, p) \/ k = j
      BY <1>2 DEF Era
    <3>2. PulledBefore(i, L, p)' \/ k = j
      BY <2>2, <3>1
    <3>3. ASSUME NEW l \in Adds', i < l, NEW q, q = events'[l].port
          PROVE  PulledBefore(i, l, q)' \/ events'[l].key = j
      <4>1. CASE l = L
        BY <1>c, <2>1, <3>2, <3>3, <4>1
      <4>2. CASE l \in Adds
        BY <2>2, <2>3, <3>3, <4>2 DEF Era
      <4> QED
        BY <2>3, <3>3, <4>1, <4>2
    <3>4. \A l \in Adds' : i < l =>
            (PulledBefore(i, l, events[l].port) \/ events[l].key = j)'
      BY <3>3
    <3>5. \A q \in Ports : Pulled(i, q)' \/ port'[q].key = j
      BY <1>2, <2>2, <3>1
    <3> QED
      BY <3>4, <3>5 DEF Era
  <2>6. \A i : \A m \in Nodes : \A j : Stands(i, m, j) => Stands(i, m, j)'
    BY <1>2, <2>2 DEF Stands, Here
  <2>7. Told'
    <3>1. Era(L, k)' /\ Stands(L, n, k)'
      BY <1>2, <2>3 DEF Era, Stands, Here
    <3>2. ASSUME NEW i \in Adds, NEW m, m = events[i].node, NEW j, j = events[i].key
          PROVE  Era(i, j)' /\ Stands(i, m, j)' /\ events'[i].node = m /\ events'[i].key = j
      BY <1>0, <2>3, <2>4, <2>5, <2>6, <3>2 DEF Told
    <3> QED
      BY <1>c, <2>1, <2>3, <3>1, <3>2 DEF Told
  <2>8. Noticed'
    <3>1. ASSUME NEW m \in Nodes, unmounted_usb[m] # NoEntry,
                 NEW j, j = unmounted_usb[m].key
          PROVE  /\ Era(0, j)'
                 /\ Allowed(m) => \A q \in Ports : Granted(j)' \/ Pulled(0, q)'
      BY <1>0, <1>1, <2>2, <2>5, <3>1 DEF Noticed, Granted
    <3> QED
      BY <1>1, <3>1 DEF Noticed, Allowed
  <2>9. Weighed'
    <3>1. ASSUME monPc = "authorize", NEW m, m = monDev.node, NEW j, j = monDev.key
          PROVE  Era(0, j)' /\ Stands(0, m, j)'
      BY <1>0, <2>4, <2>5, <2>6, <3>1 DEF Weighed
    <3> QED
      BY <1>0, <1>1, <3>1 DEF Weighed
  <2>10. Taken'
    <3>1. ASSUME monPc \in {"certify", "mount", "track"}, NEW m, m = monDev.node,
                 NEW j, j = unmounted_usb[m].key
          PROVE  Stands(0, m, j)'
      BY <1>0, <2>4, <2>6, <3>1 DEF Taken
    <3> QED
      BY <1>1, <3>1 DEF Taken
  <2>11. Kept'
    <3>1. ASSUME NEW m \in Nodes, mounted_usb[m] # NoEntry, mounted_usb[m].port # NoPort,
                 NEW j, j = mounted_usb[m].key
          PROVE  Stands(0, m, j)' \/ (monPc' = "remove" /\ monDev'.node = m)
      BY <1>0, <1>1, <2>6, <3>1 DEF Kept
    <3> QED
      BY <1>1, <3>1 DEF Kept
  <2>12. Sought'
    <3>1. Seeks(p, n, k)'
      BY <1>c, <2>1, <2>2, <2>3 DEF Seeks
    <3> QED
      BY <1>2, <3>1 DEF Sought
  <2> QED
    BY <1>3, <2>7, <2>8, <2>9, <2>10, <2>11, <2>12 DEF EraInv
<1> QED
  BY <1>4, <1>5

(* The event that is read is behind what is known of the others. *)
LEMMA PoppedEra ==
  ASSUME UsbShape, events # << >>, events' = Tail(events), UNCHANGED port
  PROVE  /\ \A i \in Nat : \A k : Era(i + 1, k) => Era(i, k)'
         /\ events[1].action # "unplug" => \A k : Era(0, k) => Era(0, k)'
         /\ \A i \in Nat : \A n, k : Stands(i + 1, n, k) => Stands(i, n, k)'
         /\ \A n, k : Stands(0, n, k) =>
              Stands(0, n, k)' \/ (events[1].action = "remove" /\ events[1].node = n)
         /\ \A p : Pulled(0, p) =>
              Pulled(0, p)' \/ (events[1].action = "unplug" /\ events[1].port = p)
<1>1. /\ 1 \in 1 .. Len(events)
      /\ \A i \in Adds' : i \in Nat /\ i + 1 \in Adds /\ events'[i] = events[i + 1]
      /\ \A i \in Nat : \A p : Pulled(i, p)' <=> Pulled(i + 1, p)
      /\ \A i \in Nat : \A n : Goes(i, n)' <=> Goes(i + 1, n)
      /\ \A i, j \in Nat : \A p : PulledBefore(i, j, p)' <=> PulledBefore(i + 1, j + 1, p)
  BY Popped
<1>2. /\ \A p : Pulled(0, p) =>
           Pulled(1, p) \/ (events[1].action = "unplug" /\ events[1].port = p)
      /\ \A n : Goes(0, n) =>
           Goes(1, n) \/ (events[1].action = "remove" /\ events[1].node = n)
      /\ \A j, p : PulledBefore(0, j, p) =>
           PulledBefore(1, j, p) \/ (events[1].action = "unplug" /\ events[1].port = p)
  BY <1>1, First
<1>3. \A p \in Ports : \A n, k : Here(p, n, k)' <=> Here(p, n, k)
  BY DEF Here
<1>4. ASSUME NEW i \in Nat, NEW k, Era(i + 1, k) PROVE Era(i, k)'
  <2>1. \A p \in Ports : Pulled(i, p)' \/ port'[p].key = k
    BY <1>1, <1>4 DEF Era
  <2>2. ASSUME NEW j \in Adds', i < j
        PROVE  (PulledBefore(i, j, events[j].port) \/ events[j].key = k)'
    <3>1. j \in Nat /\ j + 1 \in Adds /\ events'[j] = events[j + 1]
      BY <1>1, <2>2
    <3>2. i + 1 < j + 1
      BY <2>2, <3>1
    <3>3. PICK f : f = events[j + 1] /\ f = events'[j]
      BY <3>1
    <3>4. PulledBefore(i + 1, j + 1, f.port) \/ f.key = k
      BY <1>4, <3>1, <3>2, <3>3 DEF Era
    <3> QED
      BY <1>1, <3>1, <3>3, <3>4
  <2> QED
    BY <2>1, <2>2 DEF Era
<1>5. 0 \in Nat /\ 0 + 1 = 1
  OBVIOUS
<1>6. ASSUME events[1].action # "unplug", NEW k, Era(0, k) PROVE Era(1, k)
  <2>1. \A j \in Adds : 1 < j => j \in Nat /\ 0 < j
    BY DEF Adds
  <2> QED
    BY <1>2, <1>6, <2>1 DEF Era
<1>7. \A i \in Nat : \A n, k : Stands(i + 1, n, k) => Stands(i, n, k)'
  BY <1>1, <1>3 DEF Stands
<1>8. \A n, k : Stands(0, n, k) =>
        Stands(1, n, k) \/ (events[1].action = "remove" /\ events[1].node = n)
  BY <1>2 DEF Stands
<1> QED
  BY <1>1, <1>2, <1>4, <1>5, <1>6, <1>7, <1>8

(* Under one port, the key at the port's node is the port's. *)
LEMMA OnlyKey ==
  ASSUME OnePort, NEW p \in Ports
  PROVE  KeyAt(port[p].node) = port[p].key
<1> DEFINE q == CHOOSE q \in Ports : port[q].node = port[p].node
<1>1. q \in Ports /\ KeyAt(port[p].node) = port[q].key
  BY DEF KeyAt
<1>2. q = p
  BY <1>1 DEF OnePort
<1> QED
  BY <1>1, <1>2

(* What was told of a refused key stays to be read, unless it is read now. *)
LEMMA SoughtLater ==
  ASSUME UsbShape, EraInv, events # << >>, events' = Tail(events), monPc = "idle",
         UNCHANGED <<port, watched, overridden>>,
         \A p \in Ports :
           Unwanted(p) /\ 1 \in Adds /\ events[1].port = p /\ events[1].node = port[p].node
             /\ events[1].key = port[p].key /\ ~Pulled(1, p)
           => /\ monPc' = "authorize"
              /\ monDev' = [port |-> p, node |-> port[p].node, key |-> port[p].key,
                            read |-> port[p].key]
  PROVE  Sought'
<1>1. /\ \A i \in Adds : i # 1 => i - 1 \in Adds' /\ events'[i - 1] = events[i]
      /\ \A i \in Nat : \A p : Pulled(i, p)' <=> Pulled(i + 1, p)
  BY Popped
<1>2. \A p \in Ports : Unwanted(p)' <=> Unwanted(p)
  BY DEF Unwanted, Granted
<1>3. 0 \in Nat /\ 0 + 1 = 1
  OBVIOUS
<1>4. ASSUME NEW p \in Ports, Unwanted(p), NEW n, n = port[p].node, NEW k, k = port[p].key
      PROVE  Seeks(p, n, k)'
  <2>1. PICK i \in Adds : /\ events[i].port = p /\ events[i].node = n
                          /\ events[i].key = k /\ ~Pulled(i, p)
    BY <1>4 DEF EraInv, Sought, Seeks
  <2>2. CASE i = 1
    <3>1. monPc' = "authorize" /\ monDev' = [port |-> p, node |-> n, key |-> k, read |-> k]
      BY <1>4, <2>1, <2>2
    <3>2. ~Pulled(0, p)'
      BY <1>1, <1>3, <2>1, <2>2
    <3> QED
      BY <3>1, <3>2 DEF Seeks
  <2>3. CASE i # 1
    <3>1. /\ i - 1 \in Adds' /\ events'[i - 1] = events[i]
          /\ i - 1 \in Nat /\ (i - 1) + 1 = i
      BY <1>1, <2>3, LogFacts
    <3>2. ~Pulled(i - 1, p)'
      BY <1>1, <2>1, <3>1
    <3> QED
      BY <2>1, <3>1, <3>2 DEF Seeks
  <2> QED
    BY <2>2, <2>3
<1> QED
  BY <1>2, <1>4 DEF Sought

(* What stays true of the devices as the queue is read. *)
LEMMA ReadEra ==
  ASSUME UsbShape, EraInv, listening, events # << >>, events' = Tail(events),
         UNCHANGED <<port, listening, watched, overridden, mounted_usb>>,
         monPc = "idle", monPc' \in {"idle", "remove", "authorize"},
         IF events[1].action = "unplug"
         THEN \A n \in Nodes : unmounted_usb'[n] = NoEntry
         ELSE UNCHANGED unmounted_usb,
         events[1].action = "remove" => monPc' = "remove" /\ monDev'.node = events[1].node
  PROVE  Wired' /\ Deaf' /\ Told' /\ Noticed' /\ Taken' /\ Kept'
<1>0. Wired /\ Told /\ Noticed /\ Kept
  BY DEF EraInv
<1>1. /\ \A i \in Nat : \A k : Era(i + 1, k) => Era(i, k)'
      /\ events[1].action # "unplug" => \A k : Era(0, k) => Era(0, k)'
      /\ \A i \in Nat : \A n, k : Stands(i + 1, n, k) => Stands(i, n, k)'
      /\ \A n, k : Stands(0, n, k) =>
           Stands(0, n, k)' \/ (events[1].action = "remove" /\ events[1].node = n)
      /\ \A p : Pulled(0, p) =>
           Pulled(0, p)' \/ (events[1].action = "unplug" /\ events[1].port = p)
  BY PoppedEra
<1>2. Wired' /\ Deaf' /\ Taken'
  BY <1>0 DEF Wired, Deaf, Taken
<1>3. Told'
  <2>1. ASSUME NEW i \in Adds', NEW n, n = events'[i].node, NEW k, k = events'[i].key
        PROVE  Era(i, k)' /\ Stands(i, n, k)'
    <3>1. i \in Nat /\ i + 1 \in Adds /\ events'[i] = events[i + 1]
      BY <2>1, Popped
    <3>2. Era(i + 1, k) /\ Stands(i + 1, n, k)
      BY <1>0, <2>1, <3>1 DEF Told
    <3> QED
      BY <1>1, <3>1, <3>2
  <2>2. \A i \in Adds' :
          (Era(i, events[i].key) /\ Stands(i, events[i].node, events[i].key))'
    BY <2>1
  <2> QED
    BY <2>2 DEF Told
<1>4. Noticed'
  <2>1. CASE events[1].action = "unplug"
    BY <2>1 DEF Noticed
  <2>2. ASSUME events[1].action # "unplug",
               NEW n \in Nodes, unmounted_usb[n] # NoEntry, NEW k, k = unmounted_usb[n].key
        PROVE  /\ Era(0, k)'
               /\ Allowed(n) => \A p \in Ports : Granted(k)' \/ Pulled(0, p)'
    BY <1>0, <1>1, <2>2 DEF Noticed, Granted
  <2> QED
    BY <2>1, <2>2 DEF Noticed, Allowed
<1>5. Kept'
  <2>1. ASSUME NEW n \in Nodes, mounted_usb[n] # NoEntry, mounted_usb[n].port # NoPort,
               NEW k, k = mounted_usb[n].key
        PROVE  Stands(0, n, k)' \/ (monPc' = "remove" /\ monDev'.node = n)
    BY <1>0, <1>1, <2>1 DEF Kept
  <2> QED
    BY <2>1 DEF Kept
<1> QED
  BY <1>2, <1>3, <1>4, <1>5

LEMMA EventEra ==
  ASSUME OnePort, UsbShape, EraInv, MonitorUnplug \/ MonitorRemove \/ MonitorIgnore
  PROVE  EraInv'
<1> USE DEF kernelVars, tableVars, monVars, fanVars, boundVars, historyVars
<1>1. /\ listening /\ events # << >> /\ events' = Tail(events) /\ monPc = "idle"
      /\ UNCHANGED <<port, listening, watched, overridden, mounted_usb>>
      /\ monPc' \in {"idle", "remove"}
  BY DEF MonitorUnplug, MonitorRemove, MonitorIgnore, Reading
<1>2. Head(events) = events[1] /\ 1 \in 1 .. Len(events) /\ events[1].port \in Ports
  BY <1>1, Popped, LogFacts
<1>3. Weighed'
  BY <1>1 DEF Weighed
<1>4. CASE MonitorUnplug
  <2>1. events[1].action = "unplug" /\ 1 \notin Adds
    BY <1>2, <1>4 DEF MonitorUnplug, Reading, Adds
  <2>2. \A n \in Nodes : unmounted_usb[n] # NoEntry => unmounted_usb[n].port = events[1].port
    BY <1>2, LogFacts DEF OnePort
  <2>3. \A n \in Nodes : unmounted_usb'[n] = NoEntry
    BY <1>2, <1>4, <2>2 DEF MonitorUnplug
  <2> QED
    BY <1>1, <1>3, <2>1, <2>3, ReadEra, SoughtLater DEF EraInv
<1>5. CASE MonitorRemove
  <2>1. /\ events[1].action = "remove" /\ 1 \notin Adds /\ monPc' = "remove"
        /\ monDev'.node = events[1].node /\ UNCHANGED unmounted_usb
    BY <1>2, <1>5 DEF MonitorRemove, Reading, Adds
  <2> QED
    BY <1>1, <1>3, <2>1, ReadEra, SoughtLater DEF EraInv
<1>6. CASE MonitorIgnore
  <2>1. /\ events[1].action = "add" /\ UNCHANGED unmounted_usb
        /\ ~Readable(KeyAt(events[1].node))
    BY <1>2, <1>6 DEF MonitorIgnore, Reading
  <2>2. ASSUME NEW p \in Ports, Unwanted(p) PROVE events[1].node # port[p].node
    <3>1. KeyAt(port[p].node) = port[p].key
      BY OnlyKey
    <3>2. port[p].key # NoKey /\ Signature[port[p].key] # "unreadable"
      BY <2>2 DEF EraInv, Wired, Unwanted
    <3> QED
      BY <2>1, <3>1, <3>2 DEF Readable
  <2> QED
    BY <1>1, <1>3, <2>1, <2>2, ReadEra, SoughtLater DEF EraInv
<1> QED
  BY <1>4, <1>5, <1>6

(* The block of a new device is read: what is known of it is of its key.    *)
LEMMA BlockEra ==
  ASSUME OnePort, UsbShape, EraInv, MonitorRead
  PROVE  EraInv'
<1> USE DEF kernelVars, tableVars, monVars, fanVars, boundVars, historyVars
<1>1. /\ listening /\ events # << >> /\ events' = Tail(events) /\ monPc = "idle"
      /\ UNCHANGED <<port, listening, watched, overridden, tableVars>>
      /\ monPc' = "authorize"
  BY DEF MonitorRead, Reading
<1>2. Head(events) = events[1] /\ 1 \in 1 .. Len(events)
  BY <1>1, Popped
<1>3. 1 \in Adds /\ events[1].action = "add"
  BY <1>2 DEF MonitorRead, Reading, Adds
<1>4. PICK p \in Ports, n \in Nodes, k \in Keys :
        p = events[1].port /\ n = events[1].node /\ k = events[1].key
  BY <1>3, LogFacts
<1>5. monDev' = [port |-> p, node |-> n, key |-> k, read |-> KeyAt(n)]
  BY <1>2, <1>4 DEF MonitorRead
<1>6. Wired' /\ Deaf' /\ Told' /\ Noticed' /\ Taken' /\ Kept'
  BY <1>1, <1>3, ReadEra
<1>7. Era(0, k)' /\ Stands(0, n, k)'
  <2>1. Era(1, k) /\ Stands(1, n, k)
    BY <1>3, <1>4 DEF EraInv, Told
  <2>2. 0 \in Nat /\ 0 + 1 = 1
    OBVIOUS
  <2> QED
    BY <1>1, <2>1, <2>2, PoppedEra
<1>8. \A m \in Nodes : unmounted_usb[m] # NoEntry => unmounted_usb[m].key = k
  <2>1. \A q : ~PulledBefore(0, 1, q)
    BY <1>2, First
  <2> QED
    BY <1>3, <1>4, <2>1 DEF EraInv, Noticed, Era
<1>9. Weighed'
  <2>1. monDev'.node = n /\ monDev'.key = k
    BY <1>5
  <2> QED
    BY <1>1, <1>7, <1>8, <2>1 DEF Weighed
<1>10. ASSUME NEW q \in Ports, events[1].port = q, events[1].node = port[q].node,
              events[1].key = port[q].key
       PROVE  monDev' = [port |-> q, node |-> port[q].node, key |-> port[q].key,
                         read |-> port[q].key]
  BY <1>4, <1>5, <1>10, OnlyKey
<1>11. Sought'
  BY <1>1, <1>10, SoughtLater
<1> QED
  BY <1>6, <1>9, <1>11 DEF EraInv

(* The tables change, the ports and the queue do not. *)
LEMMA TablesEra ==
  ASSUME UNCHANGED <<port, events, watched, overridden>>
  PROVE  /\ Adds' = Adds
         /\ \A i, p : Pulled(i, p)' <=> Pulled(i, p)
         /\ \A i, k : Era(i, k)' <=> Era(i, k)
         /\ \A i, n, k : Stands(i, n, k)' <=> Stands(i, n, k)
         /\ \A p : Unwanted(p)' <=> Unwanted(p)
         /\ \A k : Granted(k)' <=> Granted(k)
BY DEF Adds, Pulled, PulledBefore, Goes, Here, Era, Stands, Unwanted, Granted

(* authorize_usb: what the user allowed is of the key it is found for.      *)
LEMMA AuthorizeEra ==
  ASSUME OnePort, UsbShape, EraInv, MonitorAuthorize
  PROVE  EraInv'
<1> USE DEF kernelVars, tableVars, monVars, fanVars, boundVars, historyVars
<1>0. Wired /\ Deaf /\ Told /\ Noticed /\ Weighed /\ Kept /\ Sought
  BY DEF EraInv
<1>1. /\ monPc = "authorize" /\ monDev \in Work /\ monDev.node \in Nodes
      /\ monDev.key \in Keys /\ monDev.read \in Keys
  BY LogFacts DEF MonitorAuthorize, UsbShape, Working
<1>2. PICK n \in Nodes, k \in Keys, r \in Keys :
        n = monDev.node /\ k = monDev.key /\ r = monDev.read
  BY <1>1
<1>3. /\ listening /\ UNCHANGED <<port, events, listening, watched, overridden, mounted_usb>>
      /\ unmounted_usb \in [Nodes -> EntryOrNone]
      /\ monPc' \in {"certify", "deauthorize"} /\ monDev'.node = n
  BY <1>0, <1>1, <1>2 DEF MonitorAuthorize, UsbShape, UsbTypeOK, Work, Deaf
<1>4. PICK e : e = [port |-> monDev.port, key |-> k, auth |-> Authorization(k, r)]
  OBVIOUS
<1>5. \/ /\ Allowed(n) /\ monPc' = "certify"
         /\ unmounted_usb' = [unmounted_usb EXCEPT ![n] = unmounted_usb[n]]
      \/ /\ ~Allowed(n) /\ monPc' = IF e.auth = "Block" THEN "deauthorize" ELSE "certify"
         /\ unmounted_usb' = [unmounted_usb EXCEPT ![n] = e]
  BY <1>2, <1>4 DEF MonitorAuthorize, Allowed
<1>6. /\ e.key = k /\ e.auth = Authorization(k, r)
      /\ e.auth # "Block" => Granted(k)
      /\ e # NoEntry
  <2>1. Authorization(k, r) \in UsbAuthorization
    BY DEF Authorization, UsbAuthorization, Allowances, UserGrant
  <2>2. e \in Entry
    BY <1>1, <1>4, <2>1, LogFacts DEF Entry
  <2> QED
    BY <1>4, <2>2, NoEntryAssumption DEF Authorization, Granted
<1>7. /\ Era(0, k) /\ Stands(0, n, k)
      /\ \A m \in Nodes : unmounted_usb[m] # NoEntry => unmounted_usb[m].key = k
  BY <1>0, <1>1, <1>2 DEF Weighed
<1>8. /\ \A m \in Nodes : m # n => unmounted_usb'[m] = unmounted_usb[m]
      /\ \/ Allowed(n) /\ unmounted_usb'[n] = unmounted_usb[n] /\ monPc' = "certify"
         \/ /\ unmounted_usb'[n] = e
            /\ monPc' = IF e.auth = "Block" THEN "deauthorize" ELSE "certify"
  BY <1>3, <1>5
<1>9. /\ Adds' = Adds
      /\ \A i, q : Pulled(i, q)' <=> Pulled(i, q)
      /\ \A i, j : Era(i, j)' <=> Era(i, j)
      /\ \A i, m, j : Stands(i, m, j)' <=> Stands(i, m, j)
      /\ \A q : Unwanted(q)' <=> Unwanted(q)
      /\ \A j : Granted(j)' <=> Granted(j)
  BY <1>3, TablesEra
<1>10. /\ unmounted_usb'[n].key = k
       /\ \A m \in Nodes : unmounted_usb'[m] # NoEntry => unmounted_usb'[m].key = k
  BY <1>6, <1>7, <1>8 DEF Allowed
<1>11. \A m \in Nodes : Allowed(m)' => \A p \in Ports : Granted(k) \/ Pulled(0, p)
  BY <1>0, <1>6, <1>7, <1>8 DEF Noticed, Allowed
<1>12. Wired' /\ Deaf' /\ Told'
  BY <1>0, <1>3, <1>9 DEF Wired, Deaf, Told
<1>13. Noticed'
  BY <1>7, <1>9, <1>10, <1>11 DEF Noticed
<1>14. Weighed' /\ Taken'
  BY <1>3, <1>7, <1>9, <1>10 DEF Weighed, Taken
<1>15. Kept'
  BY <1>0, <1>1, <1>3, <1>9 DEF Kept
<1>16. Sought'
  <2>1. ASSUME NEW p \in Ports, Unwanted(p), NEW m, m = port[p].node, NEW j, j = port[p].key
        PROVE  Seeks(p, m, j)'
    <3>1. Seeks(p, m, j)
      BY <1>0, <2>1 DEF Sought
    <3>2. CASE \E i \in Adds : /\ events[i].port = p /\ events[i].node = m
                               /\ events[i].key = j /\ ~Pulled(i, p)
      BY <1>3, <1>9, <3>2 DEF Seeks
    <3>3. CASE ~Pulled(0, p) /\ monDev = [port |-> p, node |-> m, key |-> j, read |-> j]
      <4>1. j = k /\ ~Granted(k)
        BY <1>2, <2>1, <3>3 DEF Unwanted
      <4>2. ~Allowed(n)'
        BY <1>11, <3>3, <4>1
      <4>3. monPc' = "deauthorize"
        BY <1>6, <1>8, <4>2 DEF Allowed
      <4> QED
        BY <4>3 DEF Seeks
    <3> QED
      BY <1>1, <3>1, <3>2, <3>3 DEF Seeks
  <2> QED
    BY <1>3, <1>9, <2>1 DEF Sought
<1> QED
  BY <1>12, <1>13, <1>14, <1>15, <1>16 DEF EraInv

LEMMA ForgetEra ==
  ASSUME UsbShape, EraInv, MonitorForget
  PROVE  EraInv'
<1> USE DEF kernelVars, tableVars, monVars, fanVars, boundVars, historyVars
<1>0. Wired /\ Deaf /\ Told /\ Noticed /\ Kept /\ Sought
  BY DEF EraInv
<1>1. PICK n \in Nodes : n = monDev.node /\ monPc = "remove" /\ monPc' = "idle"
  BY LogFacts DEF MonitorForget
<1>2. /\ listening /\ UNCHANGED <<port, events, listening, watched, overridden>>
      /\ mounted_usb' = [mounted_usb EXCEPT ![n] = NoEntry]
      /\ \/ unmounted_usb' = unmounted_usb
         \/ unmounted_usb' = [unmounted_usb EXCEPT ![n] = NoEntry]
  BY <1>0, <1>1 DEF MonitorForget, Deaf
<1>3. /\ unmounted_usb \in [Nodes -> EntryOrNone] /\ mounted_usb \in [Nodes -> EntryOrNone]
  BY DEF UsbShape, UsbTypeOK
<1>4. /\ \A m \in Nodes : unmounted_usb'[m] # NoEntry => unmounted_usb'[m] = unmounted_usb[m]
      /\ \A m \in Nodes : mounted_usb'[m] # NoEntry =>
           mounted_usb'[m] = mounted_usb[m] /\ m # n
  BY <1>2, <1>3
<1>5. /\ Adds' = Adds
      /\ \A i, q : Pulled(i, q)' <=> Pulled(i, q)
      /\ \A i, j : Era(i, j)' <=> Era(i, j)
      /\ \A i, m, j : Stands(i, m, j)' <=> Stands(i, m, j)
      /\ \A q : Unwanted(q)' <=> Unwanted(q)
      /\ \A j : Granted(j)' <=> Granted(j)
  BY <1>2, TablesEra
<1>6. Wired' /\ Deaf' /\ Told'
  BY <1>0, <1>2, <1>5 DEF Wired, Deaf, Told
<1>7. Noticed'
  BY <1>0, <1>4, <1>5 DEF Noticed, Allowed
<1>8. Weighed' /\ Taken'
  BY <1>1 DEF Weighed, Taken
<1>9. Kept'
  BY <1>0, <1>1, <1>4, <1>5 DEF Kept
<1>10. Sought'
  <2>1. \A p, m, k : Seeks(p, m, k) => Seeks(p, m, k)'
    BY <1>1, <1>2, <1>5 DEF Seeks
  <2> QED
    BY <1>0, <1>2, <1>5, <2>1 DEF Sought
<1> QED
  BY <1>6, <1>7, <1>8, <1>9, <1>10 DEF EraInv

LEMMA TrackEra ==
  ASSUME UsbShape, EraInv, MonitorTrack
  PROVE  EraInv'
<1> USE DEF kernelVars, tableVars, monVars, fanVars, boundVars, historyVars
<1>0. Wired /\ Deaf /\ Told /\ Noticed /\ Taken /\ Kept /\ Sought
  BY DEF EraInv
<1>1. PICK n \in Nodes : n = monDev.node /\ monPc = "track" /\ monPc' = "idle"
  BY LogFacts DEF MonitorTrack
<1>2. /\ listening /\ UNCHANGED <<port, events, listening, watched, overridden>>
      /\ mounted_usb' = [mounted_usb EXCEPT ![n] = unmounted_usb[n]]
      /\ unmounted_usb' = [unmounted_usb EXCEPT ![n] = NoEntry]
  BY <1>0, <1>1 DEF MonitorTrack, UsbShape, Working, Deaf
<1>3. /\ unmounted_usb \in [Nodes -> EntryOrNone] /\ mounted_usb \in [Nodes -> EntryOrNone]
  BY DEF UsbShape, UsbTypeOK
<1>4. /\ \A m \in Nodes : unmounted_usb'[m] # NoEntry => unmounted_usb'[m] = unmounted_usb[m]
      /\ \A m \in Nodes : m # n => mounted_usb'[m] = mounted_usb[m]
      /\ mounted_usb'[n] = unmounted_usb[n]
  BY <1>2, <1>3
<1>5. /\ Adds' = Adds
      /\ \A i, q : Pulled(i, q)' <=> Pulled(i, q)
      /\ \A i, j : Era(i, j)' <=> Era(i, j)
      /\ \A i, m, j : Stands(i, m, j)' <=> Stands(i, m, j)
      /\ \A q : Unwanted(q)' <=> Unwanted(q)
      /\ \A j : Granted(j)' <=> Granted(j)
  BY <1>2, TablesEra
<1>6. Wired' /\ Deaf' /\ Told'
  BY <1>0, <1>2, <1>5 DEF Wired, Deaf, Told
<1>7. Noticed'
  BY <1>0, <1>4, <1>5 DEF Noticed, Allowed
<1>8. Weighed' /\ Taken'
  BY <1>1 DEF Weighed, Taken
<1>9. Kept'
  <2>1. Stands(0, n, unmounted_usb[n].key)
    BY <1>0, <1>1 DEF Taken
  <2> QED
    BY <1>0, <1>1, <1>4, <1>5, <2>1 DEF Kept
<1>10. Sought'
  <2>1. \A p, m, k : Seeks(p, m, k) => Seeks(p, m, k)'
    BY <1>1, <1>2, <1>5 DEF Seeks
  <2> QED
    BY <1>0, <1>2, <1>5, <2>1 DEF Sought
<1> QED
  BY <1>6, <1>7, <1>8, <1>9, <1>10 DEF EraInv

(* The user allows what was refused. *)
LEMMA OverrideEra ==
  ASSUME UsbShape, EraInv, NEW n \in Nodes, Override(n)
  PROVE  EraInv'
<1> USE DEF kernelVars, tableVars, monVars, fanVars, boundVars, historyVars
<1>0. Wired /\ Deaf
  BY DEF EraInv
<1>1. PICK p \in Ports : p = unmounted_usb[n].port
  BY LogFacts DEF Override
<1>2. /\ unmounted_usb[n] # NoEntry /\ unmounted_usb[n].auth = "Block"
      /\ unmounted_usb \in [Nodes -> EntryOrNone] /\ unmounted_usb[n] \in Entry
      /\ port' = IF port[p].key = NoKey THEN port ELSE [port EXCEPT ![p].authorized = TRUE]
      /\ unmounted_usb' = [unmounted_usb EXCEPT ![n].auth = UserGrant]
      /\ overridden' = overridden \cup {unmounted_usb[n].key}
      /\ UNCHANGED <<events, watched, listening, mounted_usb, monPc, monDev>>
  BY <1>1 DEF Override, UsbShape, UsbTypeOK, EntryOrNone
<1>3. listening
  BY <1>0, <1>2 DEF Deaf
<1>4. \A q \in Ports : /\ port'[q].key = port[q].key /\ port'[q].node = port[q].node
                       /\ \/ port'[q].authorized = port[q].authorized
                          \/ port'[q].authorized /\ port[q].key # NoKey
  <2>1. port \in [Ports -> AtPort]
    BY LogFacts
  <2>2. CASE port[p].key = NoKey
    BY <1>2, <2>2
  <2>3. CASE port[p].key # NoKey
    <3>1. port' = [port EXCEPT ![p] = [port[p] EXCEPT !.authorized = TRUE]]
      BY <1>2, <2>3
    <3>2. PICK at \in AtPort : at = [port[p] EXCEPT !.authorized = TRUE]
      BY <2>1 DEF AtPort
    <3>3. at.key = port[p].key /\ at.node = port[p].node /\ at.authorized
      BY <2>1, <3>2 DEF AtPort
    <3>4. port'[p] = at /\ \A q \in Ports : q # p => port'[q] = port[q]
      BY <2>1, <3>1, <3>2
    <3> QED
      BY <2>3, <3>3, <3>4
  <2> QED
    BY <2>2, <2>3
<1>5. Wired'
  BY <1>0, <1>4 DEF Wired
<1>6. \A m \in Nodes : m # n => unmounted_usb'[m] = unmounted_usb[m]
  BY <1>2
<1>7. unmounted_usb'[n].key = unmounted_usb[n].key
  BY <1>2 DEF Entry
<1>8. \A m \in Nodes :
        unmounted_usb'[m] # NoEntry =>
          /\ unmounted_usb[m] # NoEntry /\ unmounted_usb'[m].key = unmounted_usb[m].key
          /\ Allowed(m)' => Allowed(m) \/ unmounted_usb[m].key \in overridden'
  BY <1>2, <1>6, <1>7 DEF Allowed
<1>9. monPc \in {"certify", "mount", "track"} =>
        unmounted_usb'[monDev.node] = unmounted_usb[monDev.node]
  <2>1. monPc \in {"certify", "mount", "track"} =>
          monDev.node \in Nodes /\ unmounted_usb[monDev.node].auth # "Block"
    BY LogFacts DEF UsbShape, Working
  <2> QED
    BY <1>2, <1>6, <2>1
<1> QED
  BY <1>2, <1>3, <1>4, <1>5, <1>8, <1>9, OrdinaryEra

(* There too, a refused key that stays is awaited or exempt. *)
LEMMA FailsEra ==
  ASSUME OnePort, UsbShape, EraInv, MonitorDeauthorizeFails
  PROVE  EraInv'
<1> USE DEF kernelVars, tableVars, monVars, fanVars, boundVars, historyVars
<1>1. /\ monPc = "deauthorize" /\ monPc' = "idle"
      /\ watched' = IF Awaited(monDev.port) THEN watched ELSE watched \ {monDev.port}
      /\ UNCHANGED <<port, events, listening, tableVars, overridden>>
  BY DEF MonitorDeauthorizeFails
<1>2. Sought'
  <2>1. SUFFICES ASSUME NEW p \in Ports, Unwanted(p)'
                 PROVE  Seeks(p, port[p].node, port[p].key)'
    BY <1>1 DEF Sought
  <2>2. Awaited(p)
    <3>1. p = monDev.port
      BY <1>1, LogFacts DEF OnePort
    <3> QED
      BY <1>1, <2>1, <3>1 DEF Unwanted
  <2>3. PICK i \in Adds :
          /\ events[i].port = p
          /\ \A j \in i + 1 .. Len(events) :
               events[j].port # p /\ events[j].node # events[i].node
    BY <2>2 DEF Awaited, Adds
  <2>4. ~Pulled(i, p) /\ ~Goes(i, events[i].node)
    BY <2>3, LogFacts DEF Pulled, Goes
  <2>5. Here(p, events[i].node, events[i].key)
    BY <2>4 DEF EraInv, Told, Stands, OnePort
  <2> QED
    BY <1>1, <2>3, <2>4, <2>5 DEF Seeks, Adds, Pulled, Here
<1>3. Wired'
  BY <1>1 DEF EraInv, Wired
<1> QED
  BY <1>1, <1>2, <1>3, OrdinaryEra DEF Allowed

(* The steps that leave the ports, the queue and the tables as they are.    *)
LEMMA QuietStepEra ==
  ASSUME UsbShape, EraInv,
         \/ \E n \in Nodes : \/ Unmount(n) \/ DesktopMount(n)
                             \/ \E auth \in UsbAuthorization : RequestUpdate(n, auth)
         \/ \E n \in Mounts : Open(n)
         \/ Filter \/ FilterStops \/ Start \/ Listen \/ Recover
         \/ MonitorCertify \/ MonitorMount \/ MonitorMountFails
         \/ UNCHANGED vars
  PROVE  EraInv'
<1> USE DEF kernelVars, tableVars, monVars, fanVars, boundVars, historyVars
<1>0. Wired
  BY DEF EraInv
<1>1. CASE \/ \E n \in Nodes : \/ Unmount(n) \/ DesktopMount(n)
                               \/ \E auth \in UsbAuthorization : RequestUpdate(n, auth)
           \/ \E n \in Mounts : Open(n)
           \/ Filter \/ FilterStops \/ Start \/ Listen \/ UNCHANGED vars
  <2>1. /\ UNCHANGED <<port, events, tableVars, monVars, watched, overridden>>
        /\ listening => listening'
    BY <1>1 DEF Unmount, DesktopMount, Open, RequestUpdate, Filter, FilterAllow,
                FilterAsk, FilterAnswer, FilterStops, Start, Listen, vars
  <2>2. Wired'
    BY <1>0, <2>1 DEF Wired
  <2> QED
    BY <2>1, <2>2, OrdinaryEra DEF Allowed
<1>2. CASE Recover
  <2>1. /\ UNCHANGED <<port, events, unmounted_usb, monVars, watched, overridden, listening>>
        /\ \A n \in Nodes : mounted_usb'[n] = NoEntry \/ mounted_usb'[n].port = NoPort
    BY <1>2 DEF Recover
  <2>2. Wired'
    BY <1>0, <2>1 DEF Wired
  <2> QED
    BY <2>1, <2>2, OrdinaryEra DEF Allowed
<1>3. CASE MonitorCertify
  <2>1. /\ UNCHANGED <<events, tableVars, monDev, watched, overridden, listening>>
        /\ monPc = "certify" /\ monPc' = "mount"
    BY <1>3 DEF MonitorCertify
  <2>2. \A p \in Ports : /\ port'[p].key = port[p].key /\ port'[p].node = port[p].node
                         /\ port'[p].authorized = port[p].authorized
    <3>1. \A p \in Ports : port'[p] = IF port[p].node = monDev.node
                                      THEN [port[p] EXCEPT !.shown = TRUE] ELSE port[p]
      BY <1>3 DEF MonitorCertify
    <3>2. \A p \in Ports : port[p] \in AtPort
      BY LogFacts
    <3> QED
      BY <3>1, <3>2 DEF AtPort
  <2>3. Wired'
    BY <1>0, <2>2 DEF Wired
  <2> QED
    BY <2>1, <2>2, <2>3, OrdinaryEra DEF Allowed
<1>4. CASE MonitorMount
  <2>1. /\ UNCHANGED <<port, events, tableVars, monDev, watched, overridden, listening>>
        /\ monPc = "mount" /\ monPc' = "track"
    BY <1>4 DEF MonitorMount
  <2>2. Wired'
    BY <1>0, <2>1 DEF Wired
  <2> QED
    BY <2>1, <2>2, OrdinaryEra DEF Allowed
<1>5. CASE MonitorMountFails
  <2>1. /\ UNCHANGED <<port, events, tableVars, watched, overridden, listening>>
        /\ monPc = "mount" /\ monPc' = "idle"
    BY <1>5 DEF MonitorMountFails
  <2>2. Wired'
    BY <1>0, <2>1 DEF Wired
  <2> QED
    BY <2>1, <2>2, OrdinaryEra DEF Allowed
<1> QED
  BY <1>1, <1>2, <1>3, <1>4, <1>5

LEMMA EraStep ==
  ASSUME OnePort, UsbShape, EraInv, [Next]_vars
  PROVE  EraInv'
<1>1. CASE \E p \in Ports : Unplug(p) \/ Enumerate(p) \/ \E k \in Keys : Plug(p, k)
  BY <1>1, UnplugEra, EnumerateEra, PlugEra
<1>2. CASE Monitor
  BY <1>2, EventEra, BlockEra, AuthorizeEra, DeauthorizeEra, FailsEra, ForgetEra,
     TrackEra, QuietStepEra DEF Monitor
<1>3. CASE Crash
  <2>1. ~listening' /\ Wired' /\ Deaf'
    BY <1>3 DEF Crash, EraInv, Wired, Deaf, kernelVars
  <2> QED
    BY <2>1, DeafEra
<1>4. CASE \E n \in Nodes : Override(n)
  BY <1>4, OverrideEra
<1>5. CASE \/ \E n \in Nodes : \/ Unmount(n) \/ DesktopMount(n)
                               \/ \E auth \in UsbAuthorization : RequestUpdate(n, auth)
           \/ \E n \in Mounts : Open(n)
           \/ Filter \/ FilterStops \/ Start \/ Listen \/ Recover \/ UNCHANGED vars
  BY <1>5, QuietStepEra
<1> QED
  BY <1>1, <1>2, <1>3, <1>4, <1>5 DEF Next, Environment, Kernel, User, Daemon

LEMMA EraHolds == ASSUME OnePort PROVE Spec => [](UsbShape /\ EraInv)
<1>1. UsbShape /\ EraInv /\ [Next]_vars => (UsbShape /\ EraInv)'
  BY EraStep, UsbShapeStep
<1>2. Init => UsbShape /\ EraInv
  BY UsbInitShape, EraInit
<1> QED
  BY <1>1, <1>2, PTL DEF Spec

(* On a station with one port for keys, under any policy and whatever the   *)
(* user overrides (also while the monitor works, or when the key is gone),  *)
(* once the monitor has caught up no key is left connected that is neither  *)
(* signed nor overridden since it was plugged: override_blocked_usb and     *)
(* authorize_usb never let in one key for another.                          *)
THEOREM OverridesStayWithTheirKey == ASSUME OnePort PROVE Spec => []QuietIsClean
<1>1. EraInv => QuietIsClean
  <2>1. SUFFICES ASSUME EraInv, Quiet, NEW p \in Ports, Unwanted(p)
                 PROVE  FALSE
    BY DEF QuietIsClean
  <2>2. Seeks(p, port[p].node, port[p].key)
    BY <2>1 DEF EraInv, Sought
  <2>3. Adds = {} /\ monPc = "idle"
    BY <2>1 DEF Quiet, Adds
  <2> QED
    BY <2>2, <2>3 DEF Seeks
<1> QED
  BY <1>1, EraHolds, PTL

(* There too, what mounted_usb says stands at a node is the key that stands *)
(* there once the monitor has caught up, overridden or not: an entry that   *)
(* served a key the user let in is gone when the next one has its node.     *)
THEOREM TablesFollowTheOnePort == ASSUME OnePort PROVE Spec => []QuietIsTracked
<1>1. UsbShape /\ EraInv => QuietIsTracked
  <2>1. SUFFICES ASSUME EraInv, Quiet, NEW n \in Nodes,
                        mounted_usb[n] # NoEntry, mounted_usb[n].port # NoPort
                 PROVE  KeyAt(n) = mounted_usb[n].key
    BY DEF QuietIsTracked
  <2>2. Stands(0, n, mounted_usb[n].key) /\ ~Goes(0, n)
    BY <2>1 DEF EraInv, Kept, Quiet, Goes
  <2>3. PICK p \in Ports : Here(p, n, mounted_usb[n].key)
    BY <2>2 DEF Stands
  <2> QED
    BY <2>3, OnlyKey DEF Here
<1> QED
  BY <1>1, EraHolds, PTL

=============================================================================
