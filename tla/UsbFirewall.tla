------------------------------ MODULE UsbFirewall ------------------------------
(***************************************************************************)
(* The USB firewall daemon on Linux.  A monitor thread treats the udev     *)
(* events one at a time: it has a new key authorised by the controller,    *)
(* then disconnects it or mounts it.  The D-Bus service lets the user      *)
(* override a refusal or change an authorisation.  The fanotify thread     *)
(* answers the opening of files on the marked mounts, and may ask the user *)
(* while it holds the controller's lock.  The daemon may be killed and is  *)
(* restarted by systemd; the kernel, the mounts and the sentinels stay.    *)
(*                                                                         *)
(* A key has one partition; its device node is the first free one.  A node *)
(* is also the name of its sentinel and of the place it is mounted at.     *)
(***************************************************************************)
EXTENDS Naturals, Sequences, FiniteSetsExt

CONSTANTS
  Keys,
  Ports,             \* where keys are plugged: the sysfs path of a USB device
  Nodes,             \* device nodes, numbered
  Host,              \* the mount their mount points stand on
  Signature,         \* what stands in the signature block of each key
  disable_unsigned_usb,
  allow_user_usb_authorization,
  allow_user_file_write,
  NoKey, NoPort, NoEntry,
  MaxPlugs,          \* bound: insertions
  MaxOpens,          \* bound: files opened on a marked mount
  MaxRemounts,       \* bound: mounts made by the desktop
  MaxCrashes         \* bound: deaths of the daemon

SignatureKinds == {"valid", "invalid", "none", "malformed", "unreadable"}

ASSUME UsbAssumption ==
  /\ Signature \in [Keys -> SignatureKinds]
  /\ Nodes \subseteq Nat \ {0} /\ Host \in Nat \ (Nodes \cup {0})
  /\ disable_unsigned_usb \in BOOLEAN
  /\ allow_user_usb_authorization \in BOOLEAN
  /\ allow_user_file_write \in BOOLEAN
  /\ NoKey \notin Keys /\ NoPort \notin Ports
  /\ {MaxPlugs, MaxOpens, MaxRemounts, MaxCrashes} \subseteq Nat

VARIABLES
  port,          \* kernel: the key at each port, whether it is authorised,
                 \* its node, whether udisks2 shows it (UDISKS_IGNORE=0)
  events,        \* udev events the monitor has not read
  mounts,        \* the key each node's mount shows
  marked,        \* mounts with a fanotify mark
  sentinels,     \* /run/keysas/certified
  daemon,        \* "down", "starting" (the lock is held) or "up"
  listening,     \* the monitor thread listens to udev
  unmounted_usb, mounted_usb,
  monPc, monDev, \* the monitor thread and the device it works on
  opening,       \* nodes with a file whose opening waits for an answer
  asking,        \* the node of the file the user is asked about, 0 for none
  filtering,     \* the fanotify thread reads what is to be answered
  plugs, opens, remounts, crashes,
  watched,       \* history: ports enumerated since the daemon listens, whose
                 \* key was not failed to be disconnected
  overridden,    \* history: keys the user allowed since they were plugged
  unfiltered     \* history: mounts the user blocked, or the desktop made

kernelVars == <<port, mounts>>
tableVars == <<unmounted_usb, mounted_usb>>
monVars == <<monPc, monDev>>
fanVars == <<opening, asking, filtering>>
boundVars == <<plugs, opens, remounts, crashes>>
historyVars == <<watched, overridden, unfiltered>>
vars == <<kernelVars, events, marked, sentinels, daemon, listening, tableVars,
          monVars, fanVars, boundVars, historyVars>>

------------------------------------------------------------------------------
Allowances == {"AllowRead", "AllowRW", "AllowAll"}
UsbAuthorization == {"Block"} \cup Allowances

Entry == [port : Ports \cup {NoPort}, key : Keys \cup {NoKey},
          auth : UsbAuthorization]
Event == [action : {"add", "remove", "unplug"}, port : Ports,
          node : Nodes \cup {0}, key : Keys \cup {NoKey}]

(* What the monitor works on, and the key whose signature it has read. *)
Work == [port : Ports, node : Nodes, key : Keys \cup {NoKey},
         read : Keys \cup {NoKey}]

ASSUME NoEntryAssumption == NoEntry \notin Entry \cup Work

UserGrant == IF allow_user_file_write THEN "AllowRW" ELSE "AllowRead"

EmptyPort == [key |-> NoKey, authorized |-> FALSE, node |-> 0, shown |-> FALSE]

(* The key that answers at a node now; a mount keeps the name of its node. *)
KeyAt(n) ==
  IF \E p \in Ports : port[p].node = n
  THEN port[CHOOSE p \in Ports : port[p].node = n].key
  ELSE NoKey
FreeNodes == {n \in Nodes : KeyAt(n) = NoKey /\ mounts[n] = NoKey}

Notify(evts) == events' = IF listening THEN events \o evts ELSE events

(* The mutex of the controller, held while the user is asked about a file. *)
LockFree == daemon = "up" /\ asking = 0

(* The mounts a file can be opened on that the filter may have marked. *)
Mounts == Nodes \cup {Host}

(* What update_usb_auth of the file filter may leave marked.  The call names *)
(* a directory: without a mount on it, it fails when the directory is gone,  *)
(* or changes the mark of the mount the directory is in.                     *)
MarksAfter(n, auth) ==
  {IF auth = "Block" THEN marked \ found ELSE marked \cup found :
     found \in IF mounts[n] = NoKey THEN {{}, {Host}} ELSE {{n}}}

------------------------------------------------------------------------------
Init ==
  /\ port = [p \in Ports |-> EmptyPort]
  /\ events = << >>
  /\ mounts = [n \in Nodes |-> NoKey]
  /\ marked = {} /\ sentinels = {}
  /\ daemon = "down" /\ listening = FALSE
  /\ unmounted_usb = [n \in Nodes |-> NoEntry]
  /\ mounted_usb = [n \in Nodes |-> NoEntry]
  /\ monPc = "idle" /\ monDev = NoEntry
  /\ opening = {} /\ asking = 0 /\ filtering = TRUE
  /\ plugs = 0 /\ opens = 0 /\ remounts = 0 /\ crashes = 0
  /\ watched = {} /\ overridden = {} /\ unfiltered = {}

------------------------------------------------------------------------------
(* The keys, the kernel and the desktop. *)

Plug(p, k) ==
  /\ plugs < MaxPlugs
  /\ port[p].key = NoKey /\ \A q \in Ports : port[q].key # k
  /\ plugs' = plugs + 1
  /\ port' = [port EXCEPT ![p] = [EmptyPort EXCEPT !.key = k, !.authorized = TRUE]]
  /\ overridden' = overridden \ {k}
  /\ UNCHANGED <<events, mounts, marked, sentinels, daemon, listening,
                 tableVars, monVars, fanVars, opens, remounts, crashes, watched,
                 unfiltered>>

(* An authorised key gets the first free node and its add event. *)
Enumerate(p) ==
  /\ port[p].authorized /\ port[p].node = 0 /\ FreeNodes # {}
  /\ LET n == Min(FreeNodes) IN
       /\ port' = [port EXCEPT ![p].node = n]
       /\ Notify(<<[action |-> "add", port |-> p, node |-> n,
                    key |-> port[p].key]>>)
  /\ watched' = IF listening THEN watched \cup {p} ELSE watched
  /\ UNCHANGED <<mounts, marked, sentinels, daemon, listening, tableVars,
                 monVars, fanVars, boundVars, overridden, unfiltered>>

RemoveEvents(p) ==
  IF port[p].node = 0 THEN << >>
  ELSE <<[action |-> "remove", port |-> p, node |-> port[p].node,
          key |-> NoKey]>>

(* The key is pulled out; its mount may stay behind. *)
Unplug(p) ==
  /\ port[p].key # NoKey
  /\ port' = [port EXCEPT ![p] = EmptyPort]
  /\ Notify(Append(RemoveEvents(p),
                   [action |-> "unplug", port |-> p, node |-> 0,
                    key |-> NoKey]))
  /\ watched' = watched \ {p}
  /\ UNCHANGED <<mounts, marked, sentinels, daemon, listening, tableVars,
                 monVars, fanVars, boundVars, overridden, unfiltered>>

(* A mount goes, with its mark: ejected, or cleaned up after its key. *)
Unmount(n) ==
  /\ mounts[n] # NoKey
  /\ mounts' = [mounts EXCEPT ![n] = NoKey]
  /\ marked' = marked \ {n}
  /\ UNCHANGED <<port, events, sentinels, daemon, listening, tableVars,
                 monVars, fanVars, boundVars, historyVars>>

(* The desktop mounts again what udisks2 shows: no event tells the daemon. *)
DesktopMount(n) ==
  /\ remounts < MaxRemounts /\ mounts[n] = NoKey
  /\ \E p \in Ports : port[p].node = n /\ port[p].shown
  /\ remounts' = remounts + 1
  /\ mounts' = [mounts EXCEPT ![n] = KeyAt(n)]
  /\ unfiltered' = unfiltered \cup {n}
  /\ UNCHANGED <<port, events, marked, sentinels, daemon, listening, tableVars,
                 monVars, fanVars, plugs, opens, crashes, watched, overridden>>

(* A user opens a file of a marked mount. *)
Open(n) ==
  /\ n \in marked /\ n \notin opening /\ opens < MaxOpens
  /\ opens' = opens + 1
  /\ opening' = opening \cup {n}
  /\ UNCHANGED <<kernelVars, events, marked, sentinels, daemon, listening,
                 tableVars, monVars, asking, filtering, plugs, remounts,
                 crashes, historyVars>>

Environment ==
  \/ \E p \in Ports : Unplug(p) \/ \E k \in Keys : Plug(p, k)
  \/ \E n \in Nodes : Unmount(n) \/ DesktopMount(n)
  \/ \E n \in Mounts : Open(n)

------------------------------------------------------------------------------
(* The monitor thread. *)

Reading(action) ==
  /\ listening /\ monPc = "idle" /\ events # << >>
  /\ Head(events).action = action
  /\ events' = Tail(events)

(* Mutant: the unplugged device stays in unmounted_usb. *)
MonitorUnplugKeeps ==
  /\ LockFree /\ Reading("unplug")
  /\ UNCHANGED <<kernelVars, marked, sentinels, daemon, listening, tableVars,
                 monVars, fanVars, boundVars, historyVars>>

(* A key was pulled out: forget what is not mounted of it. *)
MonitorUnplug ==
  /\ LockFree /\ Reading("unplug")
  /\ unmounted_usb' = [n \in Nodes |->
       IF unmounted_usb[n] # NoEntry
            /\ unmounted_usb[n].port = Head(events).port
       THEN NoEntry ELSE unmounted_usb[n]]
  /\ UNCHANGED <<kernelVars, marked, sentinels, daemon, listening, mounted_usb,
                 monVars, fanVars, boundVars, historyVars>>

(* A node went: its sentinel first, then the controller's tables. *)
MonitorRemove ==
  /\ Reading("remove")
  /\ sentinels' = sentinels \ {Head(events).node}
  /\ monPc' = "remove"
  /\ monDev' = [port |-> Head(events).port, node |-> Head(events).node,
                key |-> NoKey, read |-> NoKey]
  /\ UNCHANGED <<kernelVars, marked, daemon, listening, tableVars, fanVars,
                 boundVars, historyVars>>

(* Mutant: a removed device stays in mounted_usb. *)
MonitorForgetUnmounted ==
  /\ LockFree /\ monPc = "remove"
  /\ monPc' = "idle" /\ monDev' = NoEntry
  /\ unmounted_usb' =
       IF /\ unmounted_usb[monDev.node] # NoEntry
          /\ unmounted_usb[monDev.node].auth # "Block"
       THEN [unmounted_usb EXCEPT ![monDev.node] = NoEntry]
       ELSE unmounted_usb
  /\ UNCHANGED <<kernelVars, events, marked, sentinels, daemon, listening,
                 mounted_usb, fanVars, boundVars, historyVars>>

(* remove_usb: a blocked device stays in the table, since its node goes     *)
(* when the daemon has it disconnected.                                     *)
MonitorForget ==
  /\ LockFree /\ monPc = "remove"
  /\ monPc' = "idle" /\ monDev' = NoEntry
  /\ LET n == monDev.node
         pending == /\ mounted_usb[n] = NoEntry /\ unmounted_usb[n] # NoEntry
                    /\ unmounted_usb[n].auth # "Block"
     IN
       /\ mounted_usb' = [mounted_usb EXCEPT ![n] = NoEntry]
       /\ marked' \in IF mounted_usb[n] = NoEntry THEN {marked}
                      ELSE MarksAfter(n, "Block")
       /\ unmounted_usb' = IF pending
                           THEN [unmounted_usb EXCEPT ![n] = NoEntry]
                           ELSE unmounted_usb
  /\ UNCHANGED <<kernelVars, events, sentinels, daemon, listening, fanVars,
                 boundVars, historyVars>>

(* extract_usb_info fails when the node is gone, or what stands in the      *)
(* signature block is cut short or no text.                                 *)
Readable(k) == k # NoKey /\ Signature[k] # "unreadable"

MonitorIgnore ==
  /\ Reading("add")
  /\ ~Readable(KeyAt(Head(events).node))
  /\ UNCHANGED <<kernelVars, marked, sentinels, daemon, listening, tableVars,
                 monVars, fanVars, boundVars, historyVars>>

(* The device is described by its event, the signature block is read now. *)
MonitorRead ==
  /\ Reading("add")
  /\ LET e == Head(events) IN
       /\ Readable(KeyAt(e.node))
       /\ monDev' = [port |-> e.port, node |-> e.node, key |-> e.key,
                     read |-> KeyAt(e.node)]
  /\ monPc' = "authorize"
  /\ UNCHANGED <<kernelVars, marked, sentinels, daemon, listening, tableVars,
                 fanVars, boundVars, historyVars>>

(* Mutant: disable_unsigned_usb taken the wrong way round. *)
AuthorizationInverted(k, read) ==
  CASE Signature[read] = "malformed" -> "Block"
    [] Signature[read] = "valid" /\ k = read -> UserGrant
    [] OTHER -> IF disable_unsigned_usb THEN "Block" ELSE "AllowAll"

(* A signature holds for the device it was made for.  One that cannot be    *)
(* decoded is an error, for which the device is blocked under any policy.   *)
Authorization(k, read) ==
  CASE Signature[read] = "malformed" -> "Block"
    [] Signature[read] = "valid" /\ k = read -> UserGrant
    [] OTHER -> IF disable_unsigned_usb THEN "AllowAll" ELSE "Block"

(* Mutant: after an error the monitor goes on to the next event. *)
MonitorAuthorizeSkips ==
  /\ LockFree /\ monPc = "authorize"
  /\ LET known == unmounted_usb[monDev.node]
         new == [port |-> monDev.port, key |-> monDev.key,
                 auth |-> Authorization(monDev.key, monDev.read)]
         allowed == known # NoEntry /\ known.auth # "Block"
         device == IF allowed THEN known ELSE new
         failed == ~allowed /\ Signature[monDev.read] = "malformed"
     IN
       /\ unmounted_usb' = [unmounted_usb EXCEPT ![monDev.node] = device]
       /\ monPc' = CASE failed -> "idle"
                     [] device.auth = "Block" -> "deauthorize"
                     [] OTHER -> "certify"
       /\ monDev' = IF failed THEN NoEntry
                    ELSE [monDev EXCEPT !.key = NoKey, !.read = NoKey]
  /\ UNCHANGED <<kernelVars, events, marked, sentinels, daemon, listening,
                 mounted_usb, fanVars, boundVars, historyVars>>

(* authorize_usb: an entry that is not blocked is a pre-authorisation. *)
MonitorAuthorize ==
  /\ LockFree /\ monPc = "authorize"
  /\ LET known == unmounted_usb[monDev.node]
         new == [port |-> monDev.port, key |-> monDev.key,
                 auth |-> Authorization(monDev.key, monDev.read)]
         device == IF known # NoEntry /\ known.auth # "Block" THEN known ELSE new
     IN
       /\ unmounted_usb' = [unmounted_usb EXCEPT ![monDev.node] = device]
       /\ monPc' = IF device.auth = "Block" THEN "deauthorize" ELSE "certify"
  /\ monDev' = [monDev EXCEPT !.key = NoKey, !.read = NoKey]
  /\ UNCHANGED <<kernelVars, events, marked, sentinels, daemon, listening,
                 mounted_usb, fanVars, boundVars, historyVars>>

(* Write 0 to the port's "authorized": the kernel disconnects the key. *)
MonitorDeauthorize ==
  /\ monPc = "deauthorize"
  /\ monPc' = "idle" /\ monDev' = NoEntry
  /\ LET p == monDev.port IN
       IF port[p].key = NoKey
       THEN UNCHANGED <<port, events>>
       ELSE /\ port' = [port EXCEPT ![p] = [EmptyPort EXCEPT !.key = port[p].key]]
            /\ Notify(RemoveEvents(p))
  /\ UNCHANGED <<mounts, marked, sentinels, daemon, listening, tableVars,
                 fanVars, boundVars, historyVars>>

(* The event of the device now at the port is still to be read. *)
Awaited(p) ==
  \E i \in 1 .. Len(events) :
    /\ events[i].action = "add" /\ events[i].port = p
    /\ \A j \in i + 1 .. Len(events) :
         events[j].port # p /\ events[j].node # events[i].node

(* The write fails: the error is at most logged, and the key stays.         *)
MonitorDeauthorizeFails ==
  /\ monPc = "deauthorize" /\ port[monDev.port].key # NoKey
  /\ monPc' = "idle" /\ monDev' = NoEntry
  /\ watched' = IF Awaited(monDev.port) THEN watched
                ELSE watched \ {monDev.port}
  /\ UNCHANGED <<kernelVars, events, marked, sentinels, daemon, listening,
                 tableVars, fanVars, boundVars, overridden, unfiltered>>

(* The sentinel, then the "change" event that lets udisks2 see the node. *)
MonitorCertify ==
  /\ monPc = "certify"
  /\ monPc' = "mount"
  /\ sentinels' = sentinels \cup {monDev.node}
  /\ port' = [p \in Ports |-> IF port[p].node = monDev.node
                              THEN [port[p] EXCEPT !.shown = TRUE] ELSE port[p]]
  /\ UNCHANGED <<mounts, events, marked, daemon, listening, tableVars,
                 monDev, fanVars, boundVars, historyVars>>

(* Through udisks2 or directly: whatever key is at the node is mounted. *)
MonitorMount ==
  /\ monPc = "mount"
  /\ KeyAt(monDev.node) # NoKey
  /\ monPc' = "track"
  /\ mounts' = [mounts EXCEPT ![monDev.node] = KeyAt(monDev.node)]
  /\ unfiltered' = unfiltered \ {monDev.node}
  /\ UNCHANGED <<port, events, marked, sentinels, daemon, listening, tableVars,
                 monDev, fanVars, boundVars, watched, overridden>>

(* Both ways of mounting fail; the device stays authorised. *)
MonitorMountFails ==
  /\ monPc = "mount"
  /\ monPc' = "idle" /\ monDev' = NoEntry
  /\ UNCHANGED <<kernelVars, events, marked, sentinels, daemon, listening,
                 tableVars, fanVars, boundVars, historyVars>>

(* update_usb *)
MonitorTrack ==
  /\ LockFree /\ monPc = "track"
  /\ monPc' = "idle" /\ monDev' = NoEntry
  /\ LET n == monDev.node IN
       IF unmounted_usb[n] = NoEntry
       THEN UNCHANGED <<tableVars, marked>>
       ELSE /\ unmounted_usb' = [unmounted_usb EXCEPT ![n] = NoEntry]
            /\ mounted_usb' = [mounted_usb EXCEPT ![n] = unmounted_usb[n]]
            /\ marked' \in MarksAfter(n, unmounted_usb[n].auth)
  /\ UNCHANGED <<kernelVars, events, sentinels, daemon, listening, fanVars,
                 boundVars, historyVars>>

Monitor ==
  \/ MonitorUnplug \/ MonitorRemove \/ MonitorForget
  \/ MonitorIgnore \/ MonitorRead \/ MonitorAuthorize
  \/ MonitorDeauthorize \/ MonitorDeauthorizeFails \/ MonitorCertify
  \/ MonitorMount \/ MonitorMountFails \/ MonitorTrack

------------------------------------------------------------------------------
(* The user, through the D-Bus service. *)

(* override_blocked_usb: the entry is changed, then 1 is written to         *)
(* "authorized", which fails when the port is empty.                        *)
Override(n) ==
  /\ LockFree /\ allow_user_usb_authorization
  /\ unmounted_usb[n] # NoEntry /\ unmounted_usb[n].auth = "Block"
  /\ unmounted_usb' = [unmounted_usb EXCEPT ![n].auth = UserGrant]
  /\ overridden' = overridden \cup {unmounted_usb[n].key}
  /\ LET p == unmounted_usb[n].port IN
       port' = IF port[p].key = NoKey THEN port
               ELSE [port EXCEPT ![p].authorized = TRUE]
  /\ UNCHANGED <<events, mounts, marked, sentinels, daemon, listening,
                 mounted_usb, monVars, fanVars, boundVars, watched,
                 unfiltered>>

(* request_usb_update changes the mark and not the table. *)
RequestUpdate(n, auth) ==
  /\ LockFree
  /\ mounted_usb[n] # NoEntry
  /\ marked' \in MarksAfter(n, auth)
  /\ unfiltered' = IF auth = "Block" THEN unfiltered \cup {n}
                    ELSE unfiltered \ {n}
  /\ UNCHANGED <<kernelVars, events, sentinels, daemon, listening, tableVars,
                 monVars, fanVars, boundVars, watched, overridden>>

User ==
  \E n \in Nodes :
    Override(n) \/ \E auth \in UsbAuthorization : RequestUpdate(n, auth)

------------------------------------------------------------------------------
(* The fanotify thread. *)

(* authorize_file: a file with a station report is allowed, and a directory. *)
FilterAllow(n) ==
  /\ LockFree /\ filtering /\ n \in opening
  /\ opening' = opening \ {n}
  /\ UNCHANGED <<kernelVars, events, marked, sentinels, daemon, listening,
                 tableVars, monVars, asking, filtering, boundVars, historyVars>>

(* Any other file is the user's decision, for which the lock is kept. *)
FilterAsk(n) ==
  /\ LockFree /\ filtering /\ n \in opening
  /\ asking' = n
  /\ UNCHANGED <<kernelVars, events, marked, sentinels, daemon, listening,
                 tableVars, monVars, opening, filtering, boundVars, historyVars>>

(* Mutant: at the end of the delay no answer is written. *)
FilterAnswerExpires ==
  /\ asking # 0
  /\ asking' = 0
  /\ UNCHANGED <<kernelVars, events, marked, sentinels, daemon, listening,
                 tableVars, monVars, opening, filtering, boundVars, historyVars>>

(* Mutant: the lock is not given back. *)
FilterAnswerHolds ==
  /\ asking # 0
  /\ opening' = opening \ {asking}
  /\ UNCHANGED <<kernelVars, events, marked, sentinels, daemon, listening,
                 tableVars, monVars, asking, filtering, boundVars, historyVars>>

(* The user answers or dismisses the dialog, or 30 seconds elapse. *)
FilterAnswer ==
  /\ asking # 0
  /\ opening' = opening \ {asking}
  /\ asking' = 0
  /\ UNCHANGED <<kernelVars, events, marked, sentinels, daemon, listening,
                 tableVars, monVars, filtering, boundVars, historyVars>>

(* A read fails, for another reason than a signal: the thread ends, while   *)
(* the daemon lives on and keeps the marks.                                 *)
FilterStops ==
  /\ daemon # "down" /\ filtering /\ asking = 0
  /\ filtering' = FALSE
  /\ UNCHANGED <<kernelVars, events, marked, sentinels, daemon, listening,
                 tableVars, monVars, opening, asking, boundVars, historyVars>>

Filter ==
  \/ \E n \in Mounts : FilterAllow(n) \/ FilterAsk(n)
  \/ FilterAnswer

------------------------------------------------------------------------------
(* The daemon starts and dies. *)

Start ==
  /\ daemon = "down"
  /\ daemon' = "starting"
  /\ UNCHANGED <<kernelVars, events, marked, sentinels, listening, tableVars,
                 monVars, fanVars, boundVars, historyVars>>

Listen ==
  /\ daemon # "down" /\ ~listening
  /\ listening' = TRUE
  /\ UNCHANGED <<kernelVars, events, marked, sentinels, daemon, tableVars,
                 monVars, fanVars, boundVars, historyVars>>

(* recover_mounted_devices *)
Recoverable(n) == n \in sentinels /\ KeyAt(n) # NoKey /\ mounts[n] # NoKey

(* Mutant: recovered devices are tracked and not marked. *)
RecoverUnmarked ==
  /\ daemon = "starting"
  /\ daemon' = "up"
  /\ sentinels' = {n \in sentinels : KeyAt(n) # NoKey}
  /\ mounted_usb' = [n \in Nodes |->
       IF Recoverable(n)
       THEN [port |-> NoPort, key |-> NoKey, auth |-> UserGrant]
       ELSE NoEntry]
  /\ UNCHANGED <<kernelVars, events, marked, listening, unmounted_usb, monVars,
                 fanVars, boundVars, historyVars>>

Recover ==
  /\ daemon = "starting"
  /\ daemon' = "up"
  /\ sentinels' = {n \in sentinels : KeyAt(n) # NoKey}
  /\ mounted_usb' = [n \in Nodes |->
       IF Recoverable(n)
       THEN [port |-> NoPort, key |-> NoKey, auth |-> UserGrant]
       ELSE NoEntry]
  /\ marked' = {n \in Nodes : Recoverable(n)}
  /\ UNCHANGED <<kernelVars, events, listening, unmounted_usb, monVars,
                 fanVars, boundVars, historyVars>>

(* The kernel drops the marks and lets the pending openings go through. *)
Crash ==
  /\ daemon # "down" /\ crashes < MaxCrashes
  /\ crashes' = crashes + 1
  /\ daemon' = "down" /\ listening' = FALSE
  /\ events' = << >> /\ marked' = {}
  /\ unmounted_usb' = [n \in Nodes |-> NoEntry]
  /\ mounted_usb' = [n \in Nodes |-> NoEntry]
  /\ monPc' = "idle" /\ monDev' = NoEntry
  /\ opening' = {} /\ asking' = 0 /\ filtering' = TRUE
  /\ watched' = {} /\ unfiltered' = {}
  /\ UNCHANGED <<kernelVars, sentinels, plugs, opens, remounts, overridden>>

Daemon == Start \/ Listen \/ Recover \/ Monitor \/ Filter \/ FilterStops

------------------------------------------------------------------------------
Kernel == \E p \in Ports : Enumerate(p)

Next == Environment \/ Kernel \/ User \/ Daemon \/ Crash

Spec == Init /\ [][Next]_vars

(* The threads of the daemon and systemd go on; the fanotify thread may     *)
(* end, which FilterStops does and nothing obliges it to.                   *)
FairSpec ==
  /\ Spec
  /\ WF_vars(Monitor) /\ WF_vars(Filter) /\ WF_vars(Listen)
  /\ WF_vars(Start) /\ WF_vars(Recover)

------------------------------------------------------------------------------
EntryOrNone == Entry \cup {NoEntry}

(* Type invariant of the kernel's, the daemon's and the history variables. *)
UsbTypeOK ==
  /\ port \in [Ports -> [key : Keys \cup {NoKey}, authorized : BOOLEAN,
                         node : Nodes \cup {0}, shown : BOOLEAN]]
  /\ events \in Seq(Event)
  /\ mounts \in [Nodes -> Keys \cup {NoKey}]
  /\ marked \subseteq Mounts /\ sentinels \subseteq Nodes
  /\ daemon \in {"down", "starting", "up"} /\ listening \in BOOLEAN
  /\ unmounted_usb \in [Nodes -> EntryOrNone]
  /\ mounted_usb \in [Nodes -> EntryOrNone]
  /\ monPc \in {"idle", "remove", "authorize", "deauthorize", "certify",
               "mount", "track"}
  /\ monDev \in Work \cup {NoEntry} /\ (monDev = NoEntry <=> monPc = "idle")
  /\ opening \subseteq Mounts /\ asking \in opening \cup {0}
  /\ filtering \in BOOLEAN
  /\ plugs \in 0..MaxPlugs /\ opens \in 0..MaxOpens
  /\ remounts \in 0..MaxRemounts /\ crashes \in 0..MaxCrashes
  /\ watched \subseteq Ports /\ overridden \subseteq Keys
  /\ unfiltered \subseteq Nodes

(* The daemon runs and has treated every event. *)
Quiet == daemon = "up" /\ listening /\ monPc = "idle" /\ events = << >>

Granted(k) ==
  Signature[k] = "valid" \/ disable_unsigned_usb \/ k \in overridden

(* A key with a node that should have none; a signature that cannot be read *)
(* makes the monitor drop the event and leave the key alone, and watched    *)
(* leaves out the keys whose disconnection failed.                          *)
Unwanted(p) ==
  /\ p \in watched /\ port[p].node # 0
  /\ ~Granted(port[p].key) /\ Signature[port[p].key] # "unreadable"

(* Whatever was plugged, pulled out, swapped or overridden while the        *)
(* monitor worked, once it has caught up no refused key is left connected:  *)
(* no authorisation outlives the key it was given for.                      *)
QuietIsClean == Quiet => \A p \in Ports : ~Unwanted(p)

(* Once the monitor has caught up, a device of mounted_usb that this daemon *)
(* mounted is the key at that node now: no entry outlives its device or     *)
(* passes to the next one at the node.                                      *)
QuietIsTracked ==
  Quiet => \A n \in Nodes :
    mounted_usb[n] # NoEntry /\ mounted_usb[n].port # NoPort
      => KeyAt(n) = mounted_usb[n].key

(* The opening of files is filtered on each mount of a tracked device,      *)
(* across removals, re-use of nodes and restarts, unless update_usb is yet  *)
(* to come, the user asked for a block (which takes the mark away) or the   *)
(* desktop made the mount.                                                  *)
MountedIsMarked ==
  daemon = "up" => \A n \in Nodes :
    /\ mounted_usb[n] # NoEntry /\ mounts[n] # NoKey
    /\ ~(monPc = "track" /\ monDev.node = n)
    /\ n \notin unfiltered
    => n \in marked

(* After an override, the key ends up authorised, the record it left in     *)
(* unmounted_usb serving for its next "add" event: what the documentation   *)
(* of override_blocked_usb says.                                            *)
OverrideIsKept ==
  Quiet => \A p \in Ports : port[p].key \in overridden => port[p].authorized

(* A refused key is disconnected, overridden, or pulled out, though the     *)
(* monitor waits for the lock a dialog may hold, or the daemon dies; the    *)
(* error of the write that disconnects it is the one exception.             *)
RefusedIsDisconnected == \A p \in Ports : Unwanted(p) ~> ~Unwanted(p)

(* The opening of a file is answered, or let go by the kernel when the      *)
(* daemon dies, whatever dialogs come before it, as long as the fanotify    *)
(* thread reads.  Once a read error has ended that thread, what is opened   *)
(* on a marked mount waits as long as the daemon lives.                     *)
EveryOpenIsAnswered ==
  \A n \in Mounts : n \in opening ~> n \notin opening \/ ~filtering
=============================================================================
