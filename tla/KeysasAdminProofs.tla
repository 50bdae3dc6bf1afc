-------------------------- MODULE KeysasAdminProofs --------------------------
(***************************************************************************)
(* What is proved of keysas-admin: the types, the enrolment of stations    *)
(* and the signing of USB keys, whatever commands run at the same time.    *)
(***************************************************************************)
EXTENDS KeysasAdmin, FiniteSetTheorems, TLAPS

------------------------------------------------------------------------------
(* The store, and the files of the directories: no file comes from a PKI    *)
(* that was not generated.                                                  *)
CaNames == {"root", "st", "usb"}
FileNames == {"cl.p8", "pq.p8", "cl.pem", "pq.pem"}
KindNames == {"file-cl", "file-pq", "usb-cl", "usb-pq"}

Store ==
  /\ rows \in [Orgs -> Dirs \cup {NoDir}]
  /\ issued \in Seq(Orgs) /\ Len(issued) \in 1 .. commands + 1
  /\ pki \in [Dirs -> [CaNames -> [FileNames -> 0 .. Len(issued)]]]
  /\ commands \in 0 .. MaxCommands /\ adminFailures \in 0 .. AdminMaxFailures

(* The stations' keys and certificates. *)
FileCerts(n) == {NoCert} \cup [half : Halves, of : 1 .. n, by : Pkis]
UsbCerts == {NoCert} \cup [half : Halves, of : Pkis, by : Pkis]

Keyed ==
  /\ keygens \in Nat
  /\ station \in [Stations -> [key : [Halves -> 0 .. keygens],
                               certs : [KindNames -> FileCerts(keygens) \cup UsbCerts]]]
  /\ signer \in [Stations -> [key : [Halves -> 0 .. keygens],
                              certs : [Halves -> FileCerts(keygens)]]]
  /\ \A s \in Stations, h \in Halves :
       /\ station[s].certs[KindOf("file", h)] \in FileCerts(keygens)
       /\ station[s].certs[KindOf("usb", h)] \in UsbCerts
  /\ enrolled \subseteq Stations

Stuck ==
  /\ stick \in [Sticks -> [size : {"none", "sign", "revoke"}, text : Pairs]]
  /\ lastSaid \in [Sticks -> Pairs] /\ doubted \subseteq Sticks

(* What a command has loaded is of a PKI that was generated, and its key of *)
(* a generation that took place.                                            *)
Sound(j, pkis, keys) ==
  /\ j.do = "generate" => j.pki \in 1 .. pkis
  /\ j.do = "init" =>
       /\ j.at # "generate" => j.key \in 1 .. keys
       /\ j.at \in {"usb", "load", "restart"} => j.ca \in [Halves -> Pkis]
       /\ j.at \in {"load", "restart"} => j.usb \in [Halves -> Pkis]
       /\ j.at \in {"generate", "st", "usb"} => j.next = 1
  /\ j.do \in {"sign", "revoke"} => (j.on = NoStick) = (j.at = "watch")
  /\ j.do = "revoke" => j.text = NoPair /\ j.at # "open"

Working ==
  task \in [Tasks -> Jobs] /\ \A t \in Tasks : Sound(task[t], Len(issued), keygens)

(* Each init_keysas generates keys once. *)
Pending == {t \in Tasks : task[t].do = "init" /\ task[t].at = "generate"}
Counted == IsFiniteSet(Pending) /\ Cardinality(Pending) + keygens <= commands

AdminShape == Store /\ Keyed /\ Stuck /\ Working /\ Counted

------------------------------------------------------------------------------
(* What an enrolment that is alone at its station has sent is what the      *)
(* station has; all the PKI files it loaded are of one.                     *)
Sent(j, i) == i < j.next \/ (i = j.next /\ j.at = "restart")

Enrols(t) ==
  LET j == task[t] IN
  /\ station[j.on].key = [h \in Halves |-> j.key]
  /\ j.at \in {"load", "restart"} =>
       /\ \E g \in Pkis : j.ca = [h \in Halves |-> g] /\ j.usb = [h \in Halves |-> g]
       /\ \A i \in 1 .. 4 : Sent(j, i) =>
            station[j.on].certs[Kinds[i]] = Certificate(j, Kinds[i])

(* The station has what it signs with, and the signer has loaded it. *)
Ready(s) ==
  /\ signer[s] = Loaded(s)
  /\ \E g \in Pkis : \A h \in Halves :
       /\ station[s].key[h] # 0
       /\ station[s].certs[KindOf("file", h)]
            = [half |-> h, of |-> station[s].key[h], by |-> g]
       /\ station[s].certs[KindOf("usb", h)] = [half |-> h, of |-> g, by |-> g]

Enrolment ==
  /\ \A t \in Tasks, s \in Stations :
       Enrolling(t, s) =>
         /\ s \notin enrolled
         /\ task[t].alone =>
              Enrols(t) /\ \A u \in Tasks \ {t} : ~Enrolling(u, s)
  /\ \A s \in enrolled : Ready(s)

(* A key written to is in doubt until a command that has it for itself is   *)
(* through; then it has the size and the text of that command.              *)
Signing ==
  /\ \A k \in Sticks : \A t \in Writing(k) :
       /\ task[t].alone => Writing(k) = {t}
       /\ task[t].at = "text" =>
            k \in doubted /\ (task[t].alone => stick[k].size = task[t].do)
  /\ \A k \in Sticks \ doubted :
       /\ stick[k].text = lastSaid[k]
       /\ stick[k].size = "sign" \/ lastSaid[k] = NoPair

------------------------------------------------------------------------------
(* The tables of names, and the kinds of command.                           *)

LEMMA NamesAre ==
  /\ \A i \in 1 .. 3 : Cas[i] \in CaNames
  /\ \A n \in 1 .. 4 : Files[n] \in FileNames /\ Kinds[n] \in KindNames
  /\ \A h \in Halves : FilesOf(h).p8 \in FileNames /\ FilesOf(h).pem \in FileNames
  /\ \A f \in FileNames : \E n \in 1 .. 4 : Files[n] = f
<1>1. 1 .. 3 = {1, 2, 3} /\ 1 .. 4 = {1, 2, 3, 4}
  OBVIOUS
<1>2. \A i \in 1 .. 3 : Cas[i] \in CaNames
  BY <1>1 DEF Cas, CaNames
<1>3. \A n \in 1 .. 4 : Files[n] \in FileNames
  BY <1>1 DEF Files, FileNames
<1>4. \A n \in 1 .. 4 : Kinds[n] \in KindNames
  BY <1>1 DEF Kinds, KindNames
<1>5. \A h \in Halves : FilesOf(h).p8 \in FileNames /\ FilesOf(h).pem \in FileNames
  BY DEF FilesOf, FileNames, Halves
<1>6. \A f \in FileNames : \E n \in 1 .. 4 : Files[n] = f
  BY <1>1 DEF Files, FileNames
<1> QED
  BY <1>2, <1>3, <1>4, <1>5, <1>6

LEMMA KindsAre ==
  /\ KindOf("file", "cl") = "file-cl" /\ KindOf("file", "pq") = "file-pq"
  /\ KindOf("usb", "cl") = "usb-cl" /\ KindOf("usb", "pq") = "usb-pq"
  /\ Kinds[1] = "file-cl" /\ Kinds[2] = "file-pq"
  /\ Kinds[3] = "usb-cl" /\ Kinds[4] = "usb-pq"
BY DEF KindOf, Kinds

LEMMA JobIs ==
  ASSUME NEW j \in Jobs
  PROVE  /\ j = Idle <=> j.do = "nothing"
         /\ j.do = "generate" => j \in GenerateJobs
         /\ j.do = "restore" => j \in RestoreJobs
         /\ j.do = "init" => j \in InitJobs
         /\ j.do \in {"sign", "revoke"} => j \in StickJobs
BY DEF Jobs, Idle, GenerateJobs, RestoreJobs, InitJobs, StickJobs

LEMMA IdleIs == Idle \in Jobs /\ Idle.do = "nothing"
                /\ \A p, k : Sound(Idle, p, k)
BY DEF Jobs, Idle, Sound

LEMMA SoundGrows ==
  ASSUME NEW j \in Jobs, NEW p \in Nat, NEW k \in Nat, NEW p2 \in Nat, NEW k2 \in Nat,
         p <= p2, k <= k2, Sound(j, p, k)
  PROVE  Sound(j, p2, k2)
<1>1. 1 .. p \subseteq 1 .. p2 /\ 1 .. k \subseteq 1 .. k2
  OBVIOUS
<1> QED
  BY <1>1 DEF Sound

LEMMA AdminBounds == MaxCommands \in Nat /\ AdminMaxFailures \in Nat /\ NoDir \notin Dirs
                     /\ FirstOrg \in Orgs /\ FirstDir \in Dirs \cup {NoDir}
BY AdminAssumption

LEMMA NumbersAre ==
  ASSUME AdminShape
  PROVE  /\ Len(issued) \in Nat /\ Len(issued) \in 1 .. commands + 1
         /\ commands \in Nat /\ commands <= MaxCommands
         /\ adminFailures \in Nat /\ keygens \in Nat
         /\ 0 .. Len(issued) \subseteq {0} \cup Pkis /\ 1 .. Len(issued) \subseteq Pkis
         /\ keygens <= commands
<1>1. Len(issued) \in 1 .. commands + 1 /\ commands \in 0 .. MaxCommands
      /\ adminFailures \in 0 .. AdminMaxFailures /\ keygens \in Nat
  BY DEF AdminShape, Store, Keyed
<1>2. commands \in Nat /\ commands <= MaxCommands /\ adminFailures \in Nat
      /\ Len(issued) \in Nat
  BY <1>1, AdminBounds
<1>3. 0 .. Len(issued) \subseteq {0} \cup Pkis /\ 1 .. Len(issued) \subseteq Pkis
  BY <1>1, <1>2, AdminBounds DEF Pkis
<1>4. keygens <= commands
  <2>1. Cardinality(Pending) \in Nat /\ Cardinality(Pending) + keygens <= commands
    BY FS_CardinalityType DEF AdminShape, Counted
  <2> QED
    BY <1>1, <1>2, <2>1
<1> QED
  BY <1>1, <1>2, <1>3, <1>4

------------------------------------------------------------------------------
(* The initial state.                                                       *)
LEMMA AdminInitShape == AdminInit => AdminShape
<1> SUFFICES ASSUME AdminInit PROVE AdminShape
  OBVIOUS
<1>1. Store
  <2>1. issued \in Seq(Orgs) /\ Len(issued) = 1
    BY AdminBounds DEF AdminInit
  <2>2. pki \in [Dirs -> [CaNames -> [FileNames -> 0 .. Len(issued)]]]
    BY <2>1 DEF AdminInit, CaNames, FileNames
  <2>3. rows \in [Orgs -> Dirs \cup {NoDir}]
    BY AdminBounds DEF AdminInit
  <2>4. /\ Len(issued) \in 1 .. commands + 1 /\ commands \in 0 .. MaxCommands
        /\ adminFailures \in 0 .. AdminMaxFailures
    BY <2>1, AdminBounds DEF AdminInit
  <2> QED
    BY <2>1, <2>2, <2>3, <2>4 DEF Store
<1>2. Keyed
  <2>1. NoPair \in [Halves -> 0 .. 0]
    BY DEF NoPair
  <2>2. [h \in Halves |-> NoCert] \in [Halves -> FileCerts(0)]
    BY DEF FileCerts
  <2>3. [k \in {"file-cl", "file-pq", "usb-cl", "usb-pq"} |-> NoCert]
          \in [KindNames -> FileCerts(0) \cup UsbCerts]
    BY DEF KindNames, FileCerts
  <2>4. \A s \in Stations, h \in Halves :
          /\ station[s].certs[KindOf("file", h)] = NoCert
          /\ station[s].certs[KindOf("usb", h)] = NoCert
    BY KindsAre DEF AdminInit, Halves
  <2>5. NoCert \in FileCerts(0) /\ NoCert \in UsbCerts
    BY DEF FileCerts, UsbCerts
  <2>6. station \in [Stations -> [key : [Halves -> 0 .. 0],
                                  certs : [KindNames -> FileCerts(0) \cup UsbCerts]]]
    BY <2>1, <2>3 DEF AdminInit
  <2>7. signer \in [Stations -> [key : [Halves -> 0 .. 0],
                                 certs : [Halves -> FileCerts(0)]]]
    BY <2>1, <2>2 DEF AdminInit
  <2>8. keygens = 0 /\ enrolled = {}
    BY DEF AdminInit
  <2> QED
    BY <2>4, <2>5, <2>6, <2>7, <2>8 DEF Keyed
<1>3. Stuck
  <2>1. NoPair \in Pairs
    BY DEF NoPair, Pairs
  <2> QED
    BY <2>1 DEF AdminInit, Stuck
<1>4. Working
  BY IdleIs DEF AdminInit, Working
<1>5. Counted
  <2>1. \A t \in Tasks : task[t].do = "nothing"
    BY IdleIs DEF AdminInit
  <2>2. Pending = {}
    BY <2>1 DEF Pending
  <2> QED
    BY <2>2, FS_EmptySet DEF Counted, AdminInit
<1> QED
  BY <1>1, <1>2, <1>3, <1>4, <1>5 DEF AdminShape

------------------------------------------------------------------------------
(* Which commands touch what.                                               *)

LEMMA BoundSteps ==
  ASSUME AdminNext
  PROVE  \/ UNCHANGED boundVars
         \/ Command
         \/ /\ adminFailures < AdminMaxFailures
            /\ adminFailures' = adminFailures + 1 /\ UNCHANGED commands
<1>1. CASE del_pki
  BY <1>1 DEF del_pki
<1>2. ASSUME NEW t \in Tasks,
             \/ \E o \in Orgs, d \in Dirs : generate_pki_in_dir(t, o, d)
             \/ \E d \in Dirs : restore_pki(t, d)
             \/ \E s \in Stations : init_keysas(t, s)
             \/ \E do \in {"sign", "revoke"} : watch_new_usb(t, do)
      PROVE  Command
  BY <1>2 DEF generate_pki_in_dir, restore_pki, init_keysas, watch_new_usb, Takes
<1>3. ASSUME NEW t \in Tasks, GenerateKeysFails(t) \/ Fail(t)
      PROVE  /\ adminFailures < AdminMaxFailures
             /\ adminFailures' = adminFailures + 1 /\ UNCHANGED commands
  BY <1>3 DEF GenerateKeysFails, Fail
<1>4. ASSUME NEW t \in Tasks, SendCertificate(t)
      PROVE  \/ UNCHANGED boundVars
             \/ /\ adminFailures < AdminMaxFailures
                /\ adminFailures' = adminFailures + 1 /\ UNCHANGED commands
  BY <1>4 DEF SendCertificate, boundVars
<1>5. ASSUME NEW t \in Tasks,
             \/ SaveKeys(t) \/ RestoreDrops(t) \/ RestoreStores(t) \/ GenerateKeys(t)
             \/ LoadStationCa(t) \/ LoadUsbCa(t) \/ LoadFails(t) \/ RestartKeysas(t)
             \/ SignDevice(t) \/ WriteSize(t) \/ WriteText(t)
      PROVE  UNCHANGED boundVars
  BY <1>5 DEF SaveKeys, RestoreDrops, RestoreStores, GenerateKeys, LoadStationCa, LoadUsbCa,
              LoadFails, RestartKeysas, SignDevice, WriteSize, WriteText
<1>6. ASSUME NEW s \in Stations, SignerRestarts(s)
      PROVE  UNCHANGED boundVars
  BY <1>6 DEF SignerRestarts
<1>7. ASSUME NEW k \in Sticks, Plug(k)
      PROVE  UNCHANGED boundVars
  BY <1>7 DEF Plug
<1> QED
  BY <1>1, <1>2, <1>3, <1>4, <1>5, <1>6, <1>7 DEF AdminNext

LEMMA StoreSteps ==
  ASSUME AdminNext
  PROVE  \/ UNCHANGED storeVars
         \/ del_pki
         \/ \E t \in Tasks :
              \/ \E o \in Orgs, d \in Dirs : generate_pki_in_dir(t, o, d)
              \/ SaveKeys(t) \/ RestoreDrops(t) \/ RestoreStores(t) \/ Fail(t)
<1>1. ASSUME NEW t \in Tasks,
             \/ \E d \in Dirs : restore_pki(t, d)
             \/ \E s \in Stations : init_keysas(t, s)
             \/ GenerateKeys(t) \/ GenerateKeysFails(t)
             \/ LoadStationCa(t) \/ LoadUsbCa(t) \/ LoadFails(t)
             \/ SendCertificate(t) \/ RestartKeysas(t)
             \/ \E do \in {"sign", "revoke"} : watch_new_usb(t, do)
             \/ SignDevice(t) \/ WriteSize(t) \/ WriteText(t)
      PROVE  UNCHANGED storeVars
  BY <1>1 DEF restore_pki, init_keysas, GenerateKeys, GenerateKeysFails, LoadStationCa,
              LoadUsbCa, LoadFails, SendCertificate, RestartKeysas, watch_new_usb,
              SignDevice, WriteSize, WriteText
<1>2. ASSUME NEW s \in Stations, SignerRestarts(s)
      PROVE  UNCHANGED storeVars
  BY <1>2 DEF SignerRestarts
<1>3. ASSUME NEW k \in Sticks, Plug(k)
      PROVE  UNCHANGED storeVars
  BY <1>3 DEF Plug
<1> QED
  BY <1>1, <1>2, <1>3 DEF AdminNext

LEMMA KeySteps ==
  ASSUME AdminNext
  PROVE  \/ UNCHANGED enrolVars
         \/ \E t \in Tasks : \/ GenerateKeys(t) \/ GenerateKeysFails(t)
                             \/ SendCertificate(t) \/ RestartKeysas(t)
         \/ \E s \in Stations : SignerRestarts(s)
<1>1. ASSUME NEW t \in Tasks,
             \/ \E o \in Orgs, d \in Dirs : generate_pki_in_dir(t, o, d)
             \/ SaveKeys(t)
             \/ \E d \in Dirs : restore_pki(t, d)
             \/ RestoreDrops(t) \/ RestoreStores(t)
             \/ \E s \in Stations : init_keysas(t, s)
             \/ LoadStationCa(t) \/ LoadUsbCa(t) \/ LoadFails(t)
             \/ \E do \in {"sign", "revoke"} : watch_new_usb(t, do)
             \/ SignDevice(t) \/ WriteSize(t) \/ WriteText(t) \/ Fail(t)
      PROVE  UNCHANGED enrolVars
  BY <1>1 DEF generate_pki_in_dir, SaveKeys, restore_pki, RestoreDrops, RestoreStores,
              init_keysas, LoadStationCa, LoadUsbCa, LoadFails, watch_new_usb, SignDevice,
              WriteSize, WriteText, Fail
<1>2. CASE del_pki
  BY <1>2 DEF del_pki
<1>3. ASSUME NEW k \in Sticks, Plug(k)
      PROVE  UNCHANGED enrolVars
  BY <1>3 DEF Plug
<1> QED
  BY <1>1, <1>2, <1>3 DEF AdminNext

LEMMA StickSteps ==
  ASSUME AdminNext
  PROVE  UNCHANGED stickVars \/ \E t \in Tasks : WriteSize(t) \/ WriteText(t)
<1>1. ASSUME NEW t \in Tasks,
             \/ \E o \in Orgs, d \in Dirs : generate_pki_in_dir(t, o, d)
             \/ SaveKeys(t)
             \/ \E d \in Dirs : restore_pki(t, d)
             \/ RestoreDrops(t) \/ RestoreStores(t)
             \/ \E s \in Stations : init_keysas(t, s)
             \/ GenerateKeys(t) \/ GenerateKeysFails(t)
             \/ LoadStationCa(t) \/ LoadUsbCa(t) \/ LoadFails(t)
             \/ SendCertificate(t) \/ RestartKeysas(t)
             \/ \E do \in {"sign", "revoke"} : watch_new_usb(t, do)
             \/ SignDevice(t) \/ Fail(t)
      PROVE  UNCHANGED stickVars
  BY <1>1 DEF generate_pki_in_dir, SaveKeys, restore_pki, RestoreDrops, RestoreStores,
              init_keysas, GenerateKeys, GenerateKeysFails, LoadStationCa, LoadUsbCa,
              LoadFails, SendCertificate, RestartKeysas, watch_new_usb, SignDevice, Fail
<1>2. CASE del_pki
  BY <1>2 DEF del_pki
<1>3. ASSUME NEW s \in Stations, SignerRestarts(s)
      PROVE  UNCHANGED stickVars
  BY <1>3 DEF SignerRestarts
<1>4. ASSUME NEW k \in Sticks, Plug(k)
      PROVE  UNCHANGED stickVars
  BY <1>4 DEF Plug
<1> QED
  BY <1>1, <1>2, <1>3, <1>4 DEF AdminNext

LEMMA CommandsGrow ==
  ASSUME AdminShape, AdminNext
  PROVE  /\ commands' \in 0 .. MaxCommands /\ adminFailures' \in 0 .. AdminMaxFailures
         /\ commands <= commands' /\ commands' \in Nat
<1>1. commands \in 0 .. MaxCommands /\ adminFailures \in 0 .. AdminMaxFailures
  BY DEF AdminShape, Store
<1>2. CASE UNCHANGED boundVars
  BY <1>1, <1>2, AdminBounds DEF boundVars
<1>3. CASE Command
  BY <1>1, <1>3, AdminBounds DEF Command
<1>4. CASE /\ adminFailures < AdminMaxFailures
           /\ adminFailures' = adminFailures + 1 /\ UNCHANGED commands
  BY <1>1, <1>4, AdminBounds
<1> QED
  BY <1>2, <1>3, <1>4, BoundSteps

------------------------------------------------------------------------------
(* The types are kept: the store and the directories.                       *)

PkiFiles(n) == [Dirs -> [CaNames -> [FileNames -> 0 .. n]]]

LEMMA PkiGrows ==
  ASSUME NEW n \in Nat, NEW m \in Nat, n <= m
  PROVE  PkiFiles(n) \subseteq PkiFiles(m)
<1>1. 0 .. n \subseteq 0 .. m
  OBVIOUS
<1>2. [FileNames -> 0 .. n] \subseteq [FileNames -> 0 .. m]
  BY <1>1
<1>3. [CaNames -> [FileNames -> 0 .. n]] \subseteq [CaNames -> [FileNames -> 0 .. m]]
  BY <1>2
<1> QED
  BY <1>3 DEF PkiFiles

LEMMA PkiSaves ==
  ASSUME NEW n \in Nat, NEW files \in PkiFiles(n), NEW d \in Dirs, NEW ca \in CaNames,
         NEW g \in 1 .. n, NEW k
  PROVE  [files EXCEPT ![d][ca] = Saved(@, g, k)] \in PkiFiles(n)
<1>1. files[d] \in [CaNames -> [FileNames -> 0 .. n]]
  BY DEF PkiFiles
<1>2. files[d][ca] \in [FileNames -> 0 .. n]
  BY <1>1
<1>3. Saved(files[d][ca], g, k) \in [FileNames -> 0 .. n]
  <2>1. g \in 0 .. n
    OBVIOUS
  <2> QED
    BY <1>2, <2>1 DEF Saved
<1>4. [files[d] EXCEPT ![ca] = Saved(@, g, k)] \in [CaNames -> [FileNames -> 0 .. n]]
  BY <1>1, <1>3
<1> QED
  BY <1>4 DEF PkiFiles

LEMMA StoreStays == AdminShape /\ AdminNext => Store'
<1> SUFFICES ASSUME AdminShape, AdminNext PROVE Store'
  OBVIOUS
<1>0. Store /\ Working
  BY DEF AdminShape
<1>1. /\ commands' \in 0 .. MaxCommands /\ adminFailures' \in 0 .. AdminMaxFailures
      /\ commands \in Nat /\ commands' \in Nat /\ commands <= commands'
      /\ Len(issued) \in Nat /\ Len(issued) \in 1 .. commands + 1
  BY CommandsGrow, NumbersAre
<1>2. Len(issued) \in 1 .. commands' + 1
  BY <1>1
<1>3. CASE UNCHANGED storeVars
  BY <1>0, <1>1, <1>2, <1>3 DEF Store, storeVars
<1>4. CASE del_pki
  BY <1>0, <1>1, <1>2, <1>4 DEF del_pki, Store
<1>5. ASSUME NEW t \in Tasks, NEW o \in Orgs, NEW d \in Dirs, generate_pki_in_dir(t, o, d)
      PROVE  Store'
  <2>1. /\ rows' = [rows EXCEPT ![o] = d] /\ issued' = Append(issued, o) /\ UNCHANGED pki
        /\ commands' = commands + 1
    BY <1>5 DEF generate_pki_in_dir, Takes, Command
  <2>2. issued' \in Seq(Orgs) /\ Len(issued') = Len(issued) + 1
    BY <1>0, <2>1 DEF Store
  <2>3. Len(issued') \in 1 .. commands' + 1 /\ Len(issued') \in Nat
    BY <1>1, <2>1, <2>2
  <2>4. pki' \in PkiFiles(Len(issued'))
    <3>1. pki \in PkiFiles(Len(issued))
      BY <1>0 DEF Store, PkiFiles
    <3>2. PkiFiles(Len(issued)) \subseteq PkiFiles(Len(issued'))
      BY <1>1, <2>2, <2>3, PkiGrows
    <3> QED
      BY <2>1, <3>1, <3>2
  <2>5. rows' \in [Orgs -> Dirs \cup {NoDir}]
    BY <1>0, <2>1 DEF Store
  <2> QED
    BY <1>1, <2>2, <2>3, <2>4, <2>5 DEF Store, PkiFiles
<1>6. ASSUME NEW t \in Tasks, SaveKeys(t) \/ (Fail(t) /\ task[t].do = "generate")
      PROVE  Store'
  <2>1. task[t] \in GenerateJobs /\ task[t].pki \in 1 .. Len(issued)
    <3>1. task[t] \in Jobs /\ task[t].do = "generate" /\ Sound(task[t], Len(issued), keygens)
      BY <1>0, <1>6 DEF Working, SaveKeys
    <3> QED
      BY <3>1, JobIs DEF Sound
  <2>2. PICK n : pki' = [pki EXCEPT ![task[t].dir][Cas[task[t].at]]
                           = Saved(@, task[t].pki, n)]
    BY <1>6 DEF SaveKeys, Fail
  <2>3. task[t].dir \in Dirs /\ Cas[task[t].at] \in CaNames
    BY <2>1, NamesAre DEF GenerateJobs
  <2>4. pki' \in PkiFiles(Len(issued))
    <3>1. pki \in PkiFiles(Len(issued))
      BY <1>0 DEF Store, PkiFiles
    <3> QED
      BY <1>1, <2>1, <2>2, <2>3, <3>1, PkiSaves
  <2>5. UNCHANGED <<rows, issued>>
    BY <1>6 DEF SaveKeys, Fail
  <2> QED
    BY <1>0, <1>1, <1>2, <2>4, <2>5 DEF Store, PkiFiles
<1>7. ASSUME NEW t \in Tasks, Fail(t), task[t].do # "generate"
      PROVE  Store'
  BY <1>0, <1>1, <1>2, <1>7 DEF Fail, Store
<1>8. ASSUME NEW t \in Tasks, RestoreDrops(t) \/ RestoreStores(t)
      PROVE  Store'
  <2>1. task[t] \in RestoreJobs
    BY <1>0, <1>8, JobIs DEF Working, RestoreDrops, RestoreStores
  <2>2. rows' \in [Orgs -> Dirs \cup {NoDir}]
    <3>1. CASE RestoreDrops(t)
      BY <3>1 DEF RestoreDrops
    <3>2. CASE RestoreStores(t)
      BY <1>0, <2>1, <3>2 DEF RestoreStores, RestoreJobs, Store
    <3> QED
      BY <1>8, <3>1, <3>2
  <2>3. UNCHANGED <<issued, pki>>
    BY <1>8 DEF RestoreDrops, RestoreStores
  <2> QED
    BY <1>0, <1>1, <1>2, <2>2, <2>3 DEF Store
<1> QED
  BY <1>3, <1>4, <1>5, <1>6, <1>7, <1>8, StoreSteps

LEMMA GenerationsGrow ==
  ASSUME AdminShape, AdminNext
  PROVE  Len(issued) <= Len(issued') /\ Len(issued') \in Nat
<1>1. issued \in Seq(Orgs) /\ Len(issued) \in Nat
  BY DEF AdminShape, Store
<1>2. issued' = issued \/ \E o \in Orgs : issued' = Append(issued, o)
  BY StoreSteps DEF storeVars, del_pki, generate_pki_in_dir, SaveKeys, RestoreDrops,
                    RestoreStores, Fail
<1> QED
  BY <1>1, <1>2

------------------------------------------------------------------------------
(* The stations' keys and certificates.                                     *)

OnStation(n) == [key : [Halves -> 0 .. n], certs : [KindNames -> FileCerts(n) \cup UsbCerts]]
InSigner(n) == [key : [Halves -> 0 .. n], certs : [Halves -> FileCerts(n)]]

LEMMA CertsGrow ==
  ASSUME NEW n \in Nat
  PROVE  /\ FileCerts(n) \subseteq FileCerts(n + 1)
         /\ OnStation(n) \subseteq OnStation(n + 1)
         /\ InSigner(n) \subseteq InSigner(n + 1)
<1>1. 1 .. n \subseteq 1 .. n + 1 /\ 0 .. n \subseteq 0 .. n + 1
  OBVIOUS
<1>2. FileCerts(n) \subseteq FileCerts(n + 1)
  BY <1>1 DEF FileCerts
<1>3. [Halves -> 0 .. n] \subseteq [Halves -> 0 .. n + 1]
  BY <1>1
<1>4. [KindNames -> FileCerts(n) \cup UsbCerts]
        \subseteq [KindNames -> FileCerts(n + 1) \cup UsbCerts]
  BY <1>2
<1>5. [Halves -> FileCerts(n)] \subseteq [Halves -> FileCerts(n + 1)]
  BY <1>2
<1> QED
  BY <1>2, <1>3, <1>4, <1>5 DEF OnStation, InSigner

LEMMA InitJobIs ==
  ASSUME AdminShape, NEW t \in Tasks, task[t].do = "init"
  PROVE  task[t] \in InitJobs /\ Sound(task[t], Len(issued), keygens)
BY JobIs DEF AdminShape, Working

LEMMA LoadedType ==
  ASSUME Keyed, NEW s \in Stations
  PROVE  Loaded(s) \in InSigner(keygens)
<1>1. CASE Loaded(s) = [key |-> NoPair, certs |-> [h \in Halves |-> NoCert]]
  <2>1. NoPair \in [Halves -> 0 .. keygens] /\ NoCert \in FileCerts(keygens)
    BY DEF Keyed, NoPair, FileCerts
  <2> QED
    BY <1>1, <2>1 DEF InSigner
<1>2. CASE Loaded(s) = [key |-> station[s].key,
                        certs |-> [h \in Halves |-> station[s].certs[KindOf("file", h)]]]
  <2>1. station[s].key \in [Halves -> 0 .. keygens]
    BY DEF Keyed
  <2>2. [h \in Halves |-> station[s].certs[KindOf("file", h)]]
          \in [Halves -> FileCerts(keygens)]
    BY DEF Keyed
  <2> QED
    BY <1>2, <2>1, <2>2 DEF InSigner
<1> QED
  BY <1>1, <1>2 DEF Loaded

LEMMA Rekeys ==
  ASSUME AdminShape, NEW t \in Tasks, GenerateKeys(t) \/ GenerateKeysFails(t)
  PROVE  /\ task[t].do = "init" /\ task[t].at = "generate" /\ task[t].on \in Stations
         /\ keygens' = keygens + 1 /\ keygens' \in Nat
         /\ enrolled' = enrolled \ {task[t].on}
         /\ UNCHANGED <<signer, storeVars, stickVars>>
         /\ \E k \in [Halves -> 0 .. keygens'] :
              station' = [station EXCEPT ![task[t].on].key = k]
<1>1. task[t].do = "init" /\ task[t].at = "generate" /\ UNCHANGED <<signer, storeVars, stickVars>>
      /\ keygens' = keygens + 1 /\ enrolled' = enrolled \ {task[t].on}
  BY DEF GenerateKeys, GenerateKeysFails, Rekeyed
<1>2. task[t].on \in Stations
  BY <1>1, InitJobIs DEF InitJobs
<1>3. keygens \in Nat /\ keygens' \in Nat
  BY <1>1 DEF AdminShape, Keyed
<1>4. \E k \in [Halves -> 0 .. keygens'] : station' = [station EXCEPT ![task[t].on].key = k]
  <2>1. CASE GenerateKeys(t)
    <3>1. station' = [station EXCEPT ![task[t].on].key = [h \in Halves |-> keygens + 1]]
      BY <2>1 DEF GenerateKeys
    <3>2. [h \in Halves |-> keygens + 1] \in [Halves -> 0 .. keygens']
      BY <1>1, <1>3
    <3> QED
      BY <3>1, <3>2
  <2>2. CASE GenerateKeysFails(t)
    <3> DEFINE k == [station[task[t].on].key EXCEPT !["cl"] = keygens + 1]
    <3>1. station' = [station EXCEPT ![task[t].on].key = k]
      BY <2>2 DEF GenerateKeysFails
    <3>2. station[task[t].on].key \in [Halves -> 0 .. keygens]
      BY <1>2 DEF AdminShape, Keyed
    <3>3. 0 .. keygens \subseteq 0 .. keygens' /\ keygens + 1 \in 0 .. keygens'
      BY <1>1, <1>3
    <3>4. k \in [Halves -> 0 .. keygens']
      BY <3>2, <3>3
    <3> QED
      BY <3>1, <3>4
  <2> QED
    BY <2>1, <2>2
<1> QED
  BY <1>1, <1>2, <1>3, <1>4

LEMMA CertificateType ==
  ASSUME AdminShape, NEW t \in Tasks, task[t].do = "init", task[t].at = "load"
  PROVE  LET j == task[t]
             kind == Kinds[j.next]
         IN /\ kind \in KindNames
            /\ Certificate(j, kind) \in FileCerts(keygens) \cup UsbCerts
            /\ \A h \in Halves :
                 /\ kind = KindOf("file", h) => Certificate(j, kind) \in FileCerts(keygens)
                 /\ kind = KindOf("usb", h) => Certificate(j, kind) \in UsbCerts
<1> DEFINE j == task[t]
           kind == Kinds[j.next]
<1>1. j.next \in 1 .. 4 /\ j.key \in 1 .. keygens /\ j.ca \in [Halves -> Pkis]
      /\ j.usb \in [Halves -> Pkis]
  BY InitJobIs DEF InitJobs, Sound
<1>2. kind \in KindNames
  BY <1>1, NamesAre
<1> HIDE DEF j, kind
<1>3. CASE kind \in {"file-cl", "file-pq"}
  <2>1. PICK h \in Halves : Certificate(j, kind) = [half |-> h, of |-> j.key, by |-> j.ca[h]]
    BY <1>3 DEF Certificate, Halves
  <2>2. Certificate(j, kind) \in FileCerts(keygens)
    BY <1>1, <2>1 DEF FileCerts
  <2>3. \A hh \in Halves : kind # KindOf("usb", hh)
    BY <1>3, KindsAre DEF Halves
  <2> QED
    BY <1>2, <2>2, <2>3 DEF j, kind
<1>4. CASE kind \in {"usb-cl", "usb-pq"}
  <2>1. PICK h \in Halves : Certificate(j, kind) = [half |-> h, of |-> j.usb[h], by |-> j.usb[h]]
    BY <1>4 DEF Certificate, Halves
  <2>2. Certificate(j, kind) \in UsbCerts
    BY <1>1, <2>1 DEF UsbCerts
  <2>3. \A hh \in Halves : kind # KindOf("file", hh)
    BY <1>4, KindsAre DEF Halves
  <2> QED
    BY <1>2, <2>2, <2>3 DEF j, kind
<1> QED
  BY <1>2, <1>3, <1>4 DEF KindNames

LEMMA KeyedStays == AdminShape /\ AdminNext => Keyed'
<1> SUFFICES ASSUME AdminShape, AdminNext PROVE Keyed'
  OBVIOUS
<1>0. /\ Keyed /\ keygens \in Nat /\ enrolled \subseteq Stations
      /\ station \in [Stations -> OnStation(keygens)]
      /\ signer \in [Stations -> InSigner(keygens)]
  BY DEF AdminShape, Keyed, OnStation, InSigner
<1>1. CASE UNCHANGED enrolVars
  BY <1>0, <1>1 DEF Keyed, enrolVars
<1>2. ASSUME NEW t \in Tasks, GenerateKeys(t) \/ GenerateKeysFails(t)
      PROVE  Keyed'
  <2>1. /\ task[t].on \in Stations /\ keygens' = keygens + 1 /\ keygens' \in Nat
        /\ enrolled' = enrolled \ {task[t].on} /\ UNCHANGED signer
    BY <1>2, Rekeys
  <2>2. PICK k \in [Halves -> 0 .. keygens'] :
          station' = [station EXCEPT ![task[t].on].key = k]
    BY <1>2, Rekeys
  <2>3. /\ FileCerts(keygens) \subseteq FileCerts(keygens')
        /\ OnStation(keygens) \subseteq OnStation(keygens')
        /\ InSigner(keygens) \subseteq InSigner(keygens')
    BY <1>0, <2>1, CertsGrow
  <2>4. station' \in [Stations -> OnStation(keygens')]
    <3>1. station[task[t].on] \in OnStation(keygens')
      BY <1>0, <2>1, <2>3
    <3>2. [station[task[t].on] EXCEPT !.key = k] \in OnStation(keygens')
      BY <3>1 DEF OnStation
    <3> QED
      BY <1>0, <2>2, <2>3, <3>2
  <2>5. signer' \in [Stations -> InSigner(keygens')]
    BY <1>0, <2>1, <2>3
  <2>6. \A s \in Stations : station'[s].certs = station[s].certs
    BY <1>0, <2>2 DEF OnStation
  <2>7. \A s \in Stations, h \in Halves :
          /\ station'[s].certs[KindOf("file", h)] \in FileCerts(keygens')
          /\ station'[s].certs[KindOf("usb", h)] \in UsbCerts
    BY <1>0, <2>3, <2>6 DEF Keyed
  <2> QED
    BY <1>0, <2>1, <2>4, <2>5, <2>7 DEF Keyed, OnStation, InSigner
<1>3. ASSUME NEW t \in Tasks, SendCertificate(t)
      PROVE  Keyed'
  <2>1. UNCHANGED <<signer, keygens, enrolled>> /\ task[t].do = "init" /\ task[t].at = "load"
    BY <1>3 DEF SendCertificate
  <2>2. CASE UNCHANGED station
    BY <1>0, <2>1, <2>2 DEF Keyed
  <2>3. ASSUME NEW kind, NEW c, kind = Kinds[task[t].next], c = Certificate(task[t], kind),
               station' = [station EXCEPT ![task[t].on].certs[kind] = c]
        PROVE  Keyed'
    <3>1. /\ kind \in KindNames /\ c \in FileCerts(keygens) \cup UsbCerts
          /\ \A h \in Halves : /\ kind = KindOf("file", h) => c \in FileCerts(keygens)
                               /\ kind = KindOf("usb", h) => c \in UsbCerts
      BY <2>1, <2>3, CertificateType
    <3>2. task[t].on \in Stations
      BY <2>1, InitJobIs DEF InitJobs
    <3>3. PICK s : s = task[t].on
      OBVIOUS
    <3>4. station[s].certs \in [KindNames -> FileCerts(keygens) \cup UsbCerts]
      BY <1>0, <3>2, <3>3 DEF OnStation
    <3>5. [station[s].certs EXCEPT ![kind] = c]
            \in [KindNames -> FileCerts(keygens) \cup UsbCerts]
      BY <3>1, <3>4
    <3>6. [station[s] EXCEPT !.certs = [station[s].certs EXCEPT ![kind] = c]]
            \in OnStation(keygens)
      BY <1>0, <3>2, <3>3, <3>5 DEF OnStation
    <3>7. station' \in [Stations -> OnStation(keygens)]
      BY <1>0, <2>3, <3>2, <3>3, <3>6
    <3>8. \A u \in Stations, k \in KindNames :
            \/ station'[u].certs[k] = station[u].certs[k]
            \/ k = kind /\ station'[u].certs[k] = c
      BY <1>0, <2>3, <3>1 DEF OnStation
    <3>9. \A h \in Halves : KindOf("file", h) \in KindNames /\ KindOf("usb", h) \in KindNames
      BY KindsAre DEF Halves, KindNames
    <3>10. \A u \in Stations, h \in Halves :
             /\ station'[u].certs[KindOf("file", h)] \in FileCerts(keygens)
             /\ station'[u].certs[KindOf("usb", h)] \in UsbCerts
      BY <1>0, <3>1, <3>8, <3>9 DEF Keyed
    <3> QED
      BY <1>0, <2>1, <3>7, <3>10 DEF Keyed, OnStation, InSigner
  <2> QED
    BY <1>3, <2>2, <2>3 DEF SendCertificate
<1>4. ASSUME NEW t \in Tasks, RestartKeysas(t)
      PROVE  Keyed'
  <2>1. task[t].on \in Stations
    BY <1>4, InitJobIs DEF InitJobs, RestartKeysas
  <2>2. /\ UNCHANGED <<station, keygens>> /\ enrolled' \subseteq enrolled \cup {task[t].on}
        /\ signer' = [signer EXCEPT ![task[t].on] = Loaded(task[t].on)]
    BY <1>4 DEF RestartKeysas
  <2>3. signer' \in [Stations -> InSigner(keygens)]
    BY <1>0, <2>1, <2>2, LoadedType
  <2> QED
    BY <1>0, <2>1, <2>2, <2>3 DEF Keyed, InSigner
<1>5. ASSUME NEW s \in Stations, SignerRestarts(s)
      PROVE  Keyed'
  <2>1. /\ UNCHANGED <<station, keygens, enrolled>>
        /\ signer' = [signer EXCEPT ![s] = Loaded(s)]
    BY <1>5 DEF SignerRestarts
  <2>2. signer' \in [Stations -> InSigner(keygens)]
    BY <1>0, <2>1, LoadedType
  <2> QED
    BY <1>0, <2>1, <2>2 DEF Keyed, InSigner
<1> QED
  BY <1>1, <1>2, <1>3, <1>4, <1>5, KeySteps

------------------------------------------------------------------------------
(* The USB keys, and the commands.                                          *)

LEMMA StickJobIs ==
  ASSUME AdminShape, NEW t \in Tasks, task[t].do \in {"sign", "revoke"}
  PROVE  /\ task[t] \in StickJobs /\ Sound(task[t], Len(issued), keygens)
         /\ task[t].at # "watch" => task[t].on \in Sticks
<1>1. task[t] \in StickJobs /\ Sound(task[t], Len(issued), keygens)
  BY JobIs DEF AdminShape, Working
<1> QED
  BY <1>1 DEF StickJobs, Sound

LEMMA StuckStays == AdminShape /\ AdminNext => Stuck'
<1> SUFFICES ASSUME AdminShape, AdminNext PROVE Stuck'
  OBVIOUS
<1>0. Stuck
  BY DEF AdminShape
<1>1. CASE UNCHANGED stickVars
  BY <1>0, <1>1 DEF Stuck, stickVars
<1>2. ASSUME NEW t \in Tasks, WriteSize(t) \/ WriteText(t)
      PROVE  Stuck'
  <2>1. task[t].do \in {"sign", "revoke"} /\ task[t].on \in Sticks /\ task[t].text \in Pairs
    BY <1>2, StickJobIs DEF WriteSize, WriteText, StickJobs
  <2>2. CASE WriteSize(t)
    BY <1>0, <2>1, <2>2 DEF WriteSize, Stuck
  <2>3. CASE WriteText(t)
    <3>1. stick' \in [Sticks -> [size : {"none", "sign", "revoke"}, text : Pairs]]
      BY <1>0, <2>1, <2>3 DEF WriteText, Stuck
    <3>2. lastSaid' \in [Sticks -> Pairs] /\ doubted' \subseteq Sticks
      BY <1>0, <2>1, <2>3 DEF WriteText, Stuck
    <3> QED
      BY <3>1, <3>2 DEF Stuck
  <2> QED
    BY <1>2, <2>2, <2>3
<1> QED
  BY <1>1, <1>2, StickSteps

LEMMA KeysGrow ==
  ASSUME AdminShape, AdminNext
  PROVE  keygens <= keygens' /\ keygens' \in Nat
<1>1. keygens \in Nat
  BY DEF AdminShape, Keyed
<1>2. keygens' = keygens \/ keygens' = keygens + 1
  <2>1. ASSUME NEW t \in Tasks, GenerateKeys(t) \/ GenerateKeysFails(t)
        PROVE  keygens' = keygens + 1
    BY <2>1, Rekeys
  <2>2. ASSUME NEW t \in Tasks, SendCertificate(t) \/ RestartKeysas(t)
        PROVE  keygens' = keygens
    BY <2>2 DEF SendCertificate, RestartKeysas
  <2>3. ASSUME NEW s \in Stations, SignerRestarts(s)
        PROVE  keygens' = keygens
    BY <2>3 DEF SignerRestarts
  <2> QED
    BY <2>1, <2>2, <2>3, KeySteps DEF enrolVars
<1> QED
  BY <1>1, <1>2

(* Each command becomes another, or stays as it was.                        *)
LEMMA WorkingEach ==
  ASSUME AdminShape, AdminNext, DOMAIN task' = Tasks, task' = [u \in DOMAIN task' |-> task'[u]],
         \A u \in Tasks : \/ task'[u] = task[u]
                          \/ task'[u] \in Jobs /\ Sound(task'[u], Len(issued'), keygens')
  PROVE  Working'
<1>1. \A u \in Tasks : task[u] \in Jobs /\ Sound(task[u], Len(issued), keygens)
  BY DEF AdminShape, Working
<1>2. Len(issued) \in Nat /\ keygens \in Nat
  BY NumbersAre
<1>3. \A u \in Tasks : task'[u] \in Jobs /\ Sound(task'[u], Len(issued'), keygens')
  BY <1>1, <1>2, SoundGrows, GenerationsGrow, KeysGrow
<1>4. task' \in [Tasks -> Jobs]
  BY <1>3
<1> QED
  BY <1>3, <1>4 DEF Working

LEMMA WorkingSet ==
  ASSUME AdminShape, AdminNext, NEW t \in Tasks, NEW j,
         task' = [task EXCEPT ![t] = j],
         j \in Jobs /\ Sound(j, Len(issued'), keygens')
  PROVE  Working'
<1>1. DOMAIN task' = Tasks /\ task' = [u \in DOMAIN task' |-> task'[u]]
  BY DEF AdminShape, Working
<1>2. \A u \in Tasks : task'[u] = IF u = t THEN j ELSE task[u]
  BY DEF AdminShape, Working
<1> QED
  BY <1>1, <1>2, WorkingEach

LEMMA PkiDir == Store => get_pki_dir \in Dirs \cup {NoDir}
<1> SUFFICES ASSUME Store PROVE get_pki_dir \in Dirs \cup {NoDir}
  OBVIOUS
<1> DEFINE named == {o \in Orgs : rows[o] # NoDir}
<1>1. CASE Cardinality(named) = 1
  <2>1. named # {}
    <3>1. Cardinality({}) = 0
      BY FS_EmptySet
    <3> QED
      BY <1>1, <3>1
  <2>2. (CHOOSE o \in named : TRUE) \in Orgs
    BY <2>1
  <2> QED
    BY <1>1, <2>2 DEF get_pki_dir, Store
<1>2. CASE Cardinality(named) # 1
  BY <1>2 DEF get_pki_dir
<1> QED
  BY <1>1, <1>2

(* A pair that loads is of a PKI that was generated. *)
LEMMA LoadsGenerated ==
  ASSUME AdminShape, NEW d, NEW ca \in CaNames, Loads(d, ca)
  PROVE  /\ d \in Dirs
         /\ \A f \in FileNames : pki[d][ca][f] \in 1 .. Len(issued)
         /\ Private(d, ca) \in [Halves -> Pkis] /\ Certified(d, ca) \in [Halves -> Pkis]
<1>1. d \in Dirs /\ \A i \in 1 .. 4 : pki[d][ca][Files[i]] # 0
  BY DEF Loads
<1>2. pki[d][ca] \in [FileNames -> 0 .. Len(issued)]
  BY <1>1 DEF AdminShape, Store
<1>3. ASSUME NEW f \in FileNames
      PROVE  pki[d][ca][f] \in 1 .. Len(issued)
  <2>1. pki[d][ca][f] # 0
    BY <1>1, NamesAre
  <2>2. pki[d][ca][f] \in 0 .. Len(issued)
    BY <1>2
  <2> QED
    BY <2>1, <2>2
<1>4. \A f \in FileNames : pki[d][ca][f] \in Pkis
  BY <1>3, NumbersAre
<1> QED
  BY <1>1, <1>3, <1>4, NamesAre DEF Private, Certified

(* The commands of the PKI. *)
LEMMA WorkingPki ==
  ASSUME AdminShape, AdminNext, NEW t \in Tasks,
         \/ \E o \in Orgs, d \in Dirs : generate_pki_in_dir(t, o, d)
         \/ SaveKeys(t)
         \/ \E d \in Dirs : restore_pki(t, d)
         \/ RestoreDrops(t) \/ RestoreStores(t) \/ Fail(t)
  PROVE  Working'
<1>0. /\ task \in [Tasks -> Jobs] /\ Sound(task[t], Len(issued), keygens)
      /\ Len(issued) \in Nat /\ keygens \in Nat
  BY NumbersAre DEF AdminShape, Working
<1>1. ASSUME NEW o \in Orgs, NEW d \in Dirs, generate_pki_in_dir(t, o, d)
      PROVE  Working'
  <2> DEFINE j == [do |-> "generate", at |-> 1, dir |-> d, pki |-> Len(issued) + 1]
  <2>1. Len(issued') = Len(issued) + 1
    BY <1>1 DEF generate_pki_in_dir, AdminShape, Store
  <2>2. commands < MaxCommands /\ Len(issued) \in 1 .. commands + 1 /\ commands \in Nat
    BY <1>1, NumbersAre DEF generate_pki_in_dir, Takes, Command
  <2>3. Len(issued) + 1 \in Pkis
    BY <2>2, AdminBounds DEF Pkis
  <2>4. j \in Jobs
    BY <2>3 DEF Jobs, GenerateJobs
  <2>5. Sound(j, Len(issued'), keygens')
    BY <1>0, <2>1 DEF Sound
  <2>6. task' = [task EXCEPT ![t] = j]
    BY <1>1 DEF generate_pki_in_dir
  <2> QED
    BY <2>4, <2>5, <2>6, WorkingSet
<1>2. ASSUME NEW j, j = Idle, task' = [task EXCEPT ![t] = j]
      PROVE  Working'
    BY <1>2, IdleIs, WorkingSet
<1>3. CASE SaveKeys(t) /\ task[t].at # 3
  <2> DEFINE j == [task[t] EXCEPT !.at = task[t].at + 1]
  <2>1. task[t] \in GenerateJobs /\ task[t].pki \in 1 .. Len(issued)
    BY <1>0, <1>3, JobIs DEF SaveKeys, Sound
  <2>2. task[t].at + 1 \in 1 .. 3
    BY <1>3, <2>1 DEF GenerateJobs
  <2>3. j \in GenerateJobs /\ j.do = "generate" /\ j.pki = task[t].pki
    BY <2>1, <2>2 DEF GenerateJobs
  <2>4. task' = [task EXCEPT ![t] = j] /\ UNCHANGED issued
    BY <1>0, <1>3 DEF SaveKeys, Becomes
  <2>5. Sound(j, Len(issued'), keygens')
    BY <2>1, <2>3, <2>4 DEF Sound
  <2> HIDE DEF j
  <2> QED
    BY <2>3, <2>4, <2>5, WorkingSet DEF Jobs
<1>4. ASSUME NEW d \in Dirs, restore_pki(t, d)
      PROVE  Working'
  <2> DEFINE org == issued[Certified(d, "root")["cl"]]
             j == [do |-> "restore", at |-> "drop", dir |-> d, org |-> org]
  <2>1. Loads(d, "root")
    <3>1. Cas[1] = "root" /\ 1 \in 1 .. 3
      BY DEF Cas
    <3> QED
      BY <1>4, <3>1 DEF restore_pki, Restorable
  <2>2. Certified(d, "root")["cl"] \in 1 .. Len(issued)
    <3>1. Certified(d, "root")["cl"] = pki[d]["root"]["cl.pem"]
      BY DEF Certified, FilesOf, Halves
    <3> QED
      BY <2>1, <3>1, LoadsGenerated DEF CaNames, FileNames
  <2>3. org \in Orgs
    BY <2>2 DEF AdminShape, Store
  <2> HIDE DEF org
  <2>4. j \in Jobs /\ Sound(j, Len(issued'), keygens')
    BY <2>3 DEF Jobs, RestoreJobs, Sound
  <2>5. task' = [task EXCEPT ![t] = j]
    BY <1>4 DEF restore_pki, org
  <2> QED
    BY <2>4, <2>5, WorkingSet
<1>5. CASE RestoreDrops(t)
  <2> DEFINE j == [task[t] EXCEPT !.at = "store"]
  <2>1. task[t] \in RestoreJobs
    BY <1>0, <1>5, JobIs DEF RestoreDrops
  <2>2. j \in RestoreJobs /\ j.do = "restore"
    BY <2>1 DEF RestoreJobs
  <2>3. task' = [task EXCEPT ![t] = j]
    BY <1>0, <1>5 DEF RestoreDrops, Becomes
  <2> HIDE DEF j
  <2>4. Sound(j, Len(issued'), keygens')
    BY <2>2 DEF Sound
  <2> QED
    BY <2>2, <2>3, <2>4, WorkingSet DEF Jobs
<1>6. CASE RestoreStores(t) \/ Fail(t) \/ (SaveKeys(t) /\ task[t].at = 3)
  BY <1>2, <1>6 DEF RestoreStores, Fail, SaveKeys, Ends
<1> QED
  BY <1>1, <1>3, <1>4, <1>5, <1>6

(* The enrolment of a station. *)
LEMMA WorkingInit ==
  ASSUME AdminShape, AdminNext, NEW t \in Tasks,
         \/ \E s \in Stations : init_keysas(t, s)
         \/ LoadStationCa(t) \/ LoadUsbCa(t) \/ LoadFails(t)
         \/ SendCertificate(t) \/ RestartKeysas(t)
  PROVE  Working'
<1>0. /\ task \in [Tasks -> Jobs] /\ Sound(task[t], Len(issued), keygens)
      /\ Len(issued) \in Nat /\ keygens \in Nat /\ Store
  BY NumbersAre DEF AdminShape, Working
<1>1. ASSUME NEW s \in Stations, init_keysas(t, s)
      PROVE  Working'
  <2> DEFINE j == [do |-> "init", at |-> "generate", on |-> s, dir |-> get_pki_dir,
                   key |-> 0, ca |-> NoPair, usb |-> NoPair, next |-> 1, alone |-> TRUE]
  <2>1. get_pki_dir \in Dirs \cup {NoDir} /\ NoPair \in Pairs /\ 0 \in 0 .. MaxCommands
    BY <1>0, PkiDir, AdminBounds DEF NoPair, Pairs
  <2>2. j \in InitJobs
    BY <2>1 DEF InitJobs
  <2>3. Sound(j, Len(issued'), keygens')
    BY DEF Sound
  <2>4. task' = [task EXCEPT ![t] = j]
    BY <1>1 DEF init_keysas
  <2> HIDE DEF j
  <2> QED
    BY <2>2, <2>3, <2>4, WorkingSet DEF Jobs
<1>2. ASSUME NEW j, j = Idle, task' = [task EXCEPT ![t] = j]
      PROVE  Working'
    BY <1>2, IdleIs, WorkingSet
<1>3. ASSUME task[t].do = "init", UNCHANGED keygens, NEW j \in InitJobs,
             task' = [task EXCEPT ![t] = j],
             /\ j.at \notin {"generate"} => j.key \in 1 .. keygens
             /\ j.at \in {"usb", "load", "restart"} => j.ca \in [Halves -> Pkis]
             /\ j.at \in {"load", "restart"} => j.usb \in [Halves -> Pkis]
             /\ j.at \in {"generate", "st", "usb"} => j.next = 1
      PROVE  Working'
  <2>1. Sound(j, Len(issued'), keygens')
    BY <1>3 DEF Sound, InitJobs
  <2> QED
    BY <1>3, <2>1, WorkingSet DEF Jobs
<1>4. CASE LoadStationCa(t)
  <2> DEFINE ca == Private(task[t].dir, "st")
             j == [[task[t] EXCEPT !.at = "usb"] EXCEPT !.ca = ca]
  <2>1. /\ task[t].do = "init" /\ task[t].at = "st" /\ Loads(task[t].dir, "st")
        /\ UNCHANGED keygens
    BY <1>4 DEF LoadStationCa, enrolVars
  <2>2. task[t] \in InitJobs
    BY <2>1, InitJobIs
  <2>3. ca \in [Halves -> Pkis]
    BY <2>1, LoadsGenerated DEF CaNames
  <2>4. ca \in Pairs
    BY <2>3 DEF Pairs
  <2>5. task' = [task EXCEPT ![t] = j]
    BY <1>0, <1>4 DEF LoadStationCa
  <2> HIDE DEF ca
  <2>6. /\ j \in InitJobs /\ j.at = "usb" /\ j.ca = ca /\ j.key = task[t].key
        /\ j.next = task[t].next
    BY <2>2, <2>4 DEF InitJobs
  <2>7. task[t].key \in 1 .. keygens /\ task[t].next = 1
    BY <1>0, <2>1 DEF Sound
  <2> HIDE DEF j
  <2> QED
    BY <1>3, <2>1, <2>3, <2>5, <2>6, <2>7
<1>5. CASE LoadUsbCa(t)
  <2> DEFINE usb == Certified(task[t].dir, "usb")
             alone == task[t].alone /\ Cardinality({task[t].ca[h] : h \in Halves}
                                                   \cup {usb[h] : h \in Halves}) = 1
             j == [[[task[t] EXCEPT !.at = "load"] EXCEPT !.usb = usb] EXCEPT !.alone = alone]
  <2>1. /\ task[t].do = "init" /\ task[t].at = "usb" /\ Loads(task[t].dir, "usb")
        /\ UNCHANGED keygens
    BY <1>5 DEF LoadUsbCa, enrolVars
  <2>2. task[t] \in InitJobs
    BY <2>1, InitJobIs
  <2>3. usb \in [Halves -> Pkis]
    BY <2>1, LoadsGenerated DEF CaNames
  <2>4. usb \in Pairs /\ alone \in BOOLEAN
    BY <2>3 DEF Pairs
  <2>5. task' = [task EXCEPT ![t] = j]
    BY <1>0, <1>5 DEF LoadUsbCa
  <2> HIDE DEF usb, alone
  <2>6. /\ j \in InitJobs /\ j.at = "load" /\ j.usb = usb /\ j.ca = task[t].ca
        /\ j.key = task[t].key
    BY <2>2, <2>4 DEF InitJobs
  <2>7. task[t].key \in 1 .. keygens /\ task[t].ca \in [Halves -> Pkis]
    BY <1>0, <2>1 DEF Sound
  <2> HIDE DEF j
  <2> QED
    BY <1>3, <2>1, <2>3, <2>5, <2>6, <2>7
<1>6. CASE SendCertificate(t)
  <2>1. task[t].do = "init" /\ task[t].at = "load" /\ UNCHANGED keygens
    BY <1>6 DEF SendCertificate
  <2>2. task[t] \in InitJobs
    BY <2>1, InitJobIs
  <2>3. /\ task[t].key \in 1 .. keygens /\ task[t].ca \in [Halves -> Pkis]
        /\ task[t].usb \in [Halves -> Pkis]
    BY <1>0, <2>1 DEF Sound
  <2>4. ASSUME NEW alone \in BOOLEAN, NEW j,
               j = [[task[t] EXCEPT !.at = "restart"] EXCEPT !.alone = alone],
               task' = [task EXCEPT ![t] = j]
        PROVE  Working'
    <3>1. /\ j \in InitJobs /\ j.at = "restart" /\ j.key = task[t].key
          /\ j.ca = task[t].ca /\ j.usb = task[t].usb
      BY <2>2, <2>4 DEF InitJobs
    <3> QED
      BY <1>3, <2>1, <2>3, <2>4, <3>1
  <2>5. CASE task' = [task EXCEPT ![t]["at"] = "restart"]
    <3>1. task[t].alone \in BOOLEAN
      BY <2>2 DEF InitJobs
    <3>2. [[task[t] EXCEPT !.at = "restart"] EXCEPT !.alone = task[t].alone]
            = [task[t] EXCEPT !.at = "restart"]
      BY <2>2 DEF InitJobs
    <3>3. task' = [task EXCEPT ![t] = [task[t] EXCEPT !.at = "restart"]]
      BY <1>0, <2>5
    <3> QED
      BY <2>4, <3>1, <3>2, <3>3
  <2>6. CASE task' = [task EXCEPT ![t].at = "restart", ![t].alone = FALSE]
    <3>1. task' = [task EXCEPT ![t] =
                     [[task[t] EXCEPT !.at = "restart"] EXCEPT !.alone = FALSE]]
      BY <1>0, <2>6
    <3> QED
      BY <2>4, <3>1
  <2> QED
    BY <1>6, <2>5, <2>6 DEF SendCertificate, Becomes
<1>7. CASE RestartKeysas(t) /\ task[t].next # 4
  <2> DEFINE j == [[task[t] EXCEPT !.at = "load"] EXCEPT !.next = task[t].next + 1]
  <2>1. task[t].do = "init" /\ task[t].at = "restart" /\ UNCHANGED keygens
    BY <1>7 DEF RestartKeysas
  <2>2. task[t] \in InitJobs /\ task[t].next + 1 \in 1 .. 4
    BY <1>7, <2>1, InitJobIs DEF InitJobs
  <2>3. /\ task[t].key \in 1 .. keygens /\ task[t].ca \in [Halves -> Pkis]
        /\ task[t].usb \in [Halves -> Pkis]
    BY <1>0, <2>1 DEF Sound
  <2>4. task' = [task EXCEPT ![t] = j]
    BY <1>0, <1>7 DEF RestartKeysas
  <2>5. /\ j \in InitJobs /\ j.at = "load" /\ j.key = task[t].key
        /\ j.ca = task[t].ca /\ j.usb = task[t].usb
    BY <2>2 DEF InitJobs
  <2> HIDE DEF j
  <2> QED
    BY <1>3, <2>1, <2>3, <2>4, <2>5
<1>8. CASE LoadFails(t) \/ (RestartKeysas(t) /\ task[t].next = 4)
  BY <1>2, <1>8 DEF LoadFails, RestartKeysas, Ends
<1> QED
  BY <1>1, <1>4, <1>5, <1>6, <1>7, <1>8

(* The commands that wait for a USB key. *)
LEMMA WorkingStick ==
  ASSUME AdminShape, AdminNext, NEW t \in Tasks,
         \/ \E do \in {"sign", "revoke"} : watch_new_usb(t, do)
         \/ SignDevice(t) \/ WriteSize(t) \/ WriteText(t)
  PROVE  Working'
<1>0. task \in [Tasks -> Jobs] /\ Sound(task[t], Len(issued), keygens)
  BY DEF AdminShape, Working
<1>1. ASSUME NEW do \in {"sign", "revoke"}, watch_new_usb(t, do)
      PROVE  Working'
  <2> DEFINE j == [do |-> do, at |-> "watch", on |-> NoStick, text |-> NoPair,
                   alone |-> TRUE]
  <2>1. NoPair \in Pairs
    BY DEF NoPair, Pairs
  <2>2. j \in StickJobs /\ Sound(j, Len(issued'), keygens')
    BY <2>1 DEF StickJobs, Sound
  <2>3. task' = [task EXCEPT ![t] = j]
    BY <1>1 DEF watch_new_usb
  <2> HIDE DEF j
  <2> QED
    BY <2>2, <2>3, WorkingSet DEF Jobs
<1>2. ASSUME NEW j, j = Idle, task' = [task EXCEPT ![t] = j]
      PROVE  Working'
    BY <1>2, IdleIs, WorkingSet
<1>3. CASE SignDevice(t) /\ task' # [task EXCEPT ![t] = Idle]
  <2> DEFINE keys == Private(get_pki_dir, "usb")
             j == [[task[t] EXCEPT !.at = "size"] EXCEPT !.text = keys]
  <2>1. /\ task[t].do = "sign" /\ task[t].at = "open" /\ get_pki_dir \in Dirs
        /\ \A h \in Halves : keys[h] # 0
    BY <1>3 DEF SignDevice, Ends
  <2>2. keys \in Pairs
    <3>1. pki[get_pki_dir]["usb"] \in [FileNames -> 0 .. Len(issued)]
      BY <2>1 DEF AdminShape, Store, CaNames
    <3>2. \A f \in FileNames : pki[get_pki_dir]["usb"][f] \in {0} \cup Pkis
      BY <3>1, NumbersAre
    <3> QED
      BY <3>2, NamesAre DEF Private, Pairs
  <2>3. task' = [task EXCEPT ![t] = j]
    BY <1>0, <1>3, <2>1 DEF SignDevice, Ends
  <2> HIDE DEF keys
  <2>4. task[t] \in StickJobs /\ task[t].on \in Sticks
    BY <2>1, StickJobIs
  <2>5. j \in StickJobs /\ j.do = "sign" /\ j.at = "size" /\ j.on \in Sticks
    BY <2>1, <2>2, <2>4 DEF StickJobs
  <2> HIDE DEF j
  <2>6. Sound(j, Len(issued'), keygens')
    BY <2>5, NoStickAssumption DEF Sound
  <2> QED
    BY <2>3, <2>5, <2>6, WorkingSet DEF Jobs
<1>4. CASE WriteSize(t)
  <2> DEFINE j == [task[t] EXCEPT !.at = "text"]
  <2>1. task[t].do \in {"sign", "revoke"} /\ task[t].at = "size"
    BY <1>4 DEF WriteSize
  <2>2. task[t] \in StickJobs /\ task[t].on \in Sticks
        /\ (task[t].do = "revoke" => task[t].text = NoPair)
    BY <1>0, <2>1, StickJobIs DEF Sound
  <2>3. task' = [task EXCEPT ![t] = j]
    BY <1>0, <1>4 DEF WriteSize, Becomes
  <2>4. /\ j \in StickJobs /\ j.do = task[t].do /\ j.at = "text" /\ j.on \in Sticks
        /\ j.text = task[t].text
    BY <2>2 DEF StickJobs
  <2> HIDE DEF j
  <2>5. Sound(j, Len(issued'), keygens')
    BY <2>1, <2>2, <2>4, NoStickAssumption DEF Sound
  <2> QED
    BY <2>3, <2>4, <2>5, WorkingSet DEF Jobs
<1>5. CASE WriteText(t) \/ task' = [task EXCEPT ![t] = Idle]
  BY <1>2, <1>5 DEF WriteText, Ends
<1> QED
  BY <1>1, <1>3, <1>4, <1>5

LEMMA WorkingPlug ==
  ASSUME AdminShape, AdminNext, NEW k \in Sticks, Plug(k)
  PROVE  Working'
<1> DEFINE all == Watching \cup Writing(k)
<1>1. task' = [u \in Tasks |->
        IF u \notin all THEN task[u]
        ELSE [task[u] EXCEPT
                !.on = k, !.alone = (all = {u}),
                !.at = IF @ # "watch" THEN @
                       ELSE IF task[u].do = "sign" THEN "open" ELSE "size"]]
  BY DEF Plug
<1>2. ASSUME NEW u \in all
      PROVE  task'[u] \in Jobs /\ Sound(task'[u], Len(issued'), keygens')
  <2>1. u \in Tasks /\ task[u].do \in {"sign", "revoke"}
    BY DEF Watching, Writing
  <2>2. task[u] \in StickJobs /\ Sound(task[u], Len(issued), keygens)
    BY <2>1, StickJobIs
  <2>3. PICK at, alone : /\ task'[u] = [[[task[u] EXCEPT !.on = k] EXCEPT !.alone = alone]
                                          EXCEPT !.at = at]
                         /\ at = IF task[u].at # "watch" THEN task[u].at
                                 ELSE IF task[u].do = "sign" THEN "open" ELSE "size"
                         /\ alone \in BOOLEAN
    <3>1. task'[u] = [[[task[u] EXCEPT !.on = k] EXCEPT !.alone = (all = {u})]
             EXCEPT !.at = IF task[u].at # "watch" THEN task[u].at
                           ELSE IF task[u].do = "sign" THEN "open" ELSE "size"]
      BY <1>1, <2>1, <2>2 DEF StickJobs
    <3> QED
      BY <3>1
  <2>4. /\ at \in {"open", "size", "text"}
        /\ at = "open" => task[u].do = "sign" \/ task[u].at = "open"
    BY <2>2, <2>3 DEF StickJobs
  <2>5. /\ task'[u] \in StickJobs /\ task'[u].do = task[u].do /\ task'[u].at = at
        /\ task'[u].on = k /\ task'[u].text = task[u].text
    BY <2>2, <2>3, <2>4 DEF StickJobs
  <2>6. task'[u].do # "init" /\ task'[u].do # "generate"
    BY <2>1, <2>5
  <2>7. Sound(task'[u], Len(issued'), keygens')
    BY <2>1, <2>2, <2>4, <2>5, <2>6, NoStickAssumption DEF Sound
  <2> QED
    BY <2>5, <2>7 DEF Jobs
<1>3. \A u \in Tasks \ all : task'[u] = task[u]
  BY <1>1
<1>4. DOMAIN task' = Tasks /\ task' = [u \in DOMAIN task' |-> task'[u]]
  BY <1>1
<1> HIDE DEF all
<1> QED
  BY <1>2, <1>3, <1>4, WorkingEach

LEMMA WorkingRekey ==
  ASSUME AdminShape, AdminNext, NEW t \in Tasks, GenerateKeys(t) \/ GenerateKeysFails(t)
  PROVE  Working'
<1> DEFINE s == task[t].on
           others == {u \in Tasks \ {t} : Enrolling(u, s)}
<1>1. /\ task[t].do = "init" /\ task[t].at = "generate"
      /\ keygens' = keygens + 1
  BY DEF GenerateKeys, GenerateKeysFails, Rekeyed
<1>2. keygens + 1 \in 0 .. MaxCommands /\ keygens + 1 \in 1 .. keygens + 1
  <2>1. t \in Pending
    BY <1>1 DEF Pending
  <2>2. Cardinality(Pending) # 0 /\ Cardinality(Pending) \in Nat
        /\ Cardinality(Pending) + keygens <= commands
    BY <2>1, FS_EmptySet, FS_CardinalityType DEF AdminShape, Counted
  <2>3. keygens + 1 <= MaxCommands /\ keygens \in Nat
    BY <2>2, NumbersAre, AdminBounds
  <2> QED
    BY <2>3, AdminBounds
<1>3. task[t] \in InitJobs /\ Sound(task[t], Len(issued), keygens)
  BY <1>1, InitJobIs
<1>4. PICK job :
        /\ \/ job = Idle
           \/ job = [[task[t] EXCEPT !.at = "st"] EXCEPT !.key = keygens + 1]
        /\ task' = [u \in Tasks |->
             IF u = t THEN (IF job = Idle THEN Idle ELSE [job EXCEPT !.alone = (others = {})])
             ELSE IF u \in others THEN [task[u] EXCEPT !.alone = FALSE] ELSE task[u]]
  BY <1>3 DEF GenerateKeys, GenerateKeysFails, Rekeyed, InitJobs
<1>5. \A u \in others : u \in Tasks /\ u # t /\ task[u].do = "init"
  BY DEF Enrolling
<1>6. task'[t] \in Jobs /\ Sound(task'[t], Len(issued'), keygens')
  <2>1. CASE job = Idle
    BY <1>4, <2>1, IdleIs
  <2>2. CASE job # Idle
    <3>1. PICK alone \in BOOLEAN :
            task'[t] = [[[task[t] EXCEPT !.at = "st"] EXCEPT !.key = keygens + 1]
                          EXCEPT !.alone = alone]
      BY <1>4, <2>2
    <3>2. /\ task'[t] \in InitJobs /\ task'[t].do = "init" /\ task'[t].at = "st"
          /\ task'[t].key = keygens + 1 /\ task'[t].next = task[t].next
      BY <1>2, <1>3, <3>1 DEF InitJobs
    <3>3. task[t].next = 1
      BY <1>1, <1>3 DEF Sound
    <3>4. Sound(task'[t], Len(issued'), keygens')
      BY <1>1, <1>2, <3>2, <3>3 DEF Sound
    <3> QED
      BY <3>2, <3>4 DEF Jobs
  <2> QED
    BY <2>1, <2>2
<1>7. ASSUME NEW u \in others
      PROVE  task'[u] \in Jobs /\ Sound(task'[u], Len(issued'), keygens')
  <2>1. u \in Tasks /\ u # t /\ task[u].do = "init"
    BY <1>5
  <2>2. task[u] \in InitJobs /\ Sound(task[u], Len(issued), keygens)
    BY <2>1, InitJobIs
  <2>3. task'[u] = [task[u] EXCEPT !.alone = FALSE]
    BY <1>4, <2>1
  <2>4. /\ task'[u] \in InitJobs /\ task'[u].do = "init" /\ task'[u].at = task[u].at
        /\ task'[u].key = task[u].key /\ task'[u].ca = task[u].ca
        /\ task'[u].usb = task[u].usb /\ task'[u].next = task[u].next
    BY <2>2, <2>3 DEF InitJobs
  <2>5. keygens \in Nat /\ 1 .. keygens \subseteq 1 .. keygens'
    BY <1>1, NumbersAre
  <2>6. Sound(task'[u], Len(issued'), keygens')
    BY <2>1, <2>2, <2>4, <2>5 DEF Sound
  <2> QED
    BY <2>4, <2>6 DEF Jobs
<1>8. \A u \in Tasks : u # t /\ u \notin others => task'[u] = task[u]
  BY <1>4
<1>9. DOMAIN task' = Tasks /\ task' = [u \in DOMAIN task' |-> task'[u]]
  BY <1>4
<1> HIDE DEF others
<1> QED
  BY <1>6, <1>7, <1>8, <1>9, WorkingEach

LEMMA WorkingStays == AdminShape /\ AdminNext => Working'
<1> SUFFICES ASSUME AdminShape, AdminNext PROVE Working'
  OBVIOUS
<1>1. CASE UNCHANGED task
  <2>1. DOMAIN task' = Tasks /\ task' = [u \in DOMAIN task' |-> task'[u]]
    BY <1>1 DEF AdminShape, Working
  <2> QED
    BY <1>1, <2>1, WorkingEach
<1>2. CASE del_pki \/ \E s \in Stations : SignerRestarts(s)
  BY <1>1, <1>2 DEF del_pki, SignerRestarts
<1> QED
  BY <1>2, WorkingPki, WorkingInit, WorkingStick, WorkingPlug, WorkingRekey DEF AdminNext

------------------------------------------------------------------------------
(* Who works on an enrolment, and who waits for a key.                      *)

LEMMA InitSteps ==
  ASSUME AdminShape, AdminNext
  PROVE  \/ \E t \in Tasks :
              \/ \E s \in Stations : init_keysas(t, s)
              \/ GenerateKeys(t) \/ GenerateKeysFails(t)
              \/ LoadStationCa(t) \/ LoadUsbCa(t) \/ LoadFails(t)
              \/ SendCertificate(t) \/ RestartKeysas(t)
         \/ /\ \A u \in Tasks : task'[u].do = "init" => task'[u] = task[u]
            /\ UNCHANGED keygens
<1>0. /\ task \in [Tasks -> Jobs] /\ Idle.do = "nothing"
      /\ \A u \in Tasks : task[u].do = "restore" => task[u] \in RestoreJobs
      /\ \A u \in Tasks : task[u].do = "generate" => task[u] \in GenerateJobs
      /\ \A u \in Tasks : task[u].do \in {"sign", "revoke"} => task[u] \in StickJobs
  BY IdleIs, JobIs DEF AdminShape, Working
<1>1. ASSUME NEW t \in Tasks, NEW j, task' = [task EXCEPT ![t] = j], j.do # "init"
      PROVE  \A u \in Tasks : task'[u].do = "init" => task'[u] = task[u]
  BY <1>0, <1>1
<1>2. ASSUME NEW t \in Tasks,
             \/ \E o \in Orgs, d \in Dirs : generate_pki_in_dir(t, o, d)
             \/ SaveKeys(t)
             \/ \E d \in Dirs : restore_pki(t, d)
             \/ RestoreDrops(t) \/ RestoreStores(t)
             \/ \E do \in {"sign", "revoke"} : watch_new_usb(t, do)
             \/ SignDevice(t) \/ WriteSize(t) \/ WriteText(t) \/ Fail(t)
      PROVE  /\ \A u \in Tasks : task'[u].do = "init" => task'[u] = task[u]
             /\ UNCHANGED keygens
  <2>1. UNCHANGED keygens
    BY <1>2 DEF generate_pki_in_dir, SaveKeys, restore_pki, RestoreDrops, RestoreStores,
                watch_new_usb, SignDevice, WriteSize, WriteText, Fail, enrolVars
  <2>2. \E j : task' = [task EXCEPT ![t] = j] /\ j.do # "init"
    <3>1. CASE \E o \in Orgs, d \in Dirs : generate_pki_in_dir(t, o, d)
      <4>1. PICK d \in Dirs : task' = [task EXCEPT ![t] =
                [do |-> "generate", at |-> 1, dir |-> d, pki |-> Len(issued) + 1]]
        BY <3>1 DEF generate_pki_in_dir
      <4> DEFINE j == [do |-> "generate", at |-> 1, dir |-> d, pki |-> Len(issued) + 1]
      <4>2. task' = [task EXCEPT ![t] = j] /\ j.do # "init"
        BY <4>1
      <4> HIDE DEF j
      <4> QED
        BY <4>2
    <3>2. CASE SaveKeys(t)
      <4>1. \/ task' = [task EXCEPT ![t] = Idle]
            \/ task' = [task EXCEPT ![t] = [task[t] EXCEPT !.at = task[t].at + 1]]
        BY <1>0, <3>2 DEF SaveKeys, Ends, Becomes
      <4>2. [task[t] EXCEPT !.at = task[t].at + 1].do = "generate"
        BY <1>0, <3>2 DEF SaveKeys, GenerateJobs
      <4> QED
        BY <1>0, <4>1, <4>2
    <3>3. CASE \E d \in Dirs : restore_pki(t, d)
      <4>1. PICK d \in Dirs : restore_pki(t, d)
        BY <3>3
      <4> DEFINE j == [do |-> "restore", at |-> "drop", dir |-> d,
                       org |-> issued[Certified(d, "root")["cl"]]]
      <4>2. task' = [task EXCEPT ![t] = j] /\ j.do # "init"
        BY <4>1 DEF restore_pki
      <4> HIDE DEF j
      <4> QED
        BY <4>2
    <3>4. CASE RestoreDrops(t)
      <4>1. task' = [task EXCEPT ![t] = [task[t] EXCEPT !.at = "store"]]
        BY <1>0, <3>4 DEF RestoreDrops, Becomes
      <4>2. [task[t] EXCEPT !.at = "store"].do = "restore"
        BY <1>0, <3>4 DEF RestoreDrops, RestoreJobs
      <4> QED
        BY <4>1, <4>2
    <3>5. CASE \E do \in {"sign", "revoke"} : watch_new_usb(t, do)
      <4>1. PICK do \in {"sign", "revoke"} : watch_new_usb(t, do)
        BY <3>5
      <4> DEFINE j == [do |-> do, at |-> "watch", on |-> NoStick, text |-> NoPair,
                       alone |-> TRUE]
      <4>2. task' = [task EXCEPT ![t] = j] /\ j.do # "init"
        BY <4>1 DEF watch_new_usb
      <4> HIDE DEF j
      <4> QED
        BY <4>2
    <3>6. CASE SignDevice(t)
      <4> DEFINE keys == Private(get_pki_dir, "usb")
      <4>1. \/ task' = [task EXCEPT ![t] = Idle]
            \/ task' = [task EXCEPT ![t] = [[task[t] EXCEPT !.at = "size"] EXCEPT !.text = keys]]
        BY <1>0, <3>6 DEF SignDevice, Ends
      <4> HIDE DEF keys
      <4>2. [[task[t] EXCEPT !.at = "size"] EXCEPT !.text = keys].do = "sign"
        BY <1>0, <3>6 DEF SignDevice, StickJobs
      <4> QED
        BY <1>0, <4>1, <4>2
    <3>7. CASE WriteSize(t)
      <4>1. task' = [task EXCEPT ![t] = [task[t] EXCEPT !.at = "text"]]
        BY <1>0, <3>7 DEF WriteSize, Becomes
      <4>2. [task[t] EXCEPT !.at = "text"].do \in {"sign", "revoke"}
        BY <1>0, <3>7 DEF WriteSize, StickJobs
      <4> QED
        BY <4>1, <4>2
    <3>8. CASE RestoreStores(t) \/ WriteText(t) \/ Fail(t)
      BY <1>0, <3>8 DEF RestoreStores, WriteText, Fail, Ends
    <3> QED
      BY <1>2, <3>1, <3>2, <3>3, <3>4, <3>5, <3>6, <3>7, <3>8
  <2> QED
    BY <1>1, <2>1, <2>2
<1>3. CASE del_pki \/ \E s \in Stations : SignerRestarts(s)
  BY <1>3 DEF del_pki, SignerRestarts, enrolVars
<1>4. ASSUME NEW k \in Sticks, Plug(k)
      PROVE  /\ \A u \in Tasks : task'[u].do = "init" => task'[u] = task[u]
             /\ UNCHANGED keygens
  <2>1. \A u \in Watching \cup Writing(k) : u \in Tasks /\ task[u] \in StickJobs
    BY <1>0 DEF Watching, Writing
  <2>2. \A u \in Tasks : task'[u] = task[u] \/ u \in Watching \cup Writing(k)
    BY <1>4 DEF Plug
  <2>3. ASSUME NEW u \in Watching \cup Writing(k)
        PROVE  task'[u].do \in {"sign", "revoke"}
    <3>1. PICK at, alone : task'[u] = [[[task[u] EXCEPT !.on = k] EXCEPT !.alone = alone]
                                         EXCEPT !.at = at]
      BY <1>4, <2>1 DEF Plug, StickJobs
    <3> QED
      BY <2>1, <3>1 DEF StickJobs
  <2>4. UNCHANGED keygens
    BY <1>4 DEF Plug, enrolVars
  <2>5. \A u \in Tasks : task'[u].do = "init" => task'[u] = task[u]
    BY <2>2, <2>3
  <2> QED
    BY <2>4, <2>5
<1> QED
  BY <1>2, <1>3, <1>4 DEF AdminNext

(* No more keys are generated than commands were given. *)
LEMMA CountedStays == AdminShape /\ AdminNext => Counted'
<1> SUFFICES ASSUME AdminShape, AdminNext PROVE Counted'
  OBVIOUS
<1>0. /\ IsFiniteSet(Pending) /\ Cardinality(Pending) + keygens <= commands
      /\ Cardinality(Pending) \in Nat /\ keygens \in Nat /\ commands \in Nat
      /\ commands' \in Nat /\ commands <= commands' /\ task \in [Tasks -> Jobs]
  BY NumbersAre, CommandsGrow, FS_CardinalityType DEF AdminShape, Counted, Working
<1>1. ASSUME Pending' \subseteq Pending, UNCHANGED keygens
      PROVE  Counted'
  <2>1. /\ IsFiniteSet(Pending') /\ Cardinality(Pending') <= Cardinality(Pending)
        /\ Cardinality(Pending') \in Nat
    BY <1>0, <1>1, FS_Subset, FS_CardinalityType
  <2> QED
    BY <1>0, <1>1, <2>1 DEF Counted
<1>2. ASSUME NEW t \in Tasks, NEW s \in Stations, init_keysas(t, s)
      PROVE  Counted'
  <2>1. commands' = commands + 1 /\ UNCHANGED keygens /\ \A u \in Tasks \ {t} : task'[u] = task[u]
    BY <1>0, <1>2 DEF init_keysas, Takes, Command, enrolVars
  <2>2. Pending' \subseteq Pending \cup {t}
    BY <2>1 DEF Pending
  <2>3. IsFiniteSet(Pending \cup {t}) /\ Cardinality(Pending \cup {t}) \in Nat
        /\ Cardinality(Pending \cup {t}) <= Cardinality(Pending) + 1
    <3>1. /\ IsFiniteSet(Pending \cup {t})
          /\ Cardinality(Pending \cup {t})
               = IF t \in Pending THEN Cardinality(Pending) ELSE Cardinality(Pending) + 1
      BY <1>0, FS_AddElement
    <3> QED
      BY <1>0, <3>1
  <2>4. /\ IsFiniteSet(Pending') /\ Cardinality(Pending') <= Cardinality(Pending \cup {t})
        /\ Cardinality(Pending') \in Nat
    BY <2>2, <2>3, FS_Subset, FS_CardinalityType
  <2> QED
    BY <1>0, <2>1, <2>3, <2>4 DEF Counted
<1>3. ASSUME NEW t \in Tasks, GenerateKeys(t) \/ GenerateKeysFails(t)
      PROVE  Counted'
  <2>1. task[t].do = "init" /\ task[t].at = "generate" /\ keygens' = keygens + 1
    BY <1>3, Rekeys
  <2>2. t \in Pending
    BY <2>1 DEF Pending
  <2>3. task[t] \in InitJobs
    BY <2>1, InitJobIs
  <2>4. task'[t].do = "init" => task'[t].at = "st"
    <3>1. CASE GenerateKeys(t)
      <4>1. PICK alone : task'[t] = [[[task[t] EXCEPT !.at = "st"] EXCEPT !.key = keygens + 1]
                                       EXCEPT !.alone = alone]
                         \/ task'[t] = Idle
        BY <2>3, <3>1 DEF GenerateKeys, Rekeyed, InitJobs
      <4> QED
        BY <2>3, <4>1, IdleIs DEF InitJobs
    <3>2. CASE GenerateKeysFails(t)
      <4>1. task'[t] = Idle
        BY <3>2 DEF GenerateKeysFails, Rekeyed
      <4> QED
        BY <4>1, IdleIs
    <3> QED
      BY <1>3, <3>1, <3>2
  <2>5. ASSUME NEW u \in Tasks, u # t, task'[u].do = "init", task'[u].at = "generate"
        PROVE  u \in Pending
    <3>1. \/ task'[u] = task[u]
          \/ task'[u] = [task[u] EXCEPT !.alone = FALSE] /\ task[u].do = "init"
      BY <1>3, <2>5 DEF GenerateKeys, GenerateKeysFails, Rekeyed, Enrolling
    <3>2. task[u].do = "init" => task[u] \in InitJobs
      BY InitJobIs
    <3> QED
      BY <2>5, <3>1, <3>2 DEF Pending, InitJobs
  <2>6. Pending' \subseteq Pending \ {t}
    BY <2>4, <2>5 DEF Pending
  <2>7. IsFiniteSet(Pending \ {t}) /\ Cardinality(Pending \ {t}) = Cardinality(Pending) - 1
    BY <1>0, <2>2, FS_RemoveElement
  <2>8. /\ IsFiniteSet(Pending') /\ Cardinality(Pending') <= Cardinality(Pending \ {t})
        /\ Cardinality(Pending') \in Nat
    BY <2>6, <2>7, FS_Subset, FS_CardinalityType
  <2> QED
    BY <1>0, <2>1, <2>7, <2>8 DEF Counted
<1>4. ASSUME NEW t \in Tasks,
             \/ LoadStationCa(t) \/ LoadUsbCa(t) \/ LoadFails(t)
             \/ SendCertificate(t) \/ RestartKeysas(t)
      PROVE  Counted'
  <2>1. task[t].do = "init" /\ task[t].at # "generate" /\ UNCHANGED keygens
    BY <1>4 DEF LoadStationCa, LoadUsbCa, LoadFails, SendCertificate, RestartKeysas, enrolVars
  <2>2. task[t] \in InitJobs
    BY <2>1, InitJobIs
  <2>3. \A u \in Tasks \ {t} : task'[u] = task[u]
    BY <1>0, <1>4
       DEF LoadStationCa, LoadUsbCa, LoadFails, SendCertificate, RestartKeysas, Ends, Becomes
  <2>4. task'[t].do = "init" => task'[t].at # "generate"
    <3>1. CASE LoadStationCa(t) \/ LoadUsbCa(t)
      BY <1>0, <2>2, <3>1 DEF LoadStationCa, LoadUsbCa, InitJobs
    <3>2. CASE LoadFails(t)
      BY <1>0, <3>2, IdleIs DEF LoadFails, Ends
    <3>3. CASE SendCertificate(t)
      BY <1>0, <2>2, <3>3 DEF SendCertificate, Becomes, InitJobs
    <3>4. CASE RestartKeysas(t)
      BY <1>0, <2>2, <3>4, IdleIs DEF RestartKeysas, Ends, InitJobs
    <3> QED
      BY <1>4, <3>1, <3>2, <3>3, <3>4
  <2>5. Pending' \subseteq Pending
    BY <2>3, <2>4 DEF Pending
  <2> QED
    BY <1>1, <2>1, <2>5
<1>5. CASE /\ \A u \in Tasks : task'[u].do = "init" => task'[u] = task[u]
           /\ UNCHANGED keygens
  <2>1. Pending' \subseteq Pending
    BY <1>5 DEF Pending
  <2> QED
    BY <1>1, <1>5, <2>1
<1> QED
  BY <1>2, <1>3, <1>4, <1>5, InitSteps

LEMMA AdminShapeStays == AdminShape /\ [AdminNext]_adminVars => AdminShape'
<1>1. AdminShape /\ AdminNext => AdminShape'
  BY StoreStays, KeyedStays, StuckStays, WorkingStays, CountedStays DEF AdminShape
<1>2. AdminShape /\ UNCHANGED adminVars => AdminShape'
  <2> SUFFICES ASSUME AdminShape, UNCHANGED adminVars PROVE AdminShape'
    OBVIOUS
  <2>1. UNCHANGED <<rows, issued, pki, task, station, signer, keygens, enrolled, stick,
                    lastSaid, doubted, commands, adminFailures>>
    BY DEF adminVars, storeVars, enrolVars, stickVars, boundVars
  <2>2. Store' /\ Keyed'
    BY <2>1 DEF AdminShape, Store, Keyed
  <2>3. Stuck' /\ Working' /\ Counted'
    BY <2>1 DEF AdminShape, Stuck, Working, Counted, Pending
  <2> QED
    BY <2>2, <2>3 DEF AdminShape
<1> QED
  BY <1>1, <1>2

LEMMA ShapeIsType == AdminShape => AdminTypeOK
<1> SUFFICES ASSUME AdminShape PROVE AdminTypeOK
  OBVIOUS
<1>1. /\ rows \in [Orgs -> Dirs \cup {NoDir}]
      /\ issued \in Seq(Orgs) /\ Len(issued) <= commands + 1
      /\ commands \in 0 .. MaxCommands /\ adminFailures \in 0 .. AdminMaxFailures
  BY NumbersAre DEF AdminShape, Store
<1>2. \A d \in Dirs, i \in 1 .. 3, n \in 1 .. 4 : pki[d][Cas[i]][Files[n]] \in 0 .. Len(issued)
  BY NamesAre DEF AdminShape, Store
<1>3. /\ task \in [Tasks -> Jobs]
      /\ \A t \in Tasks : task[t].do \in {"sign", "revoke"} =>
                            (task[t].on = NoStick) = (task[t].at = "watch")
  BY DEF AdminShape, Working, Sound
<1>4. keygens \in 0 .. commands
  BY NumbersAre
<1>5. ASSUME NEW s \in Stations
      PROVE  /\ station[s].key \in [Halves -> 0 .. keygens]
             /\ signer[s].key \in [Halves -> 0 .. keygens]
             /\ \A h \in Halves :
                  /\ {station[s].certs[KindOf("file", h)], signer[s].certs[h]}
                       \subseteq {NoCert} \cup [half : Halves, of : 1 .. keygens, by : Pkis]
                  /\ station[s].certs[KindOf("usb", h)]
                       \in {NoCert} \cup [half : Halves, of : Pkis, by : Pkis]
  BY DEF AdminShape, Keyed, FileCerts, UsbCerts
<1>6. /\ stick \in [Sticks -> [size : {"none", "sign", "revoke"}, text : Pairs]]
      /\ enrolled \subseteq Stations /\ lastSaid \in [Sticks -> Pairs] /\ doubted \subseteq Sticks
  BY DEF AdminShape, Stuck, Keyed
<1> QED
  BY <1>1, <1>2, <1>3, <1>4, <1>5, <1>6 DEF AdminTypeOK

LEMMA AdminShapeHolds == AdminSpec => []AdminShape
<1>1. AdminInit => AdminShape
  BY AdminInitShape
<1>2. AdminShape /\ [AdminNext]_adminVars => AdminShape'
  BY AdminShapeStays
<1> QED
  BY <1>1, <1>2, PTL DEF AdminSpec

(* Each variable has a value of its type, a key is at hand exactly when a   *)
(* command of watch_new_usb has it, and init_keysas generates no more keys  *)
(* than it was called: the store, the directories, the stations and the     *)
(* USB keys, whatever commands of keysas-admin run at the same time.        *)
THEOREM AdminTypeCorrect == AdminSpec => []AdminTypeOK
<1>1. AdminShape => AdminTypeOK
  BY ShapeIsType
<1> QED
  BY <1>1, AdminShapeHolds, PTL

------------------------------------------------------------------------------
(* Enrolments.                                                              *)

(* A step that leaves the stations alone, and after which an enrolment that *)
(* is alone was so before and has sent what it should.                      *)
LEMMA EnrolmentKept ==
  ASSUME AdminShape, Enrolment, UNCHANGED station, enrolled' \subseteq enrolled,
         \A s \in Stations : signer'[s] = signer[s] \/ signer'[s] = Loaded(s),
         \A u \in Tasks, s \in Stations : Enrolling(u, s)' =>
           /\ Enrolling(u, s)
           /\ task'[u].alone => task[u].alone /\ Enrols(u)'
  PROVE  Enrolment'
<1>1. ASSUME NEW t \in Tasks, NEW s \in Stations, Enrolling(t, s)'
      PROVE  /\ s \notin enrolled'
             /\ task'[t].alone =>
                  Enrols(t)' /\ \A u \in Tasks \ {t} : ~Enrolling(u, s)'
  BY <1>1 DEF Enrolment
<1>2. ASSUME NEW s \in enrolled'
      PROVE  Ready(s)'
  <2>1. s \in Stations /\ Ready(s)
    BY <1>2 DEF Enrolment, AdminShape, Keyed
  <2>2. Loaded(s)' = Loaded(s)
    BY DEF Loaded
  <2>3. signer'[s] = Loaded(s)
    BY <2>1 DEF Ready
  <2> QED
    BY <2>1, <2>2, <2>3 DEF Ready
<1> QED
  BY <1>1, <1>2 DEF Enrolment

LEMMA EnrolmentLoads ==
  ASSUME AdminShape, Enrolment, NEW t \in Tasks,
         \/ \E s \in Stations : init_keysas(t, s)
         \/ LoadStationCa(t) \/ LoadUsbCa(t) \/ LoadFails(t)
  PROVE  Enrolment'
<1>0. task \in [Tasks -> Jobs] /\ \A u \in Tasks \ {t} : task'[u] = task[u]
  BY DEF AdminShape, Working, init_keysas, LoadStationCa, LoadUsbCa, LoadFails, Ends
<1>1. UNCHANGED <<station, signer, enrolled>>
  BY DEF init_keysas, LoadStationCa, LoadUsbCa, LoadFails, enrolVars
<1>2. ASSUME NEW u \in Tasks, u # t, NEW s \in Stations, Enrolling(u, s)'
      PROVE  /\ Enrolling(u, s)
             /\ task'[u].alone => task[u].alone /\ Enrols(u)'
  <2>1. task'[u] = task[u]
    BY <1>0, <1>2
  <2>2. Enrolling(u, s)
    BY <1>2, <2>1 DEF Enrolling
  <2>3. task[u].alone => Enrols(u)
    BY <1>2, <2>2 DEF Enrolment
  <2> QED
    BY <1>1, <2>1, <2>2, <2>3 DEF Enrols
<1>3. ASSUME NEW s \in Stations, Enrolling(t, s)'
      PROVE  /\ Enrolling(t, s)
             /\ task'[t].alone => task[t].alone /\ Enrols(t)'
  <2>1. CASE \E s2 \in Stations : init_keysas(t, s2)
    <3>1. task'[t].at = "generate"
      BY <1>0, <2>1 DEF init_keysas
    <3> QED
      BY <1>3, <3>1 DEF Enrolling
  <2>2. CASE LoadStationCa(t)
    <3>1. task[t].do = "init" /\ task[t].at = "st"
      BY <2>2 DEF LoadStationCa
    <3>2. task[t] \in InitJobs
      BY <3>1, InitJobIs
    <3>3. /\ task'[t].at = "usb" /\ task'[t].on = task[t].on /\ task'[t].do = "init"
          /\ task'[t].key = task[t].key /\ task'[t].alone = task[t].alone
      BY <1>0, <2>2, <3>1, <3>2 DEF LoadStationCa, InitJobs
    <3>4. Enrolling(t, s)
      BY <1>3, <3>1, <3>3 DEF Enrolling
    <3>5. task[t].alone => station[task[t].on].key = [h \in Halves |-> task[t].key]
      BY <3>4 DEF Enrolment, Enrols
    <3> QED
      BY <1>1, <3>3, <3>4, <3>5 DEF Enrols
  <2>3. CASE LoadUsbCa(t)
    <3> DEFINE usb == Certified(task[t].dir, "usb")
               both == {task[t].ca[h] : h \in Halves} \cup {usb[h] : h \in Halves}
    <3>1. task[t].do = "init" /\ task[t].at = "usb" /\ Loads(task[t].dir, "usb")
      BY <2>3 DEF LoadUsbCa
    <3>2. task[t] \in InitJobs /\ task[t].ca \in [Halves -> Pkis]
      BY <3>1, InitJobIs DEF Sound
    <3>3. usb \in [Halves -> Pkis]
      BY <3>1, LoadsGenerated DEF CaNames
    <3>4. task' = [task EXCEPT ![t] = [[[task[t] EXCEPT !.at = "load"] EXCEPT !.usb = usb]
                     EXCEPT !.alone = task[t].alone /\ Cardinality(both) = 1]]
      BY <1>0, <2>3 DEF LoadUsbCa
    <3> HIDE DEF usb
    <3>5. /\ task'[t].at = "load" /\ task'[t].on = task[t].on /\ task'[t].do = "init"
          /\ task'[t].key = task[t].key /\ task'[t].ca = task[t].ca /\ task'[t].usb = usb
          /\ task'[t].next = task[t].next
          /\ task'[t].alone => task[t].alone /\ Cardinality(both) = 1
      BY <1>0, <3>2, <3>4 DEF InitJobs
    <3>6. task[t].next = 1
      BY <3>1, InitJobIs DEF Sound
    <3>7. Enrolling(t, s)
      BY <1>3, <3>1, <3>5 DEF Enrolling
    <3>8. task[t].alone => station[task[t].on].key = [h \in Halves |-> task[t].key]
      BY <3>7 DEF Enrolment, Enrols
    <3>9. ASSUME Cardinality(both) = 1
          PROVE  \E g \in Pkis : task[t].ca = [h \in Halves |-> g]
                                 /\ usb = [h \in Halves |-> g]
      <4>1. IsFiniteSet(both)
        <5>1. both = (({task[t].ca["cl"]} \cup {task[t].ca["pq"]}) \cup {usb["cl"]})
                        \cup {usb["pq"]}
          BY DEF Halves
        <5> HIDE DEF both
        <5>2. IsFiniteSet({task[t].ca["cl"]})
          BY FS_Singleton
        <5>3. IsFiniteSet({task[t].ca["cl"]} \cup {task[t].ca["pq"]})
          BY <5>2, FS_AddElement
        <5>4. IsFiniteSet(({task[t].ca["cl"]} \cup {task[t].ca["pq"]}) \cup {usb["cl"]})
          BY <5>3, FS_AddElement
        <5> QED
          BY <5>1, <5>4, FS_AddElement
      <4>2. PICK g : both = {g}
        BY <3>9, <4>1, FS_Singleton
      <4>3. \A h \in Halves : task[t].ca[h] \in both /\ usb[h] \in both
        OBVIOUS
      <4> HIDE DEF both
      <4>4. \A h \in Halves : task[t].ca[h] = g /\ usb[h] = g
        BY <4>2, <4>3
      <4>5. "cl" \in Halves
        BY DEF Halves
      <4>6. g \in Pkis
        BY <3>3, <4>4, <4>5
      <4> QED
        BY <3>2, <3>3, <4>4, <4>6
    <3> HIDE DEF both
    <3>10. \A i \in 1 .. 4 : ~Sent(task'[t], i)
      BY <3>5, <3>6 DEF Sent
    <3> QED
      BY <1>1, <3>5, <3>7, <3>8, <3>9, <3>10 DEF Enrols
  <2>4. CASE LoadFails(t)
    <3>1. task'[t].do = "nothing"
      BY <1>0, <2>4, IdleIs DEF LoadFails, Ends
    <3> QED
      BY <1>3, <3>1 DEF Enrolling
  <2> QED
    BY <2>1, <2>2, <2>3, <2>4
<1> QED
  BY <1>1, <1>2, <1>3, EnrolmentKept

(* keysas-sign replaces the keys of a station. *)
LEMMA EnrolmentRekeys ==
  ASSUME AdminShape, Enrolment, NEW t \in Tasks, GenerateKeys(t) \/ GenerateKeysFails(t)
  PROVE  Enrolment'
<1> DEFINE s == task[t].on
           others == {u \in Tasks \ {t} : Enrolling(u, s)}
<1>1. /\ task[t].do = "init" /\ task[t].at = "generate" /\ s \in Stations
      /\ enrolled' = enrolled \ {s} /\ UNCHANGED signer
  BY Rekeys
<1>2. task[t] \in InitJobs /\ station \in [Stations -> OnStation(keygens)]
      /\ enrolled \subseteq Stations
  BY <1>1, InitJobIs DEF AdminShape, Keyed, OnStation
<1>3. /\ \A s2 \in Stations : s2 # s => station'[s2] = station[s2]
  BY <1>2 DEF GenerateKeys, GenerateKeysFails
<1>4. PICK job :
        /\ \/ job = Idle
           \/ job = [[task[t] EXCEPT !.at = "st"] EXCEPT !.key = keygens + 1]
              /\ station'[s].key = [h \in Halves |-> keygens + 1]
        /\ task' = [u \in Tasks |->
             IF u = t THEN (IF job = Idle THEN Idle ELSE [job EXCEPT !.alone = (others = {})])
             ELSE IF u \in others THEN [task[u] EXCEPT !.alone = FALSE] ELSE task[u]]
  <2>1. CASE GenerateKeys(t)
    <3>1. station' = [station EXCEPT ![s].key = [h \in Halves |-> keygens + 1]]
      BY <2>1 DEF GenerateKeys
    <3>2. station'[s].key = [h \in Halves |-> keygens + 1]
      BY <1>1, <1>2, <3>1 DEF OnStation
    <3> QED
      BY <1>2, <2>1, <3>2 DEF GenerateKeys, Rekeyed, InitJobs
  <2>2. CASE GenerateKeysFails(t)
    BY <2>2 DEF GenerateKeysFails, Rekeyed
  <2> QED
    BY <2>1, <2>2
<1>5. ASSUME NEW u \in Tasks, u # t
      PROVE  /\ \A s2 : Enrolling(u, s2)' <=> Enrolling(u, s2)
             /\ u \in others => task'[u].alone = FALSE
             /\ u \notin others => task'[u] = task[u]
  <2>1. CASE u \in others
    <3>1. task[u].do = "init"
      BY <2>1 DEF Enrolling
    <3>2. task[u] \in InitJobs
      BY <3>1, InitJobIs
    <3>3. task'[u] = [task[u] EXCEPT !.alone = FALSE]
      BY <1>4, <1>5, <2>1
    <3>4. /\ task'[u].do = task[u].do /\ task'[u].on = task[u].on /\ task'[u].at = task[u].at
          /\ task'[u].alone = FALSE
      BY <3>2, <3>3 DEF InitJobs
    <3> QED
      BY <2>1, <3>4 DEF Enrolling
  <2>2. CASE u \notin others
    <3>1. task'[u] = task[u]
      BY <1>4, <1>5, <2>2
    <3> QED
      BY <2>2, <3>1 DEF Enrolling
  <2> QED
    BY <2>1, <2>2
<1>6. /\ \A s2 : Enrolling(t, s2)' => s2 = s /\ job # Idle
      /\ job # Idle => /\ task'[t].key = keygens + 1 /\ task'[t].at = "st" /\ task'[t].on = s
                       /\ task'[t].alone = (others = {})
  <2>1. CASE job = Idle
    <3>1. task'[t].do = "nothing"
      BY <1>4, <2>1, IdleIs
    <3> QED
      BY <2>1, <3>1 DEF Enrolling
  <2>2. CASE job # Idle
    <3> HIDE DEF others
    <3>1. PICK alone : /\ alone = (others = {})
                       /\ task'[t] = [[[task[t] EXCEPT !.at = "st"] EXCEPT !.key = keygens + 1]
                                        EXCEPT !.alone = alone]
      BY <1>4, <2>2
    <3>2. /\ task'[t].key = keygens + 1 /\ task'[t].at = "st" /\ task'[t].on = s
          /\ task'[t].alone = alone
      BY <1>2, <3>1 DEF InitJobs
    <3> QED
      BY <2>2, <3>1, <3>2 DEF Enrolling
  <2> QED
    BY <2>1, <2>2
<1>7. ASSUME NEW u \in Tasks, NEW s2 \in Stations, Enrolling(u, s2)'
      PROVE  /\ s2 \notin enrolled'
             /\ task'[u].alone =>
                  Enrols(u)' /\ \A v \in Tasks \ {u} : ~Enrolling(v, s2)'
  <2>1. CASE u = t
    <3>1. s2 = s /\ job # Idle
      BY <1>6, <1>7, <2>1
    <3>2. s2 \notin enrolled'
      BY <1>1, <3>1
    <3>3. Enrols(u)'
      BY <1>4, <1>6, <2>1, <3>1 DEF Enrols
    <3>4. ASSUME task'[u].alone, NEW v \in Tasks \ {u}
          PROVE  ~Enrolling(v, s2)'
      <4>1. others = {}
        BY <1>6, <2>1, <3>1, <3>4
      <4> QED
        BY <1>5, <2>1, <3>1, <4>1
    <3> QED
      BY <3>2, <3>3, <3>4
  <2>2. CASE u # t /\ s2 = s
    <3>1. u \in others
      BY <1>5, <1>7, <2>2
    <3> QED
      BY <1>1, <1>5, <2>2, <3>1
  <2>3. CASE u # t /\ s2 # s
    <3>1. Enrolling(u, s2)
      BY <1>5, <1>7, <2>3
    <3>2. u \notin others /\ task'[u] = task[u] /\ task[u].on = s2
      BY <1>5, <2>3, <3>1 DEF Enrolling
    <3>3. s2 \notin enrolled'
      BY <1>1, <3>1 DEF Enrolment
    <3>4. task[u].alone => Enrols(u) /\ \A v \in Tasks \ {u} : ~Enrolling(v, s2)
      BY <3>1 DEF Enrolment
    <3>5. station'[s2] = station[s2]
      BY <1>3, <2>3
    <3>6. Enrols(u) => Enrols(u)'
      BY <3>2, <3>5 DEF Enrols
    <3>7. \A v \in Tasks \ {u} : Enrolling(v, s2)' => Enrolling(v, s2)
      BY <1>5, <1>6, <2>3
    <3> QED
      BY <3>2, <3>3, <3>4, <3>6, <3>7
  <2> QED
    BY <2>1, <2>2, <2>3
<1>8. ASSUME NEW s2 \in enrolled'
      PROVE  Ready(s2)'
  <2>1. s2 \in Stations /\ s2 # s /\ Ready(s2)
    BY <1>1, <1>2, <1>8 DEF Enrolment
  <2>2. station'[s2] = station[s2] /\ UNCHANGED signer
    BY <1>1, <1>3, <2>1
  <2>3. Loaded(s2)' = Loaded(s2)
    BY <2>2 DEF Loaded
  <2> QED
    BY <2>1, <2>2, <2>3 DEF Ready
<1> HIDE DEF others
<1> QED
  BY <1>7, <1>8 DEF Enrolment

(* keysas-sign writes a certificate. *)
LEMMA EnrolmentSends ==
  ASSUME AdminShape, Enrolment, NEW t \in Tasks, SendCertificate(t)
  PROVE  Enrolment'
<1>1. /\ task[t].do = "init" /\ task[t].at = "load" /\ UNCHANGED <<signer, keygens, enrolled>>
  BY DEF SendCertificate
<1>2. /\ task[t] \in InitJobs /\ task \in [Tasks -> Jobs]
      /\ station \in [Stations -> OnStation(keygens)] /\ task[t].on \in Stations
      /\ enrolled \subseteq Stations /\ task[t].next \in 1 .. 4
  BY <1>1, InitJobIs DEF AdminShape, Working, Keyed, OnStation, InitJobs
<1>3. \A u \in Tasks \ {t} : task'[u] = task[u]
  BY <1>2 DEF SendCertificate, Becomes
<1>4. Enrolling(t, task[t].on)
  BY <1>1 DEF Enrolling
<1>5. PICK alone \in BOOLEAN :
        /\ task'[t] = [[task[t] EXCEPT !.at = "restart"] EXCEPT !.alone = alone]
        /\ \/ /\ alone = task[t].alone
              /\ station' = [station EXCEPT ![task[t].on].certs[Kinds[task[t].next]]
                                              = Certificate(task[t], Kinds[task[t].next])]
           \/ ~alone /\ UNCHANGED station
  <2>1. CASE task' = [task EXCEPT ![t]["at"] = "restart"]
             /\ station' = [station EXCEPT ![task[t].on].certs[Kinds[task[t].next]]
                                              = Certificate(task[t], Kinds[task[t].next])]
    <3>1. task'[t] = [task[t] EXCEPT !.at = "restart"] /\ task[t].alone \in BOOLEAN
      BY <1>2, <2>1 DEF InitJobs
    <3>2. [[task[t] EXCEPT !.at = "restart"] EXCEPT !.alone = task[t].alone]
            = [task[t] EXCEPT !.at = "restart"]
      BY <1>2 DEF InitJobs
    <3> QED
      BY <2>1, <3>1, <3>2
  <2>2. CASE task' = [task EXCEPT ![t].at = "restart", ![t].alone = FALSE]
             /\ UNCHANGED station
    <3>1. task'[t] = [[task[t] EXCEPT !.at = "restart"] EXCEPT !.alone = FALSE]
      BY <1>2, <2>2
    <3> QED
      BY <2>2, <3>1
  <2> QED
    BY <2>1, <2>2 DEF SendCertificate, Becomes
<1>6. /\ task'[t].do = "init" /\ task'[t].at = "restart" /\ task'[t].on = task[t].on
      /\ task'[t].key = task[t].key /\ task'[t].ca = task[t].ca /\ task'[t].usb = task[t].usb
      /\ task'[t].next = task[t].next /\ task'[t].alone = alone
  BY <1>2, <1>5 DEF InitJobs
<1>7. \A u \in Tasks, s \in Stations : Enrolling(u, s)' <=> Enrolling(u, s)
  BY <1>1, <1>3, <1>6 DEF Enrolling
<1>8. CASE ~alone /\ UNCHANGED station
  <2>1. ASSUME NEW u \in Tasks, NEW s \in Stations, Enrolling(u, s)'
        PROVE  /\ Enrolling(u, s)
               /\ task'[u].alone => task[u].alone /\ Enrols(u)'
    <3>1. CASE u = t
      BY <1>6, <1>7, <1>8, <2>1, <3>1
    <3>2. CASE u # t
      <4>1. task'[u] = task[u] /\ Enrolling(u, s)
        BY <1>3, <1>7, <2>1, <3>2
      <4>2. task[u].alone => Enrols(u)
        BY <4>1 DEF Enrolment
      <4> QED
        BY <1>8, <4>1, <4>2 DEF Enrols
    <3> QED
      BY <3>1, <3>2
  <2> QED
    BY <1>1, <1>8, <2>1, EnrolmentKept
<1>9. CASE /\ alone = task[t].alone
           /\ station' = [station EXCEPT ![task[t].on].certs[Kinds[task[t].next]]
                                           = Certificate(task[t], Kinds[task[t].next])]
  <2> DEFINE s == task[t].on
             kind == Kinds[task[t].next]
             c == Certificate(task[t], kind)
  <2>1. \A s2 \in Stations : s2 # s => station'[s2] = station[s2]
    BY <1>2, <1>9
  <2>2. /\ station'[s].key = station[s].key
        /\ \A k \in KindNames : station'[s].certs[k] = IF k = kind THEN c ELSE station[s].certs[k]
    BY <1>2, <1>9 DEF OnStation
  <2>3. ASSUME NEW u \in Tasks, NEW s2 \in Stations, Enrolling(u, s2)'
        PROVE  /\ s2 \notin enrolled'
               /\ task'[u].alone =>
                    Enrols(u)' /\ \A v \in Tasks \ {u} : ~Enrolling(v, s2)'
    <3>1. /\ Enrolling(u, s2) /\ s2 \notin enrolled' /\ task[u].on = s2
          /\ task[u].alone => Enrols(u) /\ \A v \in Tasks \ {u} : ~Enrolling(v, s2)'
      BY <1>1, <1>7, <2>3 DEF Enrolment, Enrolling
    <3>2. CASE u = t
      <4> SUFFICES ASSUME task'[u].alone
                   PROVE  Enrols(u)' /\ \A v \in Tasks \ {u} : ~Enrolling(v, s2)'
        BY <3>1
      <4>1. task[t].alone
        BY <1>6, <1>9, <3>2
      <4>2. Enrols(t) /\ \A v \in Tasks \ {u} : ~Enrolling(v, s2)'
        BY <3>1, <3>2, <4>1
      <4>3. station'[s].key = [h \in Halves |-> task'[t].key]
        BY <1>6, <2>2, <4>2 DEF Enrols
      <4>4. \E g \in Pkis : /\ task'[t].ca = [h \in Halves |-> g]
                            /\ task'[t].usb = [h \in Halves |-> g]
        BY <1>1, <1>6, <4>2 DEF Enrols
      <4>5. ASSUME NEW i \in 1 .. 4, Sent(task'[t], i)
            PROVE  station'[s].certs[Kinds[i]] = Certificate(task'[t], Kinds[i])
        <5>1. i < task[t].next \/ i = task[t].next
          BY <1>6, <4>5 DEF Sent
        <5>2. Certificate(task'[t], Kinds[i]) = Certificate(task[t], Kinds[i])
          BY <1>6 DEF Certificate
        <5>3. CASE i = task[t].next
          BY <2>2, <5>2, <5>3, NamesAre
        <5>4. CASE i < task[t].next
          <6>1. Kinds[i] # kind
            BY <1>2, <5>4, KindsAre
          <6>2. station[s].certs[Kinds[i]] = Certificate(task[t], Kinds[i])
            BY <1>1, <4>2, <5>4 DEF Enrols, Sent
          <6> QED
            BY <2>2, <5>2, <6>1, <6>2, NamesAre
        <5> QED
          BY <5>1, <5>3, <5>4
      <4>6. task'[t].on = s
        BY <1>6
      <4> HIDE DEF s, kind, c
      <4> QED
        BY <3>2, <4>2, <4>3, <4>4, <4>5, <4>6 DEF Enrols
    <3>3. CASE u # t /\ s2 = s
      <4>1. ~task[u].alone
        BY <1>4, <3>1, <3>3 DEF Enrolment
      <4> QED
        BY <1>3, <3>1, <3>3, <4>1
    <3>4. CASE u # t /\ s2 # s
      <4>1. task'[u] = task[u] /\ station'[s2] = station[s2]
        BY <1>3, <2>1, <3>4
      <4>2. Enrols(u) => Enrols(u)'
        BY <3>1, <4>1 DEF Enrols
      <4> QED
        BY <3>1, <4>1, <4>2
    <3> QED
      BY <3>2, <3>3, <3>4
  <2>4. ASSUME NEW s2 \in enrolled'
        PROVE  Ready(s2)'
    <3>1. s2 \in Stations /\ Ready(s2) /\ s2 # s
      BY <1>1, <1>2, <1>4, <2>4 DEF Enrolment
    <3>2. station'[s2] = station[s2] /\ UNCHANGED signer
      BY <1>1, <2>1, <3>1
    <3>3. Loaded(s2)' = Loaded(s2)
      BY <3>2 DEF Loaded
    <3> QED
      BY <3>1, <3>2, <3>3 DEF Ready
  <2> QED
    BY <2>3, <2>4 DEF Enrolment
<1> QED
  BY <1>5, <1>8, <1>9

(* The daemons of a station are restarted after each certificate; after the *)
(* fourth, the station of an enrolment that was alone has all it needs.     *)
LEMMA EnrolmentRestarts ==
  ASSUME AdminShape, Enrolment, NEW t \in Tasks, RestartKeysas(t)
  PROVE  Enrolment'
<1>0. PICK s : s = task[t].on
  OBVIOUS
<1> USE <1>0
<1>1. /\ task[t].do = "init" /\ task[t].at = "restart" /\ UNCHANGED <<station, keygens>>
      /\ signer' = [signer EXCEPT ![s] = Loaded(s)]
  BY DEF RestartKeysas
<1>2. /\ task[t] \in InitJobs /\ task \in [Tasks -> Jobs] /\ s \in Stations
      /\ station \in [Stations -> OnStation(keygens)]
      /\ signer \in [Stations -> InSigner(keygens)]
      /\ enrolled \subseteq Stations /\ task[t].key \in 1 .. keygens
      /\ Idle.do = "nothing"
  BY <1>1, InitJobIs, IdleIs
     DEF AdminShape, Working, Keyed, OnStation, InSigner, InitJobs, Sound
<1>3. \A s2 \in Stations : signer'[s2] = signer[s2] \/ signer'[s2] = Loaded(s2)
  BY <1>1, <1>2
<1>4. Enrolling(t, s) /\ s \notin enrolled
      /\ (task[t].alone => Enrols(t) /\ \A v \in Tasks \ {t} : ~Enrolling(v, s))
  BY <1>1, <1>2 DEF Enrolling, Enrolment
<1>5. CASE task[t].next # 4
  <2>1. /\ task' = [task EXCEPT ![t] = [[task[t] EXCEPT !.at = "load"]
                                          EXCEPT !.next = task[t].next + 1]]
        /\ UNCHANGED enrolled
    BY <1>2, <1>5 DEF RestartKeysas
  <2>2. /\ task'[t].do = "init" /\ task'[t].at = "load" /\ task'[t].on = s
        /\ task'[t].key = task[t].key /\ task'[t].ca = task[t].ca
        /\ task'[t].usb = task[t].usb /\ task'[t].next = task[t].next + 1
        /\ task'[t].alone = task[t].alone
    BY <1>2, <2>1 DEF InitJobs
  <2>3. ASSUME NEW u \in Tasks, NEW s2 \in Stations, Enrolling(u, s2)'
        PROVE  /\ Enrolling(u, s2)
               /\ task'[u].alone => task[u].alone /\ Enrols(u)'
    <3>1. CASE u = t
      <4>1. Enrolling(t, s2) /\ s2 = s
        BY <1>1, <2>2, <2>3, <3>1 DEF Enrolling
      <4> SUFFICES ASSUME task[t].alone PROVE Enrols(t)'
        BY <2>2, <3>1, <4>1
      <4>2. Enrols(t)
        BY <1>4
      <4>3. ASSUME NEW i \in 1 .. 4, Sent(task'[t], i)
            PROVE  station[s].certs[Kinds[i]] = Certificate(task'[t], Kinds[i])
        <5>1. i < task[t].next + 1
          BY <2>2, <4>3 DEF Sent
        <5>2. task[t].next \in 1 .. 4
          BY <1>2 DEF InitJobs
        <5>3. Sent(task[t], i)
          BY <1>1, <5>1, <5>2 DEF Sent
        <5>4. Certificate(task'[t], Kinds[i]) = Certificate(task[t], Kinds[i])
          BY <2>2 DEF Certificate
        <5> QED
          BY <1>1, <4>2, <5>3, <5>4 DEF Enrols
      <4>4. /\ station[s].key = [h \in Halves |-> task'[t].key]
            /\ \E g \in Pkis : task'[t].ca = [h \in Halves |-> g]
                               /\ task'[t].usb = [h \in Halves |-> g]
        BY <1>1, <2>2, <4>2 DEF Enrols
      <4> QED
        BY <1>1, <2>2, <4>3, <4>4 DEF Enrols
    <3>2. CASE u # t
      <4>1. task'[u] = task[u] /\ Enrolling(u, s2)
        BY <1>2, <2>1, <2>3, <3>2 DEF Enrolling
      <4>2. task[u].alone => Enrols(u)
        BY <4>1 DEF Enrolment
      <4> QED
        BY <1>1, <4>1, <4>2 DEF Enrols
    <3> QED
      BY <3>1, <3>2
  <2> QED
    BY <1>1, <1>3, <2>1, <2>3, EnrolmentKept
<1>6. CASE task[t].next = 4
  <2>1. /\ task' = [task EXCEPT ![t] = Idle]
        /\ enrolled' = IF task[t].alone THEN enrolled \cup {s} ELSE enrolled
    BY <1>6 DEF RestartKeysas, Ends
  <2>2. \A u \in Tasks, s2 \in Stations :
          Enrolling(u, s2)' => u # t /\ task'[u] = task[u] /\ Enrolling(u, s2)
    BY <1>2, <2>1 DEF Enrolling
  <2>3. \A u \in Tasks, s2 \in Stations :
          Enrolling(u, s2)' /\ task[u].alone => Enrols(u)'
    <3>1. \A u \in Tasks : task'[u] = task[u] /\ Enrols(u) => Enrols(u)'
      BY <1>1 DEF Enrols
    <3> QED
      BY <2>2, <3>1 DEF Enrolment
  <2>4. CASE ~task[t].alone
    <3>1. enrolled' \subseteq enrolled
      BY <2>1, <2>4
    <3> QED
      BY <1>1, <1>3, <2>2, <2>3, <3>1, EnrolmentKept
  <2>5. CASE task[t].alone
    <3>1. ASSUME NEW u \in Tasks, NEW s2 \in Stations, Enrolling(u, s2)'
          PROVE  /\ s2 \notin enrolled'
                 /\ task'[u].alone =>
                      Enrols(u)' /\ \A v \in Tasks \ {u} : ~Enrolling(v, s2)'
      <4>1. Enrolling(u, s2) /\ u # t /\ task'[u] = task[u]
        BY <2>2, <3>1
      <4>2. s2 # s
        BY <1>4, <2>5, <4>1
      <4>3. s2 \notin enrolled'
        BY <2>1, <4>1, <4>2 DEF Enrolment
      <4> QED
        BY <2>2, <2>3, <3>1, <4>1, <4>3 DEF Enrolment
    <3>2. Ready(s)'
      <4>1. Enrols(t)
        BY <1>4, <2>5
      <4>2. station[s].key = [h \in Halves |-> task[t].key]
        BY <4>1 DEF Enrols
      <4>3. PICK g \in Pkis : task[t].ca = [h \in Halves |-> g]
                              /\ task[t].usb = [h \in Halves |-> g]
        BY <1>1, <4>1 DEF Enrols
      <4>4. \A i \in 1 .. 4 : station[s].certs[Kinds[i]] = Certificate(task[t], Kinds[i])
        <5>1. \A i \in 1 .. 4 : Sent(task[t], i)
          BY <1>1, <1>6 DEF Sent
        <5> QED
          BY <1>1, <4>1, <5>1 DEF Enrols
      <4>5. \A h \in Halves :
              /\ station[s].certs[KindOf("file", h)]
                   = [half |-> h, of |-> task[t].key, by |-> g]
              /\ station[s].certs[KindOf("usb", h)] = [half |-> h, of |-> g, by |-> g]
        <5>1. /\ station[s].certs["file-cl"] = Certificate(task[t], "file-cl")
              /\ station[s].certs["file-pq"] = Certificate(task[t], "file-pq")
              /\ station[s].certs["usb-cl"] = Certificate(task[t], "usb-cl")
              /\ station[s].certs["usb-pq"] = Certificate(task[t], "usb-pq")
          BY <4>4, KindsAre
        <5>2. /\ Certificate(task[t], "file-cl") = [half |-> "cl", of |-> task[t].key, by |-> g]
              /\ Certificate(task[t], "file-pq") = [half |-> "pq", of |-> task[t].key, by |-> g]
              /\ Certificate(task[t], "usb-cl") = [half |-> "cl", of |-> g, by |-> g]
              /\ Certificate(task[t], "usb-pq") = [half |-> "pq", of |-> g, by |-> g]
          BY <4>3 DEF Certificate, Halves
        <5> QED
          BY <5>1, <5>2, KindsAre DEF Halves
      <4>6. \A h \in Halves : station[s].key[h] = task[t].key /\ station[s].key[h] # 0
        BY <1>2, <4>2
      <4>7. signer'[s] = Loaded(s) /\ Loaded(s)' = Loaded(s)
        BY <1>1, <1>2 DEF Loaded
      <4> QED
        BY <1>1, <4>5, <4>6, <4>7 DEF Ready
    <3>3. ASSUME NEW s2 \in enrolled'
          PROVE  Ready(s2)'
      <4>1. CASE s2 = s
        BY <3>2, <4>1
      <4>2. CASE s2 # s
        <5>1. s2 \in Stations /\ Ready(s2)
          BY <1>2, <2>1, <3>3, <4>2 DEF Enrolment
        <5>2. signer'[s2] = signer[s2] /\ Loaded(s2)' = Loaded(s2)
          BY <1>1, <1>2, <4>2, <5>1 DEF Loaded
        <5> QED
          BY <1>1, <5>1, <5>2 DEF Ready
      <4> QED
        BY <4>1, <4>2
    <3> QED
      BY <3>1, <3>3 DEF Enrolment
  <2> QED
    BY <2>4, <2>5
<1> QED
  BY <1>5, <1>6

LEMMA EnrolmentStays == AdminShape /\ Enrolment /\ [AdminNext]_adminVars => Enrolment'
<1> SUFFICES ASSUME AdminShape, Enrolment, [AdminNext]_adminVars
             PROVE  Enrolment'
  OBVIOUS
<1>1. ASSUME NEW t \in Tasks,
             \/ \E s \in Stations : init_keysas(t, s)
             \/ GenerateKeys(t) \/ GenerateKeysFails(t)
             \/ LoadStationCa(t) \/ LoadUsbCa(t) \/ LoadFails(t)
             \/ SendCertificate(t) \/ RestartKeysas(t)
      PROVE  Enrolment'
  BY <1>1, EnrolmentLoads, EnrolmentRekeys, EnrolmentSends, EnrolmentRestarts
<1>2. CASE /\ AdminNext
           /\ \A u \in Tasks : task'[u].do = "init" => task'[u] = task[u]
           /\ ~\E t \in Tasks : \/ GenerateKeys(t) \/ GenerateKeysFails(t)
                                \/ SendCertificate(t) \/ RestartKeysas(t)
  <2>1. /\ UNCHANGED station /\ enrolled' = enrolled
        /\ \A s \in Stations : signer'[s] = signer[s] \/ signer'[s] = Loaded(s)
    <3>1. CASE UNCHANGED enrolVars
      BY <3>1 DEF enrolVars
    <3>2. ASSUME NEW s \in Stations, SignerRestarts(s)
          PROVE  /\ UNCHANGED station /\ enrolled' = enrolled
                 /\ \A s2 \in Stations : signer'[s2] = signer[s2] \/ signer'[s2] = Loaded(s2)
      BY <3>2 DEF SignerRestarts, AdminShape, Keyed
    <3> QED
      BY <1>2, <3>1, <3>2, KeySteps
  <2>2. ASSUME NEW u \in Tasks, NEW s \in Stations, Enrolling(u, s)'
        PROVE  /\ Enrolling(u, s)
               /\ task'[u].alone => task[u].alone /\ Enrols(u)'
    <3>1. task'[u] = task[u] /\ Enrolling(u, s)
      BY <1>2, <2>2 DEF Enrolling
    <3>2. task[u].alone => Enrols(u)
      BY <3>1 DEF Enrolment
    <3> QED
      BY <2>1, <3>1, <3>2 DEF Enrols
  <2>3. enrolled' \subseteq enrolled
    BY <2>1
  <2> QED
    BY <2>1, <2>2, <2>3, EnrolmentKept
<1>3. CASE UNCHANGED adminVars
  <2>1. UNCHANGED <<task, station, signer, enrolled>>
    BY <1>3 DEF adminVars, enrolVars
  <2>2. \A u \in Tasks, s \in Stations :
          Enrolling(u, s)' => /\ Enrolling(u, s)
                              /\ task'[u].alone => task[u].alone /\ Enrols(u)'
    BY <2>1 DEF Enrolling, Enrols, Enrolment
  <2>3. enrolled' \subseteq enrolled /\ \A s \in Stations : signer'[s] = signer[s]
    BY <2>1
  <2> QED
    BY <2>1, <2>2, <2>3, EnrolmentKept
<1> QED
  BY <1>1, <1>2, <1>3, InitSteps

LEMMA EnrolmentHolds == AdminSpec => []Enrolment
<1>1. AdminInit => Enrolment
  BY IdleIs DEF AdminInit, Enrolment, Enrolling
<1>2. AdminShape /\ Enrolment /\ [AdminNext]_adminVars => Enrolment'
  BY EnrolmentStays
<1> QED
  BY <1>1, <1>2, AdminShapeHolds, PTL DEF AdminSpec

(* A ready station has loaded its own key and two certificates of it. *)
LEMMA ReadySigns ==
  ASSUME NEW s, Ready(s)
  PROVE  \E g \in Pkis : \A h \in Halves :
           /\ signer[s].certs[h] = [half |-> h, of |-> signer[s].key[h], by |-> g]
           /\ station[s].certs[KindOf("usb", h)] = [half |-> h, of |-> g, by |-> g]
<1>1. PICK g \in Pkis : \A h \in Halves :
        /\ station[s].key[h] # 0
        /\ station[s].certs[KindOf("file", h)]
             = [half |-> h, of |-> station[s].key[h], by |-> g]
        /\ station[s].certs[KindOf("usb", h)] = [half |-> h, of |-> g, by |-> g]
  BY DEF Ready
<1>2. \A h \in Halves : station[s].certs[KindOf("file", h)] # NoCert
  <2>1. ASSUME NEW h \in Halves
        PROVE  station[s].certs[KindOf("file", h)].half = h
    <3>1. station[s].certs[KindOf("file", h)] = [half |-> h, of |-> station[s].key[h], by |-> g]
      BY <1>1
    <3> QED
      BY <3>1
  <2>2. \A h \in Halves : NoCert.half # h
    BY DEF NoCert, Halves
  <2> QED
    BY <2>1, <2>2
<1>3. Loaded(s) = [key |-> station[s].key,
                   certs |-> [h \in Halves |-> station[s].certs[KindOf("file", h)]]]
  BY <1>1, <1>2 DEF Loaded
<1>4. /\ signer[s].key = station[s].key
      /\ \A h \in Halves : signer[s].certs[h] = station[s].certs[KindOf("file", h)]
  BY <1>3 DEF Ready
<1> QED
  BY <1>1, <1>4

(* A station that init_keysas enrolled, alone and with the files of one     *)
(* PKI, signs its reports with a key both certificates in them are for, and *)
(* has its four certificates from that PKI, whatever enrolments of other    *)
(* stations, generations and restarts of keysas-out come between.           *)
THEOREM EnrolledStationSigns == AdminSpec => []EnrolledSignsWell
<1>1. Enrolment => EnrolledSignsWell
  BY ReadySigns DEF Enrolment, EnrolledSignsWell
<1> QED
  BY <1>1, EnrolmentHolds, PTL

------------------------------------------------------------------------------
(* USB keys.                                                                *)

LEMMA WaitSteps ==
  ASSUME AdminShape, AdminNext
  PROVE  \/ \E t \in Tasks :
              \/ \E do \in {"sign", "revoke"} : watch_new_usb(t, do)
              \/ SignDevice(t) \/ WriteSize(t) \/ WriteText(t)
         \/ \E k \in Sticks : Plug(k)
         \/ \A u \in Tasks : task'[u].do \in {"sign", "revoke"} => task'[u] = task[u]
<1>0. /\ task \in [Tasks -> Jobs] /\ Idle.do = "nothing"
      /\ \A u \in Tasks : task[u].do = "restore" => task[u] \in RestoreJobs
      /\ \A u \in Tasks : task[u].do = "generate" => task[u] \in GenerateJobs
      /\ \A u \in Tasks : task[u].do = "init" => task[u] \in InitJobs
  BY IdleIs, JobIs DEF AdminShape, Working
<1>1. ASSUME NEW t \in Tasks,
             \/ \E o \in Orgs, d \in Dirs : generate_pki_in_dir(t, o, d)
             \/ SaveKeys(t)
             \/ \E d \in Dirs : restore_pki(t, d)
             \/ RestoreDrops(t) \/ RestoreStores(t) \/ Fail(t)
             \/ \E s \in Stations : init_keysas(t, s)
             \/ LoadStationCa(t) \/ LoadUsbCa(t) \/ LoadFails(t)
             \/ SendCertificate(t) \/ RestartKeysas(t)
      PROVE  \A u \in Tasks : task'[u].do \in {"sign", "revoke"} => task'[u] = task[u]
  <2>1. \A u \in Tasks \ {t} : task'[u] = task[u]
    BY <1>0, <1>1
       DEF generate_pki_in_dir, SaveKeys, restore_pki, RestoreDrops, RestoreStores, Fail,
           init_keysas, LoadStationCa, LoadUsbCa, LoadFails, SendCertificate, RestartKeysas,
           Ends, Becomes
  <2>2. task'[t].do \notin {"sign", "revoke"}
    <3>1. CASE \E o \in Orgs, d \in Dirs : generate_pki_in_dir(t, o, d)
      <4>1. task'[t].do = "generate"
        BY <1>0, <3>1 DEF generate_pki_in_dir
      <4> QED
        BY <4>1
    <3>2. CASE SaveKeys(t)
      <4>1. task'[t].do \in {"generate", "nothing"}
        BY <1>0, <3>2 DEF SaveKeys, Ends, Becomes, GenerateJobs
      <4> QED
        BY <4>1
    <3>3. CASE \E d \in Dirs : restore_pki(t, d)
      <4>1. task'[t].do = "restore"
        BY <1>0, <3>3 DEF restore_pki
      <4> QED
        BY <4>1
    <3>4. CASE RestoreDrops(t)
      <4>1. task'[t].do = "restore"
        BY <1>0, <3>4 DEF RestoreDrops, Becomes, RestoreJobs
      <4> QED
        BY <4>1
    <3>5. CASE RestoreStores(t) \/ Fail(t) \/ LoadFails(t)
      BY <1>0, <3>5 DEF RestoreStores, Fail, LoadFails, Ends
    <3>6. CASE \E s \in Stations : init_keysas(t, s)
      <4>1. task'[t].do = "init"
        BY <1>0, <3>6 DEF init_keysas
      <4> QED
        BY <4>1
    <3>7. CASE LoadStationCa(t) \/ LoadUsbCa(t)
      <4>1. task'[t].do = "init"
        BY <1>0, <3>7 DEF LoadStationCa, LoadUsbCa, InitJobs
      <4> QED
        BY <4>1
    <3>8. CASE SendCertificate(t)
      <4>1. task'[t].do = "init"
        BY <1>0, <3>8 DEF SendCertificate, Becomes, InitJobs
      <4> QED
        BY <4>1
    <3>9. CASE RestartKeysas(t)
      <4>1. task'[t].do \in {"init", "nothing"}
        BY <1>0, <3>9 DEF RestartKeysas, Ends, InitJobs
      <4> QED
        BY <4>1
    <3> QED
      BY <1>1, <3>1, <3>2, <3>3, <3>4, <3>5, <3>6, <3>7, <3>8, <3>9
  <2> QED
    BY <2>1, <2>2
<1>2. ASSUME NEW t \in Tasks, GenerateKeys(t) \/ GenerateKeysFails(t)
      PROVE  \A u \in Tasks : task'[u].do \in {"sign", "revoke"} => task'[u] = task[u]
  <2>1. task[t].do = "init"
    BY <1>2, Rekeys
  <2>2. ASSUME NEW u \in Tasks, task'[u] # task[u]
        PROVE  task'[u].do \notin {"sign", "revoke"}
    <3>1. CASE u = t
      <4>1. PICK alone : \/ task'[t] = [[[task[t] EXCEPT !.at = "st"] EXCEPT !.key = keygens + 1]
                                          EXCEPT !.alone = alone]
                         \/ task'[t] = Idle
        BY <1>0, <1>2, <2>1 DEF GenerateKeys, GenerateKeysFails, Rekeyed, InitJobs
      <4>2. task'[t].do \in {"init", "nothing"}
        BY <1>0, <2>1, <4>1 DEF InitJobs
      <4> QED
        BY <3>1, <4>2
    <3>2. CASE u # t
      <4>1. task[u].do = "init" /\ task'[u] = [task[u] EXCEPT !.alone = FALSE]
        BY <1>2, <2>2, <3>2 DEF GenerateKeys, GenerateKeysFails, Rekeyed, Enrolling
      <4>2. task'[u].do = "init"
        BY <1>0, <4>1 DEF InitJobs
      <4> QED
        BY <4>2
    <3> QED
      BY <3>1, <3>2
  <2> QED
    BY <2>2
<1>3. CASE del_pki \/ \E s \in Stations : SignerRestarts(s)
  BY <1>3 DEF del_pki, SignerRestarts
<1> QED
  BY <1>1, <1>2, <1>3 DEF AdminNext

(* A step after which every command with a key had it before.               *)
LEMMA SigningKept ==
  ASSUME AdminShape, Signing, UNCHANGED stickVars,
         \A k \in Sticks : \A u \in Writing(k)' :
           /\ u \in Writing(k) /\ task'[u].do = task[u].do
           /\ task'[u].alone => task[u].alone
           /\ task'[u].at = "text" => task[u].at = "text"
  PROVE  Signing'
<1>0. UNCHANGED <<stick, lastSaid, doubted>>
  BY DEF stickVars
<1>1. ASSUME NEW k \in Sticks, NEW t \in Writing(k)'
      PROVE  /\ task'[t].alone => Writing(k)' = {t}
             /\ task'[t].at = "text" =>
                  k \in doubted /\ (task'[t].alone => stick[k].size = task'[t].do)
  <2>1. /\ t \in Writing(k) /\ Writing(k)' \subseteq Writing(k) /\ task'[t].do = task[t].do
        /\ task'[t].alone => task[t].alone
        /\ task'[t].at = "text" => task[t].at = "text"
    OBVIOUS
  <2>2. /\ task[t].alone => Writing(k) = {t}
        /\ task[t].at = "text" =>
             k \in doubted /\ (task[t].alone => stick[k].size = task[t].do)
    BY <2>1 DEF Signing
  <2> QED
    BY <2>1, <2>2
<1> QED
  BY <1>0, <1>1 DEF Signing

LEMMA SigningWaits ==
  ASSUME AdminShape, Signing, NEW t \in Tasks,
         (\E do \in {"sign", "revoke"} : watch_new_usb(t, do)) \/ SignDevice(t)
  PROVE  Signing'
<1>0. /\ task \in [Tasks -> Jobs] /\ Idle.do = "nothing" /\ NoStick \notin Sticks
      /\ \A u \in Tasks : task[u].do \in {"sign", "revoke"} => task[u] \in StickJobs
  BY IdleIs, JobIs, NoStickAssumption DEF AdminShape, Working
<1>1. UNCHANGED stickVars /\ \A u \in Tasks \ {t} : task'[u] = task[u]
  BY <1>0 DEF watch_new_usb, SignDevice, Ends
<1>2. ASSUME NEW k \in Sticks, NEW u \in Writing(k)'
      PROVE  /\ u \in Writing(k) /\ task'[u].do = task[u].do
             /\ task'[u].alone => task[u].alone
             /\ task'[u].at = "text" => task[u].at = "text"
  <2>1. u \in Tasks /\ task'[u].do \in {"sign", "revoke"} /\ task'[u].on = k
    BY DEF Writing
  <2>2. CASE u # t
    BY <1>1, <2>1, <2>2 DEF Writing
  <2>3. CASE u = t /\ \E do \in {"sign", "revoke"} : watch_new_usb(t, do)
    <3>1. task'[t].on = NoStick
      BY <1>0, <2>3 DEF watch_new_usb
    <3> QED
      BY <1>0, <2>1, <2>3, <3>1
  <2>4. CASE u = t /\ SignDevice(t)
    <3> DEFINE keys == Private(get_pki_dir, "usb")
    <3>1. \/ task'[t] = Idle
          \/ task'[t] = [[task[t] EXCEPT !.at = "size"] EXCEPT !.text = keys]
      BY <1>0, <2>4 DEF SignDevice, Ends
    <3> HIDE DEF keys
    <3>2. task[t].do = "sign" /\ task[t] \in StickJobs
      BY <1>0, <2>4 DEF SignDevice
    <3>3. /\ task'[t].do = "sign" /\ task'[t].on = task[t].on /\ task'[t].at = "size"
          /\ task'[t].alone = task[t].alone
      BY <1>0, <2>1, <2>4, <3>1, <3>2 DEF StickJobs
    <3> QED
      BY <2>1, <2>4, <3>2, <3>3 DEF Writing
  <2> QED
    BY <1>2, <2>2, <2>3, <2>4
<1> QED
  BY <1>1, <1>2, SigningKept

LEMMA SigningWrites ==
  ASSUME AdminShape, Signing, NEW t \in Tasks, WriteSize(t) \/ WriteText(t)
  PROVE  Signing'
<1>0. PICK s : s = task[t].on
  OBVIOUS
<1>1. /\ task \in [Tasks -> Jobs] /\ task[t] \in StickJobs /\ Idle.do = "nothing"
      /\ task[t].do \in {"sign", "revoke"} /\ s \in Sticks
      /\ task[t].do = "revoke" => task[t].text = NoPair
      /\ stick \in [Sticks -> [size : {"none", "sign", "revoke"}, text : Pairs]]
      /\ lastSaid \in [Sticks -> Pairs]
  BY <1>0, IdleIs, StickJobIs DEF WriteSize, WriteText, AdminShape, Working, Stuck, Sound
<1>2. \A u \in Tasks \ {t} : task'[u] = task[u]
  BY <1>1 DEF WriteSize, WriteText, Becomes, Ends
<1>3. t \in Writing(s) /\ \A k \in Sticks : k # s => t \notin Writing(k)
  BY <1>0, <1>1 DEF Writing
<1>4. CASE WriteSize(t)
  <2>1. /\ stick' = [stick EXCEPT ![s].size = task[t].do] /\ UNCHANGED lastSaid
        /\ doubted' = doubted \cup {s}
    BY <1>0, <1>4 DEF WriteSize
  <2>2. task'[t] = [task[t] EXCEPT !.at = "text"]
    BY <1>1, <1>4 DEF WriteSize, Becomes
  <2>3. /\ task'[t].do = task[t].do /\ task'[t].on = task[t].on /\ task'[t].at = "text"
        /\ task'[t].alone = task[t].alone
    BY <1>1, <2>2 DEF StickJobs
  <2>4. \A k : Writing(k)' = Writing(k)
    BY <1>2, <2>3 DEF Writing
  <2>5. /\ stick'[s].size = task[t].do
        /\ \A k \in Sticks : k # s => stick'[k] = stick[k]
    BY <1>1, <2>1
  <2>6. ASSUME NEW k \in Sticks, NEW u \in Writing(k)'
        PROVE  /\ task'[u].alone => Writing(k)' = {u}
               /\ task'[u].at = "text" =>
                    k \in doubted' /\ (task'[u].alone => stick'[k].size = task'[u].do)
    <3>1. /\ u \in Writing(k) /\ u \in Tasks
          /\ task[u].alone => Writing(k) = {u}
          /\ task[u].at = "text" =>
               k \in doubted /\ (task[u].alone => stick[k].size = task[u].do)
      BY <2>4 DEF Signing, Writing
    <3>2. CASE u = t
      <4>1. k = s
        BY <1>3, <3>1, <3>2
      <4> QED
        BY <2>1, <2>3, <2>4, <2>5, <3>1, <3>2, <4>1
    <3>3. CASE u # t /\ k = s
      <4>1. ~task[u].alone
        BY <1>3, <3>1, <3>3
      <4> QED
        BY <1>2, <2>1, <3>1, <3>3, <4>1
    <3>4. CASE u # t /\ k # s
      BY <1>2, <2>1, <2>4, <2>5, <3>1, <3>4
    <3> QED
      BY <3>2, <3>3, <3>4
  <2>7. \A k \in Sticks \ doubted' :
          /\ stick'[k].text = lastSaid'[k]
          /\ stick'[k].size = "sign" \/ lastSaid'[k] = NoPair
    BY <2>1, <2>5 DEF Signing
  <2> QED
    BY <2>6, <2>7 DEF Signing
<1>5. CASE WriteText(t)
  <2>1. /\ stick' = [stick EXCEPT ![s].text = task[t].text]
        /\ lastSaid' = [lastSaid EXCEPT ![s] = task[t].text]
        /\ doubted' = IF task[t].alone THEN doubted \ {s} ELSE doubted
        /\ task[t].at = "text"
    BY <1>0, <1>5 DEF WriteText
  <2>2. task'[t].do = "nothing"
    BY <1>1, <1>5 DEF WriteText, Ends
  <2>3. \A k : Writing(k)' = Writing(k) \ {t}
    BY <1>2, <2>2 DEF Writing
  <2>4. /\ stick'[s].text = task[t].text /\ lastSaid'[s] = task[t].text
        /\ stick'[s].size = stick[s].size
        /\ \A k \in Sticks : k # s => stick'[k] = stick[k] /\ lastSaid'[k] = lastSaid[k]
    BY <1>1, <2>1
  <2>5. /\ s \in doubted
        /\ task[t].alone => Writing(s) = {t} /\ stick[s].size = task[t].do
    BY <1>1, <1>3, <2>1 DEF Signing
  <2>6. ASSUME NEW k \in Sticks, NEW u \in Writing(k)'
        PROVE  /\ task'[u].alone => Writing(k)' = {u}
               /\ task'[u].at = "text" =>
                    k \in doubted' /\ (task'[u].alone => stick'[k].size = task'[u].do)
    <3>1. /\ u \in Writing(k) /\ u \in Tasks /\ u # t
          /\ task[u].alone => Writing(k) = {u}
          /\ task[u].at = "text" =>
               k \in doubted /\ (task[u].alone => stick[k].size = task[u].do)
      BY <2>3 DEF Signing, Writing
    <3>2. task'[u] = task[u]
      BY <1>2, <3>1
    <3>3. CASE k = s
      <4>1. ~task[u].alone /\ ~task[t].alone
        BY <1>3, <2>5, <3>1, <3>3
      <4> QED
        BY <2>1, <3>1, <3>2, <4>1
    <3>4. CASE k # s
      <4>1. task[u].alone => Writing(k)' = {u}
        BY <2>3, <3>1
      <4> QED
        BY <2>1, <2>4, <3>1, <3>2, <3>4, <4>1
    <3> QED
      BY <3>3, <3>4
  <2>7. ASSUME NEW k \in Sticks \ doubted'
        PROVE  /\ stick'[k].text = lastSaid'[k]
               /\ stick'[k].size = "sign" \/ lastSaid'[k] = NoPair
    <3>1. CASE k = s
      <4>1. task[t].alone /\ stick[s].size = task[t].do
        BY <2>1, <2>5, <2>7, <3>1
      <4> QED
        BY <1>1, <2>4, <3>1, <4>1
    <3>2. CASE k # s
      BY <2>1, <2>4, <2>7, <3>2 DEF Signing
    <3> QED
      BY <3>1, <3>2
  <2> QED
    BY <2>6, <2>7 DEF Signing
<1> QED
  BY <1>4, <1>5

(* A key is plugged in: a command that had it, and every one that waits, has *)
(* it now, and none of them for itself unless it is the only one.           *)
LEMMA SigningPlugs ==
  ASSUME AdminShape, Signing, NEW s \in Sticks, Plug(s)
  PROVE  Signing'
<1> DEFINE all == Watching \cup Writing(s)
<1>0. \A u \in Tasks : task[u].do \in {"sign", "revoke"} =>
        /\ task[u] \in StickJobs
        /\ (task[u].on = NoStick) = (task[u].at = "watch")
  BY StickJobIs DEF Sound
<1>1. /\ UNCHANGED <<stick, lastSaid, doubted>> /\ Watching # {}
      /\ \A u \in Tasks \ all : task'[u] = task[u]
  BY DEF Plug, stickVars
<1>2. ASSUME NEW u \in all
      PROVE  /\ u \in Tasks /\ task'[u].do = task[u].do /\ task'[u].do \in {"sign", "revoke"}
             /\ task'[u].on = s /\ task'[u].alone = (all = {u})
             /\ task'[u].at = "text" => task[u].at = "text" /\ u \in Writing(s)
  <2>1. u \in Tasks /\ task[u].do \in {"sign", "revoke"}
    BY DEF Watching, Writing
  <2>2. task[u] \in StickJobs
    BY <1>0, <2>1
  <2>3. PICK at, alone : /\ task'[u] = [[[task[u] EXCEPT !.on = s] EXCEPT !.alone = alone]
                                          EXCEPT !.at = at]
                         /\ at = IF task[u].at # "watch" THEN task[u].at
                                 ELSE IF task[u].do = "sign" THEN "open" ELSE "size"
                         /\ alone = (all = {u})
    BY <2>1, <2>2 DEF Plug, StickJobs
  <2> HIDE DEF all
  <2>4. /\ task'[u].do = task[u].do /\ task'[u].on = s /\ task'[u].alone = alone
        /\ task'[u].at = at
    BY <2>2, <2>3 DEF StickJobs
  <2>5. at = "text" => task[u].at = "text"
    BY <2>3
  <2>6. task[u].at = "text" => u \in Writing(s)
    BY DEF all, Watching
  <2> QED
    BY <2>1, <2>3, <2>4, <2>5, <2>6
<1>3. Writing(s)' = all
  <2>1. ASSUME NEW u \in Tasks, task'[u].do \in {"sign", "revoke"}, task'[u].on = s
        PROVE  u \in all
    BY <1>1, <2>1 DEF Writing
  <2>2. all \subseteq Writing(s)'
    BY <1>2 DEF Writing
  <2> HIDE DEF all
  <2> QED
    BY <2>1, <2>2 DEF Writing
<1>4. \A k \in Sticks : k # s => /\ Writing(k)' = Writing(k)
                                /\ \A u \in Writing(k) : u \notin all /\ u \in Tasks
  <2> SUFFICES ASSUME NEW k \in Sticks, k # s
               PROVE  /\ Writing(k)' = Writing(k)
                      /\ \A u \in Writing(k) : u \notin all /\ u \in Tasks
    OBVIOUS
  <2>1. \A u \in Writing(k) : u \notin all /\ u \in Tasks
    BY <1>0, NoStickAssumption DEF Writing, Watching
  <2>2. \A u \in Writing(k)' : u \notin all /\ u \in Tasks
    BY <1>2 DEF Writing
  <2> HIDE DEF all
  <2> QED
    BY <1>1, <2>1, <2>2 DEF Writing
<1>5. ASSUME NEW k \in Sticks, NEW u \in Writing(k)'
      PROVE  /\ task'[u].alone => Writing(k)' = {u}
             /\ task'[u].at = "text" =>
                  k \in doubted' /\ (task'[u].alone => stick'[k].size = task'[u].do)
  <2>1. CASE k = s
    <3>1. u \in all
      BY <1>3, <2>1
    <3>2. task'[u].at = "text" => task[u].at = "text" /\ u \in Writing(s) /\ all # {u}
      <4>1. u \in Watching => task[u].at = "watch"
        BY DEF Watching
      <4> QED
        BY <1>1, <1>2, <3>1, <4>1
    <3>3. task'[u].at = "text" => s \in doubted
      BY <3>2 DEF Signing
    <3> HIDE DEF all
    <3> QED
      BY <1>1, <1>2, <1>3, <2>1, <3>1, <3>2, <3>3
  <2>2. CASE k # s
    <3>1. u \in Writing(k) /\ Writing(k)' = Writing(k) /\ task'[u] = task[u]
      BY <1>1, <1>4, <2>2
    <3> QED
      BY <1>1, <3>1 DEF Signing
  <2> QED
    BY <2>1, <2>2
<1>6. \A k \in Sticks \ doubted' :
        /\ stick'[k].text = lastSaid'[k]
        /\ stick'[k].size = "sign" \/ lastSaid'[k] = NoPair
  BY <1>1 DEF Signing
<1> HIDE DEF all
<1> QED
  BY <1>5, <1>6 DEF Signing

LEMMA SigningStays == AdminShape /\ Signing /\ [AdminNext]_adminVars => Signing'
<1> SUFFICES ASSUME AdminShape, Signing, [AdminNext]_adminVars
             PROVE  Signing'
  OBVIOUS
<1>1. ASSUME UNCHANGED stickVars,
             \A u \in Tasks : task'[u].do \in {"sign", "revoke"} => task'[u] = task[u]
      PROVE  Signing'
  <2>1. \A k \in Sticks : \A u \in Writing(k)' :
          u \in Writing(k) /\ task'[u] = task[u]
    BY <1>1 DEF Writing
  <2> QED
    BY <1>1, <2>1, SigningKept
<1>2. CASE AdminNext
  <2>1. CASE \E t \in Tasks :
               \/ \E do \in {"sign", "revoke"} : watch_new_usb(t, do)
               \/ SignDevice(t) \/ WriteSize(t) \/ WriteText(t)
    BY <2>1, SigningWaits, SigningWrites
  <2>2. CASE \E k \in Sticks : Plug(k)
    BY <2>2, SigningPlugs
  <2> QED
    BY <1>1, <1>2, <2>1, <2>2, WaitSteps, StickSteps
<1>3. CASE UNCHANGED adminVars
  <2>1. UNCHANGED stickVars /\ UNCHANGED task
    BY <1>3 DEF adminVars
  <2> QED
    BY <1>1, <2>1
<1> QED
  BY <1>2, <1>3

LEMMA SigningHolds == AdminSpec => []Signing
<1>1. AdminInit => Signing
  <2> SUFFICES ASSUME AdminInit PROVE Signing
    OBVIOUS
  <2>1. \A t \in Tasks : task[t].do = "nothing"
    BY IdleIs DEF AdminInit
  <2>2. \A k : Writing(k) = {}
    BY <2>1 DEF Writing
  <2>3. \A k \in Sticks : stick[k].text = lastSaid[k] /\ lastSaid[k] = NoPair
    BY DEF AdminInit
  <2> QED
    BY <2>2, <2>3 DEF Signing
<1>2. AdminShape /\ Signing /\ [AdminNext]_adminVars => Signing'
  BY SigningStays
<1> QED
  BY <1>1, <1>2, AdminShapeHolds, PTL DEF AdminSpec

(* A station enrolled with a PKI takes a key exactly when its text is from  *)
(* that PKI, and then it was signed, not revoked.                           *)
LEMMA ReadyFollows ==
  ASSUME Signing, NEW s, Ready(s), NEW k \in Sticks \ doubted
  PROVE  is_signed(s, k) <=> \A h \in Halves :
                               lastSaid[k][h] = station[s].certs[KindOf("usb", h)].of
<1>1. PICK g \in Pkis : \A h \in Halves :
        station[s].certs[KindOf("usb", h)] = [half |-> h, of |-> g, by |-> g]
  BY DEF Ready
<1>2. ASSUME NEW h \in Halves
      PROVE  /\ station[s].certs[KindOf("usb", h)].of = g
             /\ station[s].certs[KindOf("usb", h)].half = h
             /\ station[s].certs[KindOf("usb", h)] # NoCert
  <2>1. station[s].certs[KindOf("usb", h)] = [half |-> h, of |-> g, by |-> g]
    BY <1>1
  <2>2. NoCert.half # h
    BY DEF NoCert, Halves
  <2> QED
    BY <2>1, <2>2
<1>3. /\ stick[k].text = lastSaid[k]
      /\ stick[k].size = "sign" \/ lastSaid[k] = NoPair
  BY DEF Signing
<1>4. is_signed(s, k) <=> stick[k].size = "sign" /\ \A h \in Halves : lastSaid[k][h] = g
  BY <1>2, <1>3 DEF is_signed
<1>5. (\A h \in Halves : lastSaid[k][h] = g) => lastSaid[k] # NoPair
  <2>1. g # 0 /\ "cl" \in Halves
    BY AdminBounds DEF Pkis, Halves
  <2>2. NoPair["cl"] = 0
    BY <2>1 DEF NoPair
  <2> QED
    BY <2>1, <2>2
<1> QED
  BY <1>2, <1>3, <1>4, <1>5

(* An enrolled station takes for an outgoing key, by is_signed, exactly the *)
(* keys that sign_key last signed with its PKI and revoke_usb did not reach *)
(* since; a key is in doubt only while a command writes to it, or when two  *)
(* met on it.                                                               *)
THEOREM StationsFollowSigning == AdminSpec => []StationsFollow
<1>1. Enrolment /\ Signing => StationsFollow
  BY ReadyFollows DEF Enrolment, StationsFollow
<1> QED
  BY <1>1, EnrolmentHolds, SigningHolds, PTL

=============================================================================
