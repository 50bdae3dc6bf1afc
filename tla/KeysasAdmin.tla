----------------------------- MODULE KeysasAdmin -----------------------------
(***************************************************************************)
(* keysas-admin: the commands of its window, which run as tasks of their   *)
(* own, the store that names the PKI, the PKI directories, a station that  *)
(* is enrolled over ssh (keysas-sign and keysas-out on it), and the USB    *)
(* keys that are signed and revoked.  A key pair and a certificate are the *)
(* number of the generation they come from; every key is a classic and a   *)
(* post-quantum half.                                                      *)
(***************************************************************************)
EXTENDS Naturals, Sequences, FiniteSets

CONSTANTS
  Tasks,            \* commands at work at the same time
  Orgs, Dirs,       \* organisation names and PKI directories
  NoDir,            \* a path without a PKI
  FirstOrg, FirstDir, \* the PKI an earlier session of the program left, or NoDir
  Stations,
  Sticks,           \* USB keys
  MaxCommands, AdminMaxFailures

ASSUMPTION AdminAssumption ==
  /\ NoDir \notin Dirs
  /\ FirstOrg \in Orgs /\ FirstDir \in Dirs \cup {NoDir}
  /\ MaxCommands \in Nat /\ AdminMaxFailures \in Nat

VARIABLES
  rows,        \* ca_table: the directory stored for each organisation
  issued,      \* the organisation of each PKI generated
  pki,         \* the files of each directory: the PKI they come from, or 0
  task,        \* what each task is at
  station,     \* the key and the certificates in /etc/keysas
  signer,      \* what keysas-out loaded of them when it started
  keygens,     \* station keys generated
  stick,       \* the size and the text behind the MBR of a key
  commands, adminFailures,
  enrolled,    \* stations whose last init_keysas succeeded, alone
  lastSaid,        \* the signature a key was last said to have
  doubted      \* keys written to since, or by two commands at once

storeVars == <<rows, issued, pki>>
enrolVars == <<station, signer, keygens, enrolled>>
stickVars == <<stick, lastSaid, doubted>>
boundVars == <<commands, adminFailures>>
adminVars == <<storeVars, task, enrolVars, stickVars, boundVars>>

Halves == {"cl", "pq"}
Cas == <<"root", "st", "usb">>
(* The four files of a key pair, in the order save writes them.             *)
Files == <<"cl.p8", "pq.p8", "cl.pem", "pq.pem">>
FilesOf(half) == IF half = "cl" THEN [p8 |-> "cl.p8", pem |-> "cl.pem"]
                 ELSE [p8 |-> "pq.p8", pem |-> "pq.pem"]

Pkis == 1..MaxCommands + 1
NoPair == [half \in Halves |-> 0]
Pairs == [Halves -> {0} \cup Pkis]

Idle == [do |-> "nothing"]
NoStick == "no stick"

ASSUME NoStickAssumption == NoStick \notin Sticks

(* Certificates, in the order they are sent.                                *)
Kinds == <<"file-cl", "file-pq", "usb-cl", "usb-pq">>
KindOf(use, half) == IF use = "file" THEN (IF half = "cl" THEN "file-cl" ELSE "file-pq")
                     ELSE (IF half = "cl" THEN "usb-cl" ELSE "usb-pq")
NoCert == [half |-> "none", of |-> 0, by |-> 0]

------------------------------------------------------------------------------
(* The store and the directories.                                           *)

(* All the rows are read, and their directories appended to each other.     *)
get_pki_dir ==
  LET named == {o \in Orgs : rows[o] # NoDir}
  IN IF Cardinality(named) = 1 THEN rows[CHOOSE o \in named : TRUE] ELSE NoDir

(* A key pair loads when its four files are there.                          *)
Loads(d, ca) == d \in Dirs /\ \A i \in 1..4 : pki[d][ca][Files[i]] # 0

Private(d, ca) == [half \in Halves |-> pki[d][ca][FilesOf(half).p8]]
Certified(d, ca) == [half \in Halves |-> pki[d][ca][FilesOf(half).pem]]

(* The first n files of a pair replaced by those of PKI g.                  *)
Saved(pair, g, n) ==
  [f \in DOMAIN pair |-> IF \E i \in 1..n : Files[i] = f THEN g ELSE pair[f]]

(* check_restore_pki: every file is there, and the certificates of the two  *)
(* CAs are signed by those of the root.                                     *)
Restorable(d) ==
  /\ \A i \in 1..3 : Loads(d, Cas[i])
  /\ Certified(d, "st") = Certified(d, "root")
  /\ Certified(d, "usb") = Certified(d, "root")

(* A command the user gives, at most MaxCommands of them.                   *)
Command == commands < MaxCommands /\ commands' = commands + 1 /\ UNCHANGED adminFailures

(* Tasks have no identity: a command becomes the first that is free.        *)
Takes(t) ==
  /\ Command
  /\ task[t] = Idle /\ t = CHOOSE u \in Tasks : task[u] = Idle

Ends(t) == task' = [task EXCEPT ![t] = Idle]
Becomes(t, field, value) == task' = [task EXCEPT ![t][field] = value]

(* generate_pki_in_dir: the configuration is stored, then the keys of the   *)
(* root and of the two CAs are generated and saved.                         *)
generate_pki_in_dir(t, o, d) ==
  /\ Takes(t)
  /\ rows' = [rows EXCEPT ![o] = d]
  /\ issued' = Append(issued, o)
  /\ task' = [task EXCEPT ![t] = [do |-> "generate", at |-> 1, dir |-> d,
                                  pki |-> Len(issued) + 1]]
  /\ UNCHANGED <<pki, enrolVars, stickVars>>

SaveKeys(t) ==
  LET j == task[t] IN
  /\ j.do = "generate"
  /\ pki' = [pki EXCEPT ![j.dir][Cas[j.at]] = Saved(@, j.pki, 4)]
  /\ IF j.at = 3 THEN Ends(t) ELSE Becomes(t, "at", j.at + 1)
  /\ UNCHANGED <<rows, issued, enrolVars, stickVars, boundVars>>

(* The table is dropped and created again.                                  *)
del_pki ==
  /\ Command
  /\ rows' = [o \in Orgs |-> NoDir]
  /\ UNCHANGED <<issued, pki, task, enrolVars, stickVars>>

restore_pki(t, d) ==
  /\ Takes(t) /\ Restorable(d)
  /\ task' = [task EXCEPT ![t] = [do |-> "restore", at |-> "drop", dir |-> d,
                                  org |-> issued[Certified(d, "root")["cl"]]]]
  /\ UNCHANGED <<storeVars, enrolVars, stickVars>>

RestoreDrops(t) ==
  /\ task[t].do = "restore" /\ task[t].at = "drop"
  /\ rows' = [o \in Orgs |-> NoDir]
  /\ Becomes(t, "at", "store")
  /\ UNCHANGED <<issued, pki, enrolVars, stickVars, boundVars>>

RestoreStores(t) ==
  /\ task[t].do = "restore" /\ task[t].at = "store"
  /\ rows' = [rows EXCEPT ![task[t].org] = task[t].dir]
  /\ Ends(t)
  /\ UNCHANGED <<issued, pki, enrolVars, stickVars, boundVars>>

------------------------------------------------------------------------------
(* init_keysas: the directory is read from the store, the station generates *)
(* its key, the two CAs are loaded, and four certificates sent.             *)

Enrolling(t, s) == task[t].do = "init" /\ task[t].on = s /\ task[t].at # "generate"

init_keysas(t, s) ==
  /\ Takes(t)
  /\ task' = [task EXCEPT ![t] = [do |-> "init", at |-> "generate", on |-> s,
       dir |-> get_pki_dir, key |-> 0, ca |-> NoPair, usb |-> NoPair,
       next |-> 1, alone |-> TRUE]]
  /\ UNCHANGED <<storeVars, enrolVars, stickVars>>

(* Another key stands on s: it is not enrolled until that is through, and   *)
(* the other enrolments of s are not alone.                                 *)
Rekeyed(t, s, job) ==
  LET others == {u \in Tasks \ {t} : Enrolling(u, s)}
  IN /\ keygens' = keygens + 1
     /\ enrolled' = enrolled \ {s}
     /\ task' = [u \in Tasks |->
          IF u = t THEN (IF job = Idle THEN Idle ELSE [job EXCEPT !.alone = (others = {})])
          ELSE IF u \in others THEN [task[u] EXCEPT !.alone = FALSE] ELSE task[u]]

(* keysas-sign --generate replaces the keys and gives the two requests.     *)
GenerateKeys(t) ==
  LET s == task[t].on IN
  /\ task[t].do = "init" /\ task[t].at = "generate"
  /\ Rekeyed(t, s, [task[t] EXCEPT !.at = "st", !.key = keygens + 1])
  /\ station' = [station EXCEPT ![s].key = [h \in Halves |-> keygens + 1]]
  /\ UNCHANGED <<storeVars, signer, stickVars, boundVars>>

(* It fails after the first key: there are no requests, and the command     *)
(* ends.                                                                    *)
GenerateKeysFails(t) ==
  LET s == task[t].on IN
  /\ task[t].do = "init" /\ task[t].at = "generate"
  /\ adminFailures < AdminMaxFailures
  /\ adminFailures' = adminFailures + 1
  /\ Rekeyed(t, s, Idle)
  /\ station' = [station EXCEPT ![s].key["cl"] = keygens + 1]
  /\ UNCHANGED <<storeVars, signer, stickVars, commands>>

LoadStationCa(t) ==
  LET j == task[t] IN
  /\ j.do = "init" /\ j.at = "st" /\ Loads(j.dir, "st")
  /\ task' = [task EXCEPT ![t].at = "usb", ![t].ca = Private(j.dir, "st")]
  /\ UNCHANGED <<storeVars, enrolVars, stickVars, boundVars>>

(* The certificates are made with what was loaded; alone becomes false when *)
(* the files loaded are not of one PKI.                                     *)
LoadUsbCa(t) ==
  LET j == task[t]
      usb == Certified(j.dir, "usb")
  IN /\ j.do = "init" /\ j.at = "usb" /\ Loads(j.dir, "usb")
     /\ task' = [task EXCEPT ![t].at = "load", ![t].usb = usb,
          ![t].alone = @ /\ Cardinality({j.ca[h] : h \in Halves} \cup {usb[h] : h \in Halves}) = 1]
     /\ UNCHANGED <<storeVars, enrolVars, stickVars, boundVars>>

(* A pair that cannot be loaded ends the command, with the station's keys   *)
(* replaced.                                                                *)
LoadFails(t) ==
  LET j == task[t] IN
  /\ j.do = "init" /\ j.at \in {"st", "usb"} /\ ~Loads(j.dir, j.at)
  /\ Ends(t)
  /\ UNCHANGED <<storeVars, enrolVars, stickVars, boundVars>>

(* Mutant of Certificate: the classic certificate for both, as it is saved  *)
(* next to the PKI.                                                         *)
CertificateClassic(j, kind) ==
  IF kind \in {"file-cl", "file-pq"} THEN [half |-> "cl", of |-> j.key, by |-> j.ca["cl"]]
  ELSE LET half == IF kind = "usb-cl" THEN "cl" ELSE "pq"
       IN [half |-> half, of |-> j.usb[half], by |-> j.usb[half]]

(* The certificate of each kind.                                            *)
Certificate(j, kind) ==
  LET half == IF kind \in {"file-cl", "usb-cl"} THEN "cl" ELSE "pq"
  IN IF kind \in {"file-cl", "file-pq"} THEN [half |-> half, of |-> j.key, by |-> j.ca[half]]
     ELSE [half |-> half, of |-> j.usb[half], by |-> j.usb[half]]

(* keysas-sign --load.  Its exit status is not looked at: a certificate it  *)
(* could not write goes unnoticed.                                          *)
SendCertificate(t) ==
  LET j == task[t]
      kind == Kinds[j.next]
  IN /\ j.do = "init" /\ j.at = "load"
     /\ \/ /\ station' = [station EXCEPT ![j.on].certs[kind] = Certificate(j, kind)]
           /\ Becomes(t, "at", "restart")
           /\ UNCHANGED adminFailures
        \/ /\ adminFailures < AdminMaxFailures
           /\ adminFailures' = adminFailures + 1
           /\ task' = [task EXCEPT ![t].at = "restart", ![t].alone = FALSE]
           /\ UNCHANGED station
     /\ UNCHANGED <<storeVars, signer, keygens, enrolled, stickVars, commands>>

(* What keysas-out loads, if the four files are there.                      *)
Loaded(s) ==
  IF \A h \in Halves : station[s].key[h] # 0 /\ station[s].certs[KindOf("file", h)] # NoCert
  THEN [key |-> station[s].key,
        certs |-> [h \in Halves |-> station[s].certs[KindOf("file", h)]]]
  ELSE [key |-> NoPair, certs |-> [h \in Halves |-> NoCert]]

(* Mutant of RestartKeysas: keysas is restarted after the first two only.   *)
RestartKeysasEarly(t) ==
  LET j == task[t] IN
  /\ j.do = "init" /\ j.at = "restart"
  /\ signer' = IF j.next = 1 THEN [signer EXCEPT ![j.on] = Loaded(j.on)] ELSE signer
  /\ IF j.next = 4
     THEN Ends(t) /\ enrolled' = IF j.alone THEN enrolled \cup {j.on} ELSE enrolled
     ELSE task' = [task EXCEPT ![t].at = "load", ![t].next = @ + 1] /\ UNCHANGED enrolled
  /\ UNCHANGED <<storeVars, station, keygens, stickVars, boundVars>>

(* Each certificate is followed by a restart of the station's daemons.      *)
RestartKeysas(t) ==
  LET j == task[t] IN
  /\ j.do = "init" /\ j.at = "restart"
  /\ signer' = [signer EXCEPT ![j.on] = Loaded(j.on)]
  /\ IF j.next = 4
     THEN Ends(t) /\ enrolled' = IF j.alone THEN enrolled \cup {j.on} ELSE enrolled
     ELSE task' = [task EXCEPT ![t].at = "load", ![t].next = @ + 1] /\ UNCHANGED enrolled
  /\ UNCHANGED <<storeVars, station, keygens, stickVars, boundVars>>

(* keysas-out dies and is started again.                                    *)
SignerRestarts(s) ==
  /\ signer' = [signer EXCEPT ![s] = Loaded(s)]
  /\ UNCHANGED <<storeVars, task, station, keygens, enrolled, stickVars, boundVars>>

------------------------------------------------------------------------------
(* sign_key and revoke_usb wait for the next key that is plugged in.        *)

watch_new_usb(t, do) ==
  /\ Takes(t)
  /\ task' = [task EXCEPT ![t] = [do |-> do, at |-> "watch", on |-> NoStick,
                                  text |-> NoPair, alone |-> TRUE]]
  /\ UNCHANGED <<storeVars, enrolVars, stickVars>>

Watching == {t \in Tasks : task[t].do \in {"sign", "revoke"} /\ task[t].at = "watch"}
Writing(k) == {t \in Tasks : task[t].do \in {"sign", "revoke"} /\ task[t].on = k}

(* Every command that waits takes it, and so do those not through with it.  *)
Plug(k) ==
  LET all == Watching \cup Writing(k)
  IN /\ Watching # {}
     /\ task' = [t \in Tasks |->
          IF t \notin all THEN task[t]
          ELSE [task[t] EXCEPT
                  !.on = k, !.alone = (all = {t}),
                  !.at = IF @ # "watch" THEN @
                         ELSE IF task[t].do = "sign" THEN "open" ELSE "size"]]
     /\ UNCHANGED <<storeVars, enrolVars, stickVars, boundVars>>

(* sign_usb: the keys of the PKI are loaded after the partition was made.   *)
SignDevice(t) ==
  LET j == task[t]
      keys == Private(get_pki_dir, "usb")
  IN /\ j.do = "sign" /\ j.at = "open"
     /\ IF get_pki_dir \in Dirs /\ \A h \in Halves : keys[h] # 0
        THEN task' = [task EXCEPT ![t].at = "size", ![t].text = keys]
        ELSE Ends(t)
     /\ UNCHANGED <<storeVars, enrolVars, stickVars, boundVars>>

WriteSize(t) ==
  LET j == task[t] IN
  /\ j.do \in {"sign", "revoke"} /\ j.at = "size"
  /\ stick' = [stick EXCEPT ![j.on].size = j.do]
  /\ doubted' = doubted \cup {j.on}
  /\ Becomes(t, "at", "text")
  /\ UNCHANGED <<storeVars, enrolVars, lastSaid, boundVars>>

(* The signature, or 7683 zeros, and the command returns true.              *)
WriteText(t) ==
  LET j == task[t] IN
  /\ j.do \in {"sign", "revoke"} /\ j.at = "text"
  /\ stick' = [stick EXCEPT ![j.on].text = j.text]
  /\ lastSaid' = [lastSaid EXCEPT ![j.on] = j.text]
  /\ doubted' = IF j.alone THEN doubted \ {j.on} ELSE doubted
  /\ Ends(t)
  /\ UNCHANGED <<storeVars, enrolVars, boundVars>>

(* Mutant of is_signed: one half is enough.                                  *)
is_signedEither(s, k) ==
  /\ stick[k].size = "sign"
  /\ \E h \in Halves :
       LET c == station[s].certs[KindOf("usb", h)]
       IN c # NoCert /\ c.half = h /\ stick[k].text[h] = c.of

(* is_signed on a station: both halves verify with its two certificates.    *)
is_signed(s, k) ==
  /\ stick[k].size = "sign"
  /\ \A h \in Halves :
       LET c == station[s].certs[KindOf("usb", h)]
       IN c # NoCert /\ c.half = h /\ stick[k].text[h] = c.of

------------------------------------------------------------------------------
(* Mutant of Fail: sign_key and revoke_usb wait again, with the device.     *)
FailWaitsAgain(t) ==
  /\ task[t] # Idle /\ adminFailures < AdminMaxFailures
  /\ adminFailures' = adminFailures + 1
  /\ IF task[t].do \in {"sign", "revoke"} THEN Becomes(t, "at", "watch") ELSE Ends(t)
  /\ UNCHANGED <<storeVars, enrolVars, stickVars, commands>>

(* A command ends with an error where it is: a connection or a disk fails,  *)
(* the password is wrong, the window is closed.  The save of a key pair may *)
(* have written some of its files.                                          *)
Fail(t) ==
  /\ task[t] # Idle /\ adminFailures < AdminMaxFailures
  /\ adminFailures' = adminFailures + 1
  /\ Ends(t)
  /\ IF task[t].do = "generate"
     THEN \E n \in 0..3 :
            pki' = [pki EXCEPT ![task[t].dir][Cas[task[t].at]] = Saved(@, task[t].pki, n)]
     ELSE UNCHANGED pki
  /\ UNCHANGED <<rows, issued, enrolVars, stickVars, commands>>

AdminInit ==
  /\ rows = [o \in Orgs |-> IF o = FirstOrg THEN FirstDir ELSE NoDir]
  /\ issued = <<FirstOrg>>
  /\ pki = [d \in Dirs |-> [ca \in {"root", "st", "usb"} |->
                              [f \in {"cl.p8", "pq.p8", "cl.pem", "pq.pem"} |->
                                 IF d = FirstDir THEN 1 ELSE 0]]]
  /\ task = [t \in Tasks |-> Idle]
  /\ station = [s \in Stations |->
       [key |-> NoPair, certs |-> [k \in {"file-cl", "file-pq", "usb-cl", "usb-pq"} |-> NoCert]]]
  /\ signer = [s \in Stations |-> [key |-> NoPair, certs |-> [h \in Halves |-> NoCert]]]
  /\ keygens = 0
  /\ stick = [k \in Sticks |-> [size |-> "none", text |-> NoPair]]
  /\ commands = 0 /\ adminFailures = 0
  /\ enrolled = {}
  /\ lastSaid = [k \in Sticks |-> NoPair]
  /\ doubted = {}

AdminNext ==
  \/ del_pki
  \/ \E t \in Tasks :
       \/ \E o \in Orgs, d \in Dirs : generate_pki_in_dir(t, o, d)
       \/ SaveKeys(t)
       \/ \E d \in Dirs : restore_pki(t, d)
       \/ RestoreDrops(t) \/ RestoreStores(t)
       \/ \E s \in Stations : init_keysas(t, s)
       \/ GenerateKeys(t) \/ GenerateKeysFails(t)
       \/ LoadStationCa(t) \/ LoadUsbCa(t) \/ LoadFails(t)
       \/ SendCertificate(t) \/ RestartKeysas(t)
       \/ \E do \in {"sign", "revoke"} : watch_new_usb(t, do)
       \/ SignDevice(t) \/ WriteSize(t) \/ WriteText(t)
       \/ Fail(t)
  \/ \E s \in Stations : SignerRestarts(s)
  \/ \E k \in Sticks : Plug(k)

AdminSpec == AdminInit /\ [][AdminNext]_adminVars
------------------------------------------------------------------------------
GenerateJobs == [do : {"generate"}, at : 1..3, dir : Dirs, pki : Pkis]
RestoreJobs == [do : {"restore"}, at : {"drop", "store"}, dir : Dirs, org : Orgs]
InitJobs ==
  [do : {"init"}, at : {"generate", "st", "usb", "load", "restart"},
   on : Stations, dir : Dirs \cup {NoDir}, key : 0..MaxCommands,
   ca : Pairs, usb : Pairs, next : 1..4, alone : BOOLEAN]
StickJobs ==
  [do : {"sign", "revoke"}, at : {"watch", "open", "size", "text"},
   on : Sticks \cup {NoStick}, text : Pairs, alone : BOOLEAN]
Jobs == {Idle} \cup GenerateJobs \cup RestoreJobs \cup InitJobs \cup StickJobs

(* Each variable has a value of its type, and a key is at hand exactly when *)
(* a command that waited for one has it.                                    *)
AdminTypeOK ==
  /\ rows \in [Orgs -> Dirs \cup {NoDir}]
  /\ issued \in Seq(Orgs) /\ Len(issued) <= commands + 1
  /\ \A d \in Dirs, i \in 1..3, n \in 1..4 : pki[d][Cas[i]][Files[n]] \in 0..Len(issued)
  /\ task \in [Tasks -> Jobs]
  /\ \A t \in Tasks : task[t].do \in {"sign", "revoke"} =>
                       (task[t].on = NoStick) = (task[t].at = "watch")
  /\ keygens \in 0..commands
  /\ \A s \in Stations :
       /\ station[s].key \in [Halves -> 0..keygens] /\ signer[s].key \in [Halves -> 0..keygens]
       /\ \A h \in Halves :
            /\ {station[s].certs[KindOf("file", h)], signer[s].certs[h]}
                 \subseteq {NoCert} \cup [half : Halves, of : 1..keygens, by : Pkis]
            /\ station[s].certs[KindOf("usb", h)]
                 \in {NoCert} \cup [half : Halves, of : Pkis, by : Pkis]
  /\ stick \in [Sticks -> [size : {"none", "sign", "revoke"}, text : Pairs]]
  /\ commands \in 0..MaxCommands /\ adminFailures \in 0..AdminMaxFailures
  /\ enrolled \subseteq Stations
  /\ lastSaid \in [Sticks -> Pairs] /\ doubted \subseteq Sticks

(* A station whose enrolment succeeded signs its reports with a key that    *)
(* both certificates in them are for, and has its four certificates from    *)
(* one PKI, whatever earlier enrolments and generations left half done, and *)
(* whenever keysas-out was restarted.  Not when two enrolments met at the   *)
(* station, when the PKI was loaded while its directory held files of two,  *)
(* or when keysas-sign failed without init_keysas knowing.                  *)
EnrolledSignsWell ==
  \A s \in enrolled :
    \E g \in Pkis : \A h \in Halves :
      /\ signer[s].certs[h] = [half |-> h, of |-> signer[s].key[h], by |-> g]
      /\ station[s].certs[KindOf("usb", h)] = [half |-> h, of |-> g, by |-> g]

(* Such a station takes a key for an outgoing one exactly when the last     *)
(* command that returned true for the key is sign_key, with the PKI the     *)
(* station was enrolled with: a revoked key is refused for ever, and so is  *)
(* one of another PKI.  Not while a command writes to the key, after one    *)
(* failed on it, or when two met: sign_key and revoke_usb both wait for the *)
(* next key, whatever it was plugged in for.                                *)
StationsFollow ==
  \A s \in enrolled, k \in Sticks \ doubted :
    is_signed(s, k) <=> \A h \in Halves :
                          lastSaid[k][h] = station[s].certs[KindOf("usb", h)].of
=============================================================================
