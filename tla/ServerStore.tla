----------------------------- MODULE ServerStore -----------------------------
(***************************************************************************)
(* x509::server_store: the certificates the proxy makes for the servers it *)
(* stands in for, their cache, the serial number file, and the files that  *)
(* hold the certificate authority from one run of the program to the next. *)
(*                                                                         *)
(* Threads are the io_context threads; each of them runs                   *)
(* tls_service::get_certificate_for_client, which searches the cache and   *)
(* creates a certificate if it finds none, without a lock around the two.  *)
(* Certificates carry the common name and the server names they are valid  *)
(* for; keys, signatures and dates are left out.  The names are numbers in *)
(* their string order, 0 is no name.                                       *)
(***************************************************************************)
EXTENDS Integers, Sequences, FiniteSets, SequencesExt

CONSTANTS
    Threads,        \* io_context threads
    NoThread,       \* no thread
    Hosts,          \* servers of one domain, and names in SNI entries
    Wildcard,       \* the asterisk form they share
    MaxCerts,       \* max_num_certs
    MaxIssued,      \* bound: serial numbers taken
    MaxFaults       \* bound: crashes of the program and writes that are lost

NoName == 0

ASSUME StoreAssumption ==
    /\ NoThread \notin Threads
    /\ Hosts \subseteq Nat /\ Wildcard \in Nat \ {0}
    /\ \A h \in Hosts : Wildcard < h        \* '*' sorts before letters and digits
    /\ MaxCerts \in Nat \ {0} /\ MaxIssued \in Nat /\ MaxFaults \in Nat

(* What a file holds besides a number: it is not there, has been truncated *)
(* and not yet been closed, or has lost what was written when it was.      *)
Absent == -1
Torn   == -2
Lost   == -3

Content == {Absent, Torn, Lost} \union Nat

VARIABLES
    disk,           \* the files: CA key, CA certificate and serial number
    phase,          \* of the program
    ca,             \* default_cert_: number of the CA in use
    pc,             \* what each thread is doing
    wanted,         \* the certificate_interface of each thread
    given,          \* history: what each thread was given for it
    cert_map,       \* the cache, by key
    cert_queue,     \* its keys, next to delete first
    writer,         \* thread that is changing the cache, with cert_data_mutex_ held
    issued,         \* history: CA and serial number of every certificate
    faults          \* history: what has gone wrong

cacheVars   == <<cert_map, cert_queue, writer>>
threadVars  == <<pc, wanted, given>>
programVars == <<phase, ca, issued, faults>>
vars == <<disk, programVars, threadVars, cacheVars>>

(* What tls_service asks for: the host of the server, if it is connected,  *)
(* is the common name and, with the SNI entry and the asterisk form its    *)
(* certificate may be valid for, one of the alternative names.             *)
Interfaces ==
    {[cn |-> cn, sni |-> sni, sans |-> upstream \union ({cn, sni} \ {NoName})] :
        cn \in Hosts, sni \in Hosts \union {NoName}, upstream \in SUBSET {Wildcard}}
    \union
    {[cn |-> NoName, sni |-> sni, sans |-> {sni} \ {NoName}] : sni \in Hosts \union {NoName}}

NoInterface   == [cn |-> NoName, sni |-> NoName, sans |-> {}]
NoCertificate == [cn |-> NoName, names |-> {}]
Dangling      == [cn |-> -1, names |-> {}]      \* read through a reference to what was deleted
Certificates  == [cn : Hosts \union {NoName}, names : SUBSET (Hosts \union {Wildcard})]

(* What the memory of the program holds when it starts. *)
Idle    == [t \in Threads |-> "idle"]
Unasked == [t \in Threads |-> NoInterface]
Ungiven == [t \in Threads |-> NoCertificate]

Init ==
    /\ disk = [key |-> Absent, cert |-> Absent, serial |-> Absent]
    /\ phase = "down"
    /\ ca = 0 /\ issued = <<>> /\ faults = 0
    /\ pc = Idle /\ wanted = Unasked /\ given = Ungiven
    /\ cert_map = <<>> /\ cert_queue = <<>> /\ writer = NoThread

(***************************************************************************)
(* server_store::create, before any thread runs.                           *)
(***************************************************************************)

(* Both files exist, use them: read_store. *)
ReadStore ==
    /\ phase = "down"
    /\ disk.key # Absent /\ disk.cert # Absent
    /\ IF disk.key \in Nat /\ disk.cert \in Nat
         THEN phase' = "up" /\ ca' = disk.cert
         ELSE phase' = "refused" /\ UNCHANGED ca
    /\ UNCHANGED <<disk, issued, faults, threadVars, cacheVars>>

(* read_last_serial_number_or_reset_state. *)
LastSerial == IF disk.serial \in Nat THEN disk.serial ELSE 0

(* The next serial number goes to a certificate of the authority. *)
TakeSerial(authority) ==
    /\ Len(issued) < MaxIssued
    /\ issued' = Append(issued, [ca |-> authority, serial |-> LastSerial + 1])

(* A file is written when it is closed, and nobody looks at whether that   *)
(* succeeds.                                                               *)
Close(file, content) ==
    \/ disk' = [disk EXCEPT ![file] = content] /\ UNCHANGED faults
    \/ /\ faults < MaxFaults /\ faults' = faults + 1
       /\ disk' = [disk EXCEPT ![file] = Lost]

(* write_last_serial_number. *)
WriteLastSerial(serial) == Close("serial", serial)

(* create_ca; the files of an earlier attempt are overwritten. *)
CreateStore ==
    /\ phase = "down"
    /\ disk.key = Absent \/ disk.cert = Absent
    /\ ca' = ca + 1
    /\ TakeSerial(ca + 1)
    /\ WriteLastSerial(LastSerial + 1)
    /\ phase' = "opening"
    /\ UNCHANGED <<threadVars, cacheVars>>

(* The rest of create_store: the files are opened one after the other, and *)
(* both are closed when it returns, the last one first.                    *)
OpenStoreFile ==
    /\ phase = "opening"
    /\ IF disk.key # Torn
         THEN disk' = [disk EXCEPT !.key = Torn] /\ UNCHANGED phase
         ELSE disk' = [disk EXCEPT !.cert = Torn] /\ phase' = "closing_cert"
    /\ UNCHANGED <<ca, issued, faults, threadVars, cacheVars>>

(* Mutant: the file of the key is not closed. *)
CloseCertificateFile ==
    /\ phase = "closing_cert" /\ Close("cert", ca) /\ phase' = "up"
    /\ UNCHANGED <<ca, issued, threadVars, cacheVars>>

CloseStoreFile ==
    /\ \/ phase = "closing_cert" /\ Close("cert", ca) /\ phase' = "closing_key"
       \/ phase = "closing_key" /\ Close("key", ca) /\ phase' = "up"
    /\ UNCHANGED <<ca, issued, threadVars, cacheVars>>

Forget ==
    /\ phase' = "down"
    /\ pc' = Idle /\ wanted' = Unasked /\ given' = Ungiven
    /\ cert_map' = <<>> /\ cert_queue' = <<>> /\ writer' = NoThread

(* The program stops (server::cleanup has joined the threads), or is       *)
(* killed; what it had in memory is lost.                                  *)
Exit ==
    /\ phase = "up" /\ pc = Idle
    /\ Forget
    /\ UNCHANGED <<disk, ca, issued, faults>>

Crash ==
    /\ phase \notin {"down", "refused"} /\ faults < MaxFaults
    /\ faults' = faults + 1
    /\ Forget
    /\ UNCHANGED <<disk, ca, issued>>

(***************************************************************************)
(* tls_service::get_certificate_for_client.                                *)
(***************************************************************************)

(* get_asterisk_forms. *)
Forms(name) == IF name = NoName THEN {} ELSE {name, Wildcard}

(* The merge of is_disjoint runs over the names of a certificate as if     *)
(* they were sorted; they are the common name followed by the sorted       *)
(* subject alternative names, of which it misses those before the common   *)
(* name.                                                                   *)
Overlap(names, cert) == \E n \in names \intersect cert.names : n >= cert.cn

Matching(cn) == {k \in DOMAIN cert_map : Overlap(Forms(cn), cert_map[k])}

(* get_certificate, which takes no lock; the first match in the order of   *)
(* the keys is returned.  While another thread changes the map, a match    *)
(* may be missed or another one found.                                     *)
Search(t, i) ==
    /\ phase = "up" /\ pc[t] = "idle"
    /\ wanted' = [wanted EXCEPT ![t] = i]
    /\ \/ \E k \in Matching(i.cn) :
             /\ writer = NoThread => k = Min(Matching(i.cn))
             /\ given' = [given EXCEPT ![t] = cert_map[k]]
             /\ UNCHANGED pc
       \/ /\ Matching(i.cn) = {} \/ writer # NoThread
          /\ given' = [given EXCEPT ![t] = NoCertificate]
          /\ pc' = [pc EXCEPT ![t] = "generate"]
    /\ UNCHANGED <<disk, programVars, cacheVars>>

(* Mutant: the serial number is read before serial_number_mutex_ is taken. *)
ReadSerialUnlocked(t) ==
    /\ phase = "up" /\ pc[t] = "generate"
    /\ TakeSerial(ca)
    /\ pc' = [pc EXCEPT ![t] = "write_serial"]
    /\ UNCHANGED <<disk, phase, ca, faults, wanted, given, cacheVars>>

(* create_certificate: generate_serial takes serial_number_mutex_, reads   *)
(* the last serial number and truncates the file.                          *)
ReadSerial(t) ==
    /\ phase = "up" /\ pc[t] = "generate"
    /\ \A u \in Threads : pc[u] # "write_serial"
    /\ TakeSerial(ca)
    /\ pc' = [pc EXCEPT ![t] = "write_serial"]
    /\ disk' = [disk EXCEPT !.serial = Torn]
    /\ UNCHANGED <<phase, ca, faults, wanted, given, cacheVars>>

(* The file is closed and the mutex released. *)
WriteSerial(t) ==
    /\ pc[t] = "write_serial"
    /\ pc' = [pc EXCEPT ![t] = "insert"]
    /\ WriteLastSerial(Last(issued).serial)
    /\ UNCHANGED <<phase, ca, issued, wanted, given, cacheVars>>

(* Mutant: every certificate is stored without a name. *)
KeyOfNobody(i) == NoName

(* common_name.value_or(""). *)
Key(i) == i.cn

(* insert: an entry that is there already is kept. *)
Emplace(t) ==
    /\ phase = "up" /\ pc[t] = "insert" /\ writer = NoThread
    /\ LET i    == wanted[t]
           cert == [cn |-> i.cn, names |-> i.sans]
       IN cert_map' = IF Key(i) \in DOMAIN cert_map THEN cert_map
                      ELSE [k \in DOMAIN cert_map \union {Key(i)} |->
                              IF k = Key(i) THEN cert ELSE cert_map[k]]
    /\ writer' = t
    /\ pc' = [pc EXCEPT ![t] = "evict"]
    /\ UNCHANGED <<disk, programVars, wanted, given, cert_queue>>

(* What the reference to the entry refers to at the end of insert: the     *)
(* entry deleted may be the one it has just made.                          *)
Returned(t, map) ==
    LET key == Key(wanted[t]) IN IF key \in DOMAIN map THEN map[key] ELSE Dangling

(* Mutant: the key of a full cache is not remembered. *)
EvictForgetful(t) ==
    /\ pc[t] = "evict"
    /\ LET full == Cardinality(DOMAIN cert_map) > MaxCerts
       IN /\ cert_map' = IF full THEN Restrict(cert_map, DOMAIN cert_map \ {Head(cert_queue)}) ELSE cert_map
          /\ cert_queue' = IF full THEN Tail(cert_queue) ELSE Append(cert_queue, Key(wanted[t]))
    /\ given' = [given EXCEPT ![t] = Returned(t, cert_map')]
    /\ writer' = NoThread
    /\ pc' = [pc EXCEPT ![t] = "idle"]
    /\ UNCHANGED <<disk, programVars, wanted>>

(* The rest of insert: the key is queued, one key deleted if there are too *)
(* many certificates, and the reference read.                              *)
Evict(t) ==
    /\ pc[t] = "evict"
    /\ LET queue == Append(cert_queue, Key(wanted[t]))
           full  == Cardinality(DOMAIN cert_map) > MaxCerts
       IN /\ cert_map' = IF full THEN Restrict(cert_map, DOMAIN cert_map \ {Head(queue)}) ELSE cert_map
          /\ cert_queue' = IF full THEN Tail(queue) ELSE queue
    /\ given' = [given EXCEPT ![t] = Returned(t, cert_map')]
    /\ writer' = NoThread
    /\ pc' = [pc EXCEPT ![t] = "idle"]
    /\ UNCHANGED <<disk, programVars, wanted>>

Next ==
    \/ ReadStore \/ CreateStore \/ OpenStoreFile \/ CloseStoreFile \/ Exit \/ Crash
    \/ \E t \in Threads :
          \/ \E i \in Interfaces : Search(t, i)
          \/ ReadSerial(t) \/ WriteSerial(t) \/ Emplace(t) \/ Evict(t)

Spec == Init /\ [][Next]_vars

(***************************************************************************)
(* Properties.                                                             *)
(***************************************************************************)

TypeOK ==
    /\ disk \in [key : Content, cert : Content, serial : Content \ {0}]
    /\ phase \in {"down", "opening", "closing_cert", "closing_key", "up", "refused"}
    /\ ca \in Nat /\ faults \in 0 .. MaxFaults
    /\ issued \in Seq([ca : Nat, serial : Nat \ {0}])
    /\ pc \in [Threads -> {"idle", "generate", "write_serial", "insert", "evict"}]
    /\ wanted \in [Threads -> Interfaces \union {NoInterface}]
    /\ given \in [Threads -> Certificates \union {Dangling}]
    /\ DOMAIN cert_map \subseteq Hosts \union {NoName} /\ Range(cert_map) \subseteq Certificates
    /\ cert_queue \in Seq(Hosts \union {NoName})
    /\ writer \in Threads \union {NoThread}

(* "Always use host as the common name." (tls_service.cpp): whichever      *)
(* threads have filled the cache, the certificate a thread is given for a  *)
(* server that is connected carries the name of the server or an asterisk  *)
(* form of it.  The exception is a thread whose insert has deleted the     *)
(* entry it made: what it reads then is undefined.                         *)
CoversServer ==
    \A t \in Threads :
        given[t] \notin {NoCertificate, Dangling} /\ wanted[t].cn # NoName
            => given[t].names \intersect Forms(wanted[t].cn) # {}

(* "The top of the queue is the next certificate to delete when the max    *)
(* capacity is reached." (server_store.hpp): it is a certificate of the    *)
(* cache, so that the next insert deletes it, and not another one or none. *)
TopIsNextToDelete ==
    writer = NoThread /\ Cardinality(DOMAIN cert_map) >= MaxCerts
        => Head(cert_queue) \in DOMAIN cert_map

(* Every cached certificate can be deleted one day: its key is queued,     *)
(* however often threads that have not found it insert it, and whatever    *)
(* was deleted meanwhile.                                                  *)
QueueCovers == writer = NoThread => DOMAIN cert_map \subseteq Range(cert_queue)

(* "Use strong serial numbers for generated certificates by checkpointing  *)
(* state to disk." (options_factory.cpp): an authority never gives two     *)
(* certificates the same serial number, whichever threads generate them    *)
(* and however often the program is restarted, as long as no crash and no  *)
(* lost write has torn the file.                                           *)
UniqueSerials == faults = 0 => IsInjective(issued)

(* The authority in use is the one a later run of the program will use,    *)
(* however often its creation was interrupted before: a user installs its  *)
(* certificate once.  The exception is a file that has lost its content as *)
(* it was closed, which create_store does not notice; a later run is then  *)
(* refused, and still never makes or uses another authority.               *)
AuthorityPersists == phase = "up" => disk.key \in {ca, Lost} /\ disk.cert \in {ca, Lost}
==============================================================================
