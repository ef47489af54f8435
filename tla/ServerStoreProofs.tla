--------------------------- MODULE ServerStoreProofs ---------------------------
(***************************************************************************)
(* The certificate authority, the serial numbers and the cache of the      *)
(* certificate store, for any threads and names, any size of the cache and *)
(* any number of restarts, crashes and lost writes.                        *)
(***************************************************************************)
EXTENDS ServerStore, TLAPS

(* How far the creation of the files has come, and what a crash leaves.    *)
Files ==
    /\ phase \in {"opening", "closing_cert", "closing_key"} => ca # 0
    /\ phase = "opening" => disk.cert = Absent /\ disk.key \in {Absent, Torn}
    /\ phase = "closing_cert" => disk.key = Torn /\ disk.cert = Torn
    /\ phase = "closing_key" => disk.key = Torn /\ disk.cert \in {ca, Lost}
    /\ phase = "up" => disk.key \in {ca, Lost} /\ disk.cert \in {ca, Lost}
    /\ disk.key \in Nat => disk.cert \in {disk.key, Lost}
    /\ disk.key = Absent => disk.cert = Absent
    /\ disk.cert = Absent => disk.key \in {Absent, Torn}

(* Serial numbers are the places of their certificates; the file has the   *)
(* last one unless a thread has truncated it.                              *)
Serials ==
    /\ phase # "up" => pc = Idle
    /\ \A t, u \in Threads : pc[t] = "write_serial" /\ pc[u] = "write_serial" => t = u
    /\ \A t \in Threads : pc[t] = "write_serial" => issued # <<>>
    /\ faults = 0 =>
          /\ \A k \in 1..Len(issued) : issued[k].serial = k
          /\ (\A t \in Threads : pc[t] # "write_serial") => LastSerial = Len(issued)

(* A certificate in the cache is valid for its key, which is queued or     *)
(* about to be.                                                            *)
Cache ==
    /\ \A t \in Threads : pc[t] = "evict" <=> writer = t
    /\ writer # NoThread => DOMAIN cert_map \subseteq Range(cert_queue) \union {Key(wanted[writer])}
    /\ \A k \in DOMAIN cert_map : k # NoName => k \in cert_map[k].names

IInv == TypeOK /\ Files /\ Serials /\ Cache /\ QueueCovers /\ CoversServer

(***************************************************************************)
(* Data.                                                                   *)
(***************************************************************************)

(* What get_certificate_for_client asks for has its own common name among  *)
(* the names it is valid for.                                              *)
LEMMA InterfaceNames ==
    ASSUME StoreAssumption, NEW i \in Interfaces \union {NoInterface}
    PROVE  /\ i.cn \in Hosts \union {NoName} /\ i.sans \subseteq Hosts \union {Wildcard}
           /\ i.cn # NoName => i.cn \in i.sans
<1>1. CASE i = NoInterface
  BY <1>1 DEF NoInterface
<1>2. CASE \E cn \in Hosts, sni \in Hosts \union {NoName}, upstream \in SUBSET {Wildcard} :
              i = [cn |-> cn, sni |-> sni, sans |-> upstream \union ({cn, sni} \ {NoName})]
  <2>1. PICK cn \in Hosts, sni \in Hosts \union {NoName}, upstream \in SUBSET {Wildcard} :
              i = [cn |-> cn, sni |-> sni, sans |-> upstream \union ({cn, sni} \ {NoName})]
    BY <1>2
  <2>2. i.cn = cn /\ i.sans = upstream \union ({cn, sni} \ {NoName})
    BY <2>1
  <2> QED BY <2>2
<1>3. CASE \E sni \in Hosts \union {NoName} : i = [cn |-> NoName, sni |-> sni, sans |-> {sni} \ {NoName}]
  <2>1. PICK sni \in Hosts \union {NoName} : i = [cn |-> NoName, sni |-> sni, sans |-> {sni} \ {NoName}]
    BY <1>3
  <2>2. i.cn = NoName /\ i.sans = {sni} \ {NoName}
    BY <2>1
  <2> QED BY <2>2
<1> QED BY <1>1, <1>2, <1>3 DEF Interfaces

(* The last of a sequence that is not empty.                               *)
LEMMA LastOfSequence ==
    ASSUME NEW S, NEW s \in Seq(S), s # <<>>
    PROVE  Len(s) \in 1..Len(s) /\ s[Len(s)] \in S
  OBVIOUS

(* The key that leaves a queue is the only one that is no longer in it.    *)
LEMMA QueueMoves ==
    ASSUME NEW S, NEW s \in Seq(S), NEW x \in S, NEW D, D \subseteq Range(s) \union {x}
    PROVE  LET q == Append(s, x)
           IN /\ q \in Seq(S) /\ Tail(q) \in Seq(S)
              /\ D \subseteq Range(q) /\ D \ {Head(q)} \subseteq Range(Tail(q))
<1> DEFINE q == Append(s, x)
<1>1. q \in Seq(S) /\ Tail(q) \in Seq(S) /\ Len(q) = Len(s) + 1 /\ Len(Tail(q)) = Len(s)
  OBVIOUS
<1>2. \A d \in D : \E k \in 1..Len(q) : q[k] = d
  <2> SUFFICES ASSUME NEW d \in D PROVE \E k \in 1..Len(q) : q[k] = d
    OBVIOUS
  <2>1. CASE d = x
    BY <2>1, q[Len(s) + 1] = x
  <2>2. CASE d \in Range(s)
    <3>1. PICK k \in 1..Len(s) : s[k] = d
      BY <2>2 DEF Range
    <3> QED BY <3>1
  <2> QED BY <2>1, <2>2
<1>3. \A d \in D \ {Head(q)} : \E k \in 1..Len(Tail(q)) : Tail(q)[k] = d
  <2> SUFFICES ASSUME NEW d \in D, d # Head(q) PROVE \E k \in 1..Len(Tail(q)) : Tail(q)[k] = d
    OBVIOUS
  <2>1. PICK k \in 1..Len(q) : q[k] = d
    BY <1>2
  <2>2. k - 1 \in 1..Len(Tail(q)) /\ Tail(q)[k - 1] = d
    BY <1>1, <2>1
  <2> QED BY <2>2
<1>4. Range(q) = {q[k] : k \in 1..Len(q)} /\ Range(Tail(q)) = {Tail(q)[k] : k \in 1..Len(Tail(q))}
  <2>1. DOMAIN q = 1..Len(q) /\ DOMAIN Tail(q) = 1..Len(Tail(q))
    BY <1>1
  <2> QED BY ONLY <2>1 DEF Range
<1>5. D \subseteq Range(q) /\ D \ {Head(q)} \subseteq Range(Tail(q))
  BY <1>2, <1>3, <1>4
<1> QED BY <1>1, <1>5

(***************************************************************************)
(* Steps.                                                                  *)
(***************************************************************************)

LEMMA Starts == Init => IInv
<1> SUFFICES ASSUME Init PROVE IInv
  OBVIOUS
<1> USE StoreAssumption DEF Init, Idle, Unasked, Ungiven
<1>1. TypeOK
  BY DEF TypeOK, Certificates, NoCertificate, NoName, Range, Content, Absent, Torn, Lost
<1>2. Files
  BY DEF Files, Absent, Torn, Lost
<1>3. Serials
  BY DEF Serials, LastSerial, Absent
<1>4. Cache /\ QueueCovers /\ CoversServer
  BY DEF Cache, QueueCovers, CoversServer
<1> QED BY <1>1, <1>2, <1>3, <1>4 DEF IInv

(* A file that is closed has its content or has lost it.                   *)
LEMMA Closed ==
    ASSUME TypeOK, NEW file \in {"key", "cert", "serial"}, NEW content \in Nat \ {0},
           Close(file, content)
    PROVE  /\ disk' \in [key : Content, cert : Content, serial : Content \ {0}]
           /\ faults' \in 0..MaxFaults /\ (faults' = 0 => faults = 0 /\ disk'[file] = content)
           /\ disk'[file] \in {content, Lost}
           /\ \A f \in {"key", "cert", "serial"} : f # file => disk'[f] = disk[f]
<1>1. /\ disk \in [key : Content, cert : Content, serial : Content \ {0}]
      /\ faults \in 0..MaxFaults /\ MaxFaults \in Nat
  BY StoreAssumption DEF TypeOK, StoreAssumption
<1>2. content \in Content \ {0} /\ Lost \in Content \ {0}
  BY DEF Content, Lost
<1>3. CASE disk' = [disk EXCEPT ![file] = content] /\ faults' = faults
  BY ONLY <1>1, <1>2, <1>3
<1>4. CASE /\ faults < MaxFaults /\ faults' = faults + 1
           /\ disk' = [disk EXCEPT ![file] = Lost]
  <2>1. faults' \in 0..MaxFaults /\ faults' # 0
    BY ONLY <1>1, <1>4
  <2>2. /\ disk' \in [key : Content, cert : Content, serial : Content \ {0}]
        /\ disk'[file] = Lost /\ \A f \in {"key", "cert", "serial"} : f # file => disk'[f] = disk[f]
    BY ONLY <1>1, <1>2, <1>4
  <2> QED BY <2>1, <2>2
<1> QED BY <1>3, <1>4 DEF Close

(* While the files are read or written no thread runs.                     *)
LEMMA StoreStep ==
    ASSUME IInv, ReadStore \/ OpenStoreFile PROVE IInv'
<1> USE StoreAssumption DEF IInv
<1>0. /\ UNCHANGED <<issued, faults, pc, wanted, given, cert_map, cert_queue, writer>>
      /\ phase' \in {"up", "refused", "opening", "closing_cert"}
      /\ \/ disk' = disk /\ (ca' = ca \/ (disk.cert \in Nat /\ ca' = disk.cert))
         \/ ca' = ca /\ disk' \in {[disk EXCEPT !.key = Torn], [disk EXCEPT !.cert = Torn]}
  BY DEF ReadStore, OpenStoreFile, threadVars, cacheVars
<1>1. TypeOK'
  <2>1. disk \in [key : Content, cert : Content, serial : Content \ {0}] /\ ca \in Nat
    BY DEF TypeOK
  <2>2. Torn \in Content
    BY DEF Content
  <2>3. disk' \in [key : Content, cert : Content, serial : Content \ {0}] /\ ca' \in Nat
    BY ONLY <1>0, <2>1, <2>2
  <2> QED BY ONLY TypeOK, <1>0, <2>3 DEF TypeOK
<1>2. Files'
  BY DEF TypeOK, Files, ReadStore, OpenStoreFile, Content, Absent, Torn, Lost
<1>3. Serials'
  <2>1. disk'.serial = disk.serial /\ phase # "up" /\ UNCHANGED <<pc, issued, faults>>
    <3>1. phase # "up"
      BY DEF ReadStore, OpenStoreFile
    <3> QED BY <1>0, <3>1 DEF TypeOK
  <2>2. LastSerial' = LastSerial /\ pc = Idle /\ pc' = pc
    BY <2>1 DEF LastSerial, Serials
  <2> QED BY <2>1, <2>2 DEF Serials, Idle
<1>4. Cache' /\ QueueCovers' /\ CoversServer'
  BY DEF Cache, QueueCovers, CoversServer, ReadStore, OpenStoreFile, threadVars, cacheVars
<1> QED BY <1>1, <1>2, <1>3, <1>4

(* The two files are closed one after the other, whatever becomes of them. *)
LEMMA CloseStep == ASSUME IInv, CloseStoreFile PROVE IInv'
<1>0. TypeOK /\ Files /\ Serials /\ Cache /\ QueueCovers /\ CoversServer
  BY DEF IInv
<1>1. /\ UNCHANGED <<ca, issued, pc, wanted, given, cert_map, cert_queue, writer>>
      /\ \/ phase = "closing_cert" /\ Close("cert", ca) /\ phase' = "closing_key"
         \/ phase = "closing_key" /\ Close("key", ca) /\ phase' = "up"
  BY DEF CloseStoreFile, threadVars, cacheVars
<1>2. ca \in Nat \ {0}
  <2>1. ca \in Nat
    BY <1>0 DEF TypeOK
  <2> QED BY <1>0, <1>1, <2>1 DEF Files
<1>3. /\ disk' \in [key : Content, cert : Content, serial : Content \ {0}]
      /\ faults' \in 0..MaxFaults /\ (faults' = 0 => faults = 0)
      /\ disk'.serial = disk.serial
      /\ \/ phase = "closing_cert" /\ disk'.cert \in {ca, Lost} /\ disk'.key = disk.key /\ phase' = "closing_key"
         \/ phase = "closing_key" /\ disk'.key \in {ca, Lost} /\ disk'.cert = disk.cert /\ phase' = "up"
  <2>1. CASE phase = "closing_cert" /\ Close("cert", ca) /\ phase' = "closing_key"
    BY <1>0, <1>2, <2>1, Closed
  <2>2. CASE phase = "closing_key" /\ Close("key", ca) /\ phase' = "up"
    BY <1>0, <1>2, <2>2, Closed
  <2> QED BY <1>1, <2>1, <2>2
<1>4. TypeOK'
  BY <1>0, <1>1, <1>3 DEF TypeOK
<1>5. Files'
  BY <1>0, <1>1, <1>2, <1>3 DEF Files, Absent, Torn, Lost
<1>6. Serials'
  <2>1. LastSerial' = LastSerial /\ pc = Idle
    BY <1>0, <1>1, <1>3 DEF LastSerial, Serials
  <2> QED BY <1>0, <1>1, <1>3, <2>1 DEF Serials, Idle
<1>7. Cache' /\ QueueCovers' /\ CoversServer'
  BY <1>0, <1>1 DEF Cache, QueueCovers, CoversServer
<1> QED BY <1>4, <1>5, <1>6, <1>7 DEF IInv

LEMMA CreateStep == ASSUME IInv, CreateStore PROVE IInv'
<1> USE StoreAssumption DEF IInv, CreateStore
<1>0. LastSerial \in Nat
  BY DEF LastSerial
<1>a. PICK n \in Nat \ {0} : n = LastSerial + 1
  BY <1>0
<1>b. /\ disk' \in [key : Content, cert : Content, serial : Content \ {0}]
      /\ faults' \in 0..MaxFaults /\ (faults' = 0 => faults = 0 /\ disk'.serial = n)
      /\ disk'.key = disk.key /\ disk'.cert = disk.cert
  BY <1>a, Closed DEF WriteLastSerial
<1>1. TypeOK'
  <2>1. issued' \in Seq([ca : Nat, serial : Nat \ {0}])
    BY <1>0 DEF TypeOK, TakeSerial
  <2>2. /\ ca' \in Nat /\ phase' \in {"down", "opening", "closing_cert", "closing_key", "up", "refused"}
        /\ UNCHANGED <<pc, wanted, given, cert_map, cert_queue, writer>>
    BY DEF TypeOK, threadVars, cacheVars
  <2> QED BY ONLY TypeOK, <1>b, <2>1, <2>2 DEF TypeOK
<1>2. Files'
  <2>1. phase' = "opening" /\ (disk.key = Absent \/ disk.cert = Absent) /\ Files /\ ca' # 0
    BY DEF TypeOK
  <2> QED BY ONLY <1>b, <2>1 DEF Files, Absent, Torn, Lost
<1>3. Serials'
  <2>1. pc = Idle /\ pc' = pc /\ \A t \in Threads : pc[t] = "idle"
    BY DEF Serials, threadVars, Idle
  <2>2. PICK s \in Nat : s = LastSerial
    BY <1>0
  <2>3. issued' = Append(issued, [ca |-> ca + 1, serial |-> s + 1]) /\ issued \in Seq([ca : Nat, serial : Nat \ {0}])
    BY <2>2 DEF TypeOK, TakeSerial
  <2>4. /\ Len(issued') = Len(issued) + 1 /\ Len(issued) \in Nat
        /\ issued'[Len(issued) + 1].serial = s + 1
        /\ \A k \in 1..Len(issued) : issued'[k] = issued[k]
    <3>1. [ca |-> ca + 1, serial |-> s + 1] \in [ca : Nat, serial : Nat \ {0}]
      BY DEF TypeOK
    <3> QED BY ONLY <2>3, <3>1
  <2>5. ASSUME faults' = 0
        PROVE  (\A k \in 1..Len(issued') : issued'[k].serial = k) /\ LastSerial' = Len(issued')
    <3>1. faults = 0 /\ disk'.serial = s + 1
      BY <1>a, <1>b, <2>2, <2>5
    <3>2. s = Len(issued) /\ \A k \in 1..Len(issued) : issued[k].serial = k
      BY <2>1, <2>2, <3>1 DEF Serials
    <3>3. \A k \in 1..Len(issued') : issued'[k].serial = k
      BY ONLY <2>4, <3>2
    <3>4. LastSerial' = s + 1
      BY <3>1 DEF LastSerial
    <3> QED BY ONLY <2>4, <3>2, <3>3, <3>4
  <2>6. pc' = Idle /\ \A t \in Threads : pc'[t] = "idle"
    BY <2>1
  <2> QED BY ONLY <2>5, <2>6 DEF Serials
<1>4. Cache' /\ QueueCovers' /\ CoversServer'
  BY DEF Cache, QueueCovers, CoversServer, threadVars, cacheVars
<1> QED BY <1>1, <1>2, <1>3, <1>4

(* The memory of the program is empty when it starts again.                *)
LEMMA EndStep == ASSUME IInv, Exit \/ Crash PROVE IInv'
<1> USE StoreAssumption DEF IInv, Exit, Crash, Forget, Idle, Unasked, Ungiven
<1>1. TypeOK'
  <2>1. NoCertificate \in Certificates
    BY DEF Certificates, NoCertificate
  <2>2. DOMAIN cert_map' = {} /\ Range(cert_map') = {} /\ cert_queue' \in Seq(Hosts \union {NoName})
    <3>1. cert_map' = <<>> /\ cert_queue' = <<>> /\ DOMAIN <<>> = {}
      OBVIOUS
    <3> QED BY ONLY <3>1 DEF Range
  <2>3. /\ phase' = "down" /\ faults' \in 0..MaxFaults /\ writer' = NoThread
        /\ pc' = Idle /\ wanted' = Unasked /\ given' = Ungiven
        /\ UNCHANGED <<disk, ca, issued>>
    BY DEF TypeOK
  <2> QED BY ONLY TypeOK, <2>1, <2>2, <2>3 DEF TypeOK, Idle, Unasked, Ungiven
<1>2. Files'
  BY DEF Files
<1>3. Serials'
  BY DEF TypeOK, Serials, LastSerial
<1>4. Cache' /\ QueueCovers' /\ CoversServer'
  BY DEF Cache, QueueCovers, CoversServer
<1> QED BY <1>1, <1>2, <1>3, <1>4

LEMMA SearchStep ==
    ASSUME IInv, NEW t \in Threads, NEW i \in Interfaces, Search(t, i) PROVE IInv'
<1> USE StoreAssumption DEF IInv, Search
<1>1. TypeOK'
  <2>1. given'[t] \in Certificates \union {Dangling}
    <3>1. NoCertificate \in Certificates
      BY DEF Certificates, NoCertificate
    <3>2. given'[t] = NoCertificate \/ \E k \in DOMAIN cert_map : given'[t] = cert_map[k]
      BY DEF TypeOK, Matching
    <3> QED BY <3>1, <3>2 DEF TypeOK, Range
  <2> QED BY <2>1 DEF TypeOK, programVars, cacheVars
<1>2. Files'
  BY DEF Files, programVars
<1>3. Serials'
  <2>1. /\ UNCHANGED <<disk, phase, issued, faults>> /\ phase = "up"
        /\ pc' = pc \/ pc' = [pc EXCEPT ![t] = "generate"]
        /\ pc \in [Threads -> {"idle", "generate", "write_serial", "insert", "evict"}] /\ pc[t] = "idle"
    BY DEF TypeOK, programVars
  <2>2. \A u \in Threads : pc'[u] = "write_serial" <=> pc[u] = "write_serial"
    BY ONLY <2>1
  <2> QED BY ONLY Serials, <2>1, <2>2 DEF Serials, LastSerial
<1>4. Cache' /\ QueueCovers'
  BY DEF TypeOK, Cache, QueueCovers, cacheVars, Key
<1>5. CoversServer'
  <2> SUFFICES ASSUME NEW u \in Threads, given'[u] \notin {NoCertificate, Dangling}, wanted'[u].cn # NoName
               PROVE  given'[u].names \intersect Forms(wanted'[u].cn) # {}
    BY DEF CoversServer
  <2>1. CASE u = t
    <3>1. PICK k \in Matching(i.cn) : given'[t] = cert_map[k]
      BY <2>1 DEF TypeOK
    <3>2. wanted'[t] = i
      BY DEF TypeOK
    <3> QED BY <2>1, <3>1, <3>2 DEF Matching, Overlap
  <2>2. CASE u # t
    BY <2>2 DEF TypeOK, CoversServer
  <2> QED BY <2>1, <2>2
<1> QED BY <1>1, <1>2, <1>3, <1>4, <1>5

LEMMA ReadSerialStep == ASSUME IInv, NEW t \in Threads, ReadSerial(t) PROVE IInv'
<1> USE StoreAssumption DEF IInv, ReadSerial
<1>0. LastSerial \in Nat
  BY DEF LastSerial
<1>1. TypeOK'
  <2>1. issued' \in Seq([ca : Nat, serial : Nat \ {0}])
    BY <1>0 DEF TypeOK, TakeSerial
  <2>2. Torn \in Content \ {0}
    BY DEF Content, Torn
  <2> QED BY <2>1, <2>2 DEF TypeOK, cacheVars
<1>2. Files'
  BY DEF TypeOK, Files
<1>3. Serials'
  <2>1. /\ phase' = "up" /\ pc'[t] = "write_serial" /\ issued' # <<>>
        /\ \A u \in Threads \ {t} : pc'[u] # "write_serial"
    BY <1>0, SMTT(30) DEF TypeOK, TakeSerial
  <2>2. ASSUME faults = 0, NEW k \in 1..Len(issued') PROVE issued'[k].serial = k
    <3>1. LastSerial = Len(issued)
      BY <2>2 DEF Serials
    <3>2. /\ Len(issued') = Len(issued) + 1
          /\ issued'[k] = IF k = Len(issued) + 1 THEN [ca |-> ca, serial |-> LastSerial + 1] ELSE issued[k]
      BY <1>0, SMTT(30) DEF TypeOK, TakeSerial
    <3> QED BY <2>2, <3>1, <3>2 DEF Serials, TypeOK
  <2> QED BY <2>1, <2>2 DEF Serials
<1>4. Cache' /\ QueueCovers' /\ CoversServer'
  BY DEF TypeOK, Cache, QueueCovers, CoversServer, cacheVars
<1> QED BY <1>1, <1>2, <1>3, <1>4

LEMMA WriteSerialStep == ASSUME IInv, NEW t \in Threads, WriteSerial(t) PROVE IInv'
<1> USE StoreAssumption DEF IInv, WriteSerial
<1>0. issued # <<>> /\ Last(issued) = issued[Len(issued)] /\ Last(issued).serial \in Nat \ {0}
  <2>1. issued # <<>>
    BY DEF Serials
  <2>2. Len(issued) \in 1..Len(issued) /\ issued[Len(issued)] \in [ca : Nat, serial : Nat \ {0}]
    <3>1. issued \in Seq([ca : Nat, serial : Nat \ {0}])
      BY DEF TypeOK
    <3> QED BY ONLY <2>1, <3>1, LastOfSequence
  <2> QED BY <2>1, <2>2 DEF Last
<1>a. /\ disk' \in [key : Content, cert : Content, serial : Content \ {0}]
      /\ faults' \in 0..MaxFaults
      /\ (faults' = 0 => faults = 0 /\ disk'.serial = Last(issued).serial)
      /\ disk'.key = disk.key /\ disk'.cert = disk.cert
  BY <1>0, Closed DEF WriteLastSerial
<1>1. TypeOK'
  <2>1. disk' \in [key : Content, cert : Content, serial : Content \ {0}] /\ faults' \in 0..MaxFaults
    BY <1>a
  <2>2. pc' \in [Threads -> {"idle", "generate", "write_serial", "insert", "evict"}]
    BY DEF TypeOK
  <2> QED BY <2>1, <2>2 DEF TypeOK, cacheVars
<1>2. Files'
  BY <1>a DEF Files
<1>3. Serials'
  <2>1. /\ phase = "up" /\ phase' = phase /\ issued' = issued
        /\ \A u \in Threads : pc'[u] # "write_serial" /\ u # t => pc[u] # "write_serial" /\ pc'[u] = pc[u]
        /\ \A u \in Threads : pc'[u] # "write_serial"
    BY DEF TypeOK, Serials, Idle
  <2>2. ASSUME faults' = 0 PROVE faults = 0 /\ LastSerial' = Len(issued)
    <3>1. faults = 0 /\ disk'.serial = Last(issued).serial
      BY <1>a, <2>2
    <3>2. Last(issued).serial = Len(issued) /\ Len(issued) \in Nat
      BY <1>0, <3>1 DEF Serials, TypeOK
    <3> QED BY <3>1, <3>2 DEF LastSerial
  <2> QED BY <2>1, <2>2 DEF Serials
<1>4. Cache' /\ QueueCovers' /\ CoversServer'
  BY DEF TypeOK, Cache, QueueCovers, CoversServer, cacheVars
<1> QED BY <1>1, <1>2, <1>3, <1>4

(* A certificate is inserted, or the one that is there already kept; its   *)
(* key is the next to be queued.                                           *)
LEMMA EmplaceStep == ASSUME IInv, NEW t \in Threads, Emplace(t) PROVE IInv'
<1> USE StoreAssumption DEF IInv, Emplace
<1> DEFINE i    == wanted[t]
           cert == [cn |-> i.cn, names |-> i.sans]
<1>1. /\ i.cn \in Hosts \union {NoName} /\ i.sans \subseteq Hosts \union {Wildcard}
      /\ i.cn # NoName => i.cn \in i.sans
  <2>1. i \in Interfaces \union {NoInterface}
    BY DEF TypeOK
  <2> QED BY ONLY <2>1, InterfaceNames, StoreAssumption
<1>2. cert \in Certificates /\ cert.names = i.sans
  BY ONLY <1>1 DEF Certificates
<1>3. /\ DOMAIN cert_map' = DOMAIN cert_map \union {Key(i)}
      /\ \A k \in DOMAIN cert_map : cert_map'[k] = cert_map[k]
      /\ Key(i) \notin DOMAIN cert_map => cert_map'[Key(i)] = cert
      /\ UNCHANGED given
  BY DEF Key
<1>4. \A k \in DOMAIN cert_map' : cert_map'[k] \in Certificates /\ (k # NoName => k \in cert_map'[k].names)
  <2>1. \A k \in DOMAIN cert_map : cert_map[k] \in Certificates /\ (k # NoName => k \in cert_map[k].names)
    BY DEF TypeOK, Cache, Range
  <2> QED BY ONLY <1>1, <1>2, <1>3, <2>1 DEF Key
<1>5. TypeOK'
  <2>1. DOMAIN cert_map' \subseteq Hosts \union {NoName} /\ Range(cert_map') \subseteq Certificates
    <3>1. DOMAIN cert_map \subseteq Hosts \union {NoName}
      BY DEF TypeOK
    <3> QED BY ONLY <1>1, <1>3, <1>4, <3>1 DEF Range, Key
  <2> QED BY <1>3, <2>1 DEF TypeOK, programVars
<1>6. Files'
  BY DEF Files, programVars
<1>7. Serials'
  BY DEF TypeOK, Serials, LastSerial, programVars
<1>8. Cache'
  <2>1. \A u \in Threads : pc'[u] = "evict" <=> writer' = u
    BY DEF TypeOK, Cache
  <2>2. DOMAIN cert_map' \subseteq Range(cert_queue') \union {Key(wanted'[writer'])}
    <3>1. cert_queue' = cert_queue /\ wanted' = wanted /\ writer' = t
      BY DEF programVars
    <3>2. DOMAIN cert_map \subseteq Range(cert_queue)
      BY DEF QueueCovers
    <3> QED BY ONLY <1>3, <3>1, <3>2
  <2> QED BY <1>4, <2>1, <2>2 DEF Cache
<1>9. QueueCovers'
  BY DEF QueueCovers
<1>10. CoversServer'
  BY <1>3 DEF CoversServer
<1> QED BY <1>5, <1>6, <1>7, <1>8, <1>9, <1>10

(* The key that is deleted is the one that leaves the queue.               *)
LEMMA EvictStep == ASSUME IInv, NEW t \in Threads, Evict(t) PROVE IInv'
<1> USE StoreAssumption DEF IInv, Evict
<1> DEFINE key   == Key(wanted[t])
           queue == Append(cert_queue, key)
<1>1. key \in Hosts \union {NoName}
  <2>1. wanted[t] \in Interfaces \union {NoInterface}
    BY DEF TypeOK
  <2> QED BY ONLY <2>1, InterfaceNames, StoreAssumption DEF Key
<1>2. /\ queue \in Seq(Hosts \union {NoName}) /\ Tail(queue) \in Seq(Hosts \union {NoName})
      /\ DOMAIN cert_map \subseteq Range(queue)
      /\ DOMAIN cert_map \ {Head(queue)} \subseteq Range(Tail(queue))
  <2>1. cert_queue \in Seq(Hosts \union {NoName})
    BY DEF TypeOK
  <2>2. DOMAIN cert_map \subseteq Range(cert_queue) \union {key}
    BY DEF Cache
  <2> QED BY ONLY <1>1, <2>1, <2>2, QueueMoves
<1>3. \/ cert_map' = cert_map /\ cert_queue' = queue
      \/ /\ cert_map' = Restrict(cert_map, DOMAIN cert_map \ {Head(queue)})
         /\ cert_queue' = Tail(queue)
  OBVIOUS
<1>4. /\ cert_queue' \in Seq(Hosts \union {NoName}) /\ DOMAIN cert_map' \subseteq Range(cert_queue')
      /\ DOMAIN cert_map' \subseteq DOMAIN cert_map
      /\ \A k \in DOMAIN cert_map' : cert_map'[k] = cert_map[k]
  BY ONLY <1>2, <1>3 DEF Restrict
<1>a. PICK given1 : given1 = Returned(t, cert_map')
  OBVIOUS
<1>b. /\ given' = [given EXCEPT ![t] = given1]
      /\ \/ given1 = Dangling
         \/ key \in DOMAIN cert_map' /\ given1 = cert_map'[key]
  BY <1>a DEF Returned
<1>c. given1 \in Certificates \union {Dangling}
  <2>1. Range(cert_map) \subseteq Certificates
    BY DEF TypeOK
  <2>2. \A k \in DOMAIN cert_map : cert_map[k] \in Certificates
    BY ONLY <2>1 DEF Range
  <2> QED BY ONLY <1>4, <1>b, <2>2
<1>5. TypeOK'
  <2>1. DOMAIN cert_map' \subseteq Hosts \union {NoName} /\ Range(cert_map') \subseteq Certificates
    <3>1. DOMAIN cert_map \subseteq Hosts \union {NoName} /\ Range(cert_map) \subseteq Certificates
      BY DEF TypeOK
    <3> QED BY ONLY <1>4, <3>1 DEF Range
  <2>2. /\ pc' \in [Threads -> {"idle", "generate", "write_serial", "insert", "evict"}]
        /\ writer' = NoThread
        /\ UNCHANGED <<disk, phase, ca, issued, faults, wanted>>
    BY DEF TypeOK, programVars
  <2>3. given' \in [Threads -> Certificates \union {Dangling}]
    <3>1. given \in [Threads -> Certificates \union {Dangling}]
      BY DEF TypeOK
    <3> QED BY ONLY <1>b, <1>c, <3>1
  <2> QED BY ONLY TypeOK, <1>4, <2>1, <2>2, <2>3 DEF TypeOK
<1>6. Files'
  BY DEF Files, programVars
<1>7. Serials'
  <2>1. /\ phase' = phase /\ phase = "up" /\ \A u \in Threads : pc'[u] = "write_serial" <=> pc[u] = "write_serial"
        /\ UNCHANGED <<disk, issued, faults>>
    BY DEF TypeOK, Serials, Idle, programVars
  <2> QED BY ONLY Serials, <2>1 DEF Serials, LastSerial
<1>8. Cache' /\ QueueCovers'
  <2>1. \A u \in Threads : pc'[u] # "evict" /\ writer' = NoThread
    BY DEF TypeOK, Cache
  <2>2. \A k \in DOMAIN cert_map' : k # NoName => k \in cert_map'[k].names
    <3>1. \A k \in DOMAIN cert_map : k # NoName => k \in cert_map[k].names
      BY DEF Cache
    <3> QED BY ONLY <1>4, <3>1
  <2> QED BY ONLY StoreAssumption, <1>4, <2>1, <2>2 DEF StoreAssumption, Cache, QueueCovers
<1>9. CoversServer'
  <2> SUFFICES ASSUME NEW u \in Threads, given'[u] \notin {NoCertificate, Dangling}, wanted'[u].cn # NoName
               PROVE  given'[u].names \intersect Forms(wanted'[u].cn) # {}
    BY DEF CoversServer
  <2>1. CASE u = t
    <3>1. given'[t] = given1 /\ wanted'[t] = wanted[t]
      BY <1>b DEF TypeOK
    <3>2. key \in DOMAIN cert_map' /\ given1 = cert_map'[key] /\ key = wanted[t].cn
      BY <1>b, <2>1, <3>1 DEF Key
    <3>3. key \in cert_map[key].names /\ cert_map'[key] = cert_map[key]
      BY <1>4, <2>1, <3>1, <3>2 DEF Cache
    <3> QED BY <2>1, <3>1, <3>2, <3>3 DEF Forms
  <2>2. CASE u # t
    BY <1>b, <2>2 DEF TypeOK, CoversServer
  <2> QED BY <2>1, <2>2
<1> QED BY <1>5, <1>6, <1>7, <1>8, <1>9

(***************************************************************************)
(* Theorems.                                                               *)
(***************************************************************************)

(* Whatever the threads, the names and the size of the cache are, and      *)
(* wherever the program is interrupted, the invariant holds.               *)
THEOREM StoreInvariant == Spec => []IInv
<1>1. IInv /\ [Next]_vars => IInv'
  <2> SUFFICES ASSUME IInv, [Next]_vars PROVE IInv'
    OBVIOUS
  <2>1. CASE ReadStore \/ OpenStoreFile
    BY <2>1, StoreStep
  <2>2. CASE CreateStore
    BY <2>2, CreateStep
  <2>3. CASE Exit \/ Crash
    BY <2>3, EndStep
  <2>4. CASE \E t \in Threads, i \in Interfaces : Search(t, i)
    BY <2>4, SearchStep
  <2>5. CASE \E t \in Threads : ReadSerial(t)
    BY <2>5, ReadSerialStep
  <2>6. CASE \E t \in Threads : WriteSerial(t)
    BY <2>6, WriteSerialStep
  <2>7. CASE \E t \in Threads : Emplace(t)
    BY <2>7, EmplaceStep
  <2>8. CASE \E t \in Threads : Evict(t)
    BY <2>8, EvictStep
  <2>9. CASE CloseStoreFile
    BY <2>9, CloseStep
  <2>10. CASE UNCHANGED vars
    <3> USE <2>10 DEF vars, programVars, threadVars, cacheVars, IInv
    <3>1. TypeOK' /\ Files'
      BY DEF TypeOK, Files
    <3>2. Serials' /\ Cache'
      BY DEF Serials, LastSerial, Cache
    <3>3. QueueCovers' /\ CoversServer'
      BY DEF QueueCovers, CoversServer
    <3> QED BY <3>1, <3>2, <3>3
  <2> QED BY <2>1, <2>2, <2>3, <2>4, <2>5, <2>6, <2>7, <2>8, <2>9, <2>10 DEF Next
<1> QED BY <1>1, Starts, PTL DEF Spec

(* The variables of the store keep their types.                            *)
THEOREM StoreTypes == Spec => []TypeOK
<1>1. IInv => TypeOK
  BY DEF IInv
<1> QED BY <1>1, StoreInvariant, PTL

(* get_certificate_for_client is never given a certificate that is good    *)
(* for neither the name of the server nor its asterisk form, unless insert *)
(* reads its reference after it has deleted the entry it refers to.        *)
THEOREM GivenCertificatesFit == Spec => []CoversServer
<1>1. IInv => CoversServer
  BY DEF IInv
<1> QED BY <1>1, StoreInvariant, PTL

(* insert leaves no certificate in cert_map_ that cert_queue_ will never   *)
(* let it delete.                                                          *)
THEOREM NoneStaysForEver == Spec => []QueueCovers
<1>1. IInv => QueueCovers
  BY DEF IInv
<1> QED BY <1>1, StoreInvariant, PTL

(* generate_serial hands every serial number out once, over any number of  *)
(* orderly restarts.                                                       *)
THEOREM SerialsDiffer == Spec => []UniqueSerials
<1>1. IInv => UniqueSerials
  <2> SUFFICES ASSUME IInv, faults = 0, NEW a \in DOMAIN issued, NEW b \in DOMAIN issued,
                      issued[a] = issued[b]
               PROVE  a = b
    BY DEF UniqueSerials, IsInjective
  <2>0. issued \in Seq([ca : Nat, serial : Nat \ {0}])
    BY DEF IInv, TypeOK
  <2>1. a \in 1..Len(issued) /\ b \in 1..Len(issued)
    BY ONLY <2>0
  <2>2. \A k \in 1..Len(issued) : issued[k].serial = k
    BY DEF IInv, Serials
  <2>3. issued[a].serial = a /\ issued[b].serial = b
    BY <2>1, <2>2
  <2> QED BY <2>3
<1> QED BY <1>1, StoreInvariant, PTL

(* create and read_store leave the program with the authority whose key    *)
(* and certificate are in the files, wherever create_store was cut off; a  *)
(* file may only have lost its content when it was closed, and then        *)
(* read_store refuses it.                                                  *)
THEOREM AuthorityStays == Spec => []AuthorityPersists
<1>1. IInv => AuthorityPersists
  BY DEF IInv, Files, AuthorityPersists
<1> QED BY <1>1, StoreInvariant, PTL
================================================================================
