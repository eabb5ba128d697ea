------------------------------ MODULE KVProofs ------------------------------
(***************************************************************************)
(* One life of a KVStateMachine, for any number of handlers, keys and      *)
(* entries: what a 204 promises.                                           *)
(***************************************************************************)
EXTENDS KVStateMachine, Integers, FiniteSetTheorems, SequenceTheorems, TLAPS

Entry == [op : {"set", "del", "other", "bad"}, key : Keys, name : Nat]
Job == [index : Nat, entry : Entry]
Stage == [index : Nat, entry : Entry, done : {"store", "cache", "advance"}]
Request == [pc : {"asked", "checked", "waiting", "woken", "answered"},
            kind : {"put", "get"}, key : Keys, index : Nat, name : Nat]

(***************************************************************************)
(* What the theorem supposes: the store takes every write, has room for    *)
(* every key, no other leader replaces entries, and the process lives.     *)
(***************************************************************************)
OneLife ==
    /\ StoreFaults = FALSE /\ Overwrites = FALSE /\ MaxRestarts = 0
    /\ Ops \subseteq {"set", "del", "other", "bad"}
    /\ IsFiniteSet(Keys) /\ MaxKeys \in Nat /\ Cardinality(Keys) <= MaxKeys
    /\ None \notin Stage

(* The last entry that apply() is through with, as far as the map is concerned. *)
ApplyFront ==
    delivered - Len(queue) - (IF applying # None /\ applying.done = "store" THEN 1 ELSE 0)

Types ==
    /\ log \in Seq(Entry) /\ entries \in Nat
    /\ commit \in Nat /\ commit <= Len(log) /\ delivered \in Nat /\ delivered <= commit
    /\ queue \in Seq(Job) /\ Len(queue) <= delivered
    /\ applying \in Stage \cup {None}
    /\ data \in [Keys -> Nat] /\ lastApplied \in Nat
    /\ DOMAIN index \subseteq Keys
    /\ client \in [Clients -> Request \cup {Idle}]
    /\ restarts = 0

(* The queue and the entry at hand are the delivered end of the log, in order. *)
InStep ==
    /\ \A n \in 1..Len(queue) :
          /\ queue[n].index = delivered - Len(queue) + n
          /\ queue[n].entry = log[queue[n].index]
    /\ applying # None =>
          /\ applying.index = delivered - Len(queue) /\ applying.index > 0
          /\ applying.entry = log[applying.index] /\ applying.entry.op # "bad"
          /\ applying.done \in {"cache", "advance"} => applying.entry.name \in applied
    /\ lastApplied <= ApplyFront

(* A writer's entry is in the map, or apply() has not come to it. *)
Writer(c) == client[c] # Idle /\ client[c].kind = "put"

WritersServed ==
    \A c \in Clients : Writer(c) =>
        /\ client[c].index \in 1..Len(log)
        /\ log[client[c].index].name = client[c].name /\ log[client[c].index].op # "bad"
        /\ client[c].name \in applied \/ client[c].index > ApplyFront
        /\ client[c].pc \in {"woken", "answered"} => client[c].name \in applied

KVInv == Types /\ InStep /\ WritersServed

-----------------------------------------------------------------------------
LEMMA InitInv == ASSUME OneLife PROVE Init => KVInv
<1> SUFFICES ASSUME Init PROVE KVInv
    BY Zenon
<1> USE DEF Init, Idle
<1>1. Types
    BY DEF Types, Empty
<1>2. InStep
    BY DEF InStep, ApplyFront
<1>3. WritersServed
    BY Zenon DEF WritersServed, Writer
<1> QED
    BY <1>1, <1>2, <1>3, Zenon DEF KVInv

LEMMA ApplyFrontIsNat == ASSUME OneLife, Types, InStep PROVE ApplyFront \in Nat /\ ApplyFront <= Len(log)
<1>1. Len(queue) \in Nat /\ Len(log) \in Nat /\ delivered \in Nat
    BY DEF Types
<1>2. applying # None => applying.index = delivered - Len(queue) /\ applying.index > 0
    BY Zenon DEF InStep
<1> QED
    BY <1>1, <1>2 DEF Types, ApplyFront

(* The store's index has room for the key of any entry. *)
LEMMA NeverFull ==
    ASSUME OneLife, Types, NEW k \in Keys PROVE ~Full(index, k)
<1> SUFFICES ASSUME k \notin DOMAIN index, Cardinality(DOMAIN index) >= MaxKeys PROVE FALSE
    BY Zenon DEF Full
<1>1. DOMAIN index \subseteq Keys /\ DOMAIN index # Keys
    BY Zenon DEF Types
<1>2. /\ IsFiniteSet(DOMAIN index) /\ Cardinality(DOMAIN index) < Cardinality(Keys)
      /\ Cardinality(Keys) \in Nat /\ Cardinality(DOMAIN index) \in Nat
    BY <1>1, FS_Subset, FS_CardinalityType DEF OneLife
<1> QED
    BY <1>2 DEF OneLife

(* Steps that leave the log's prefix, the queue and the map as they are. *)
LEMMA HandlerStep ==
    ASSUME OneLife, KVInv, NEW c \in Clients,
           \/ \E k \in Keys : ReadIndex(c, k)
           \/ CheckApplied(c) \/ Register(c) \/ GiveUp(c) \/ Answer(c) \/ Return(c)
    PROVE  KVInv'
<1> USE DEF KVInv
<1>1. /\ UNCHANGED <<log, commit, entries, delivered, index, queue, applying, data, lastApplied,
                     applied, restarts>>
      /\ \E r \in Request \cup {Idle} :
             /\ client' = [client EXCEPT ![c] = r]
             /\ r # Idle /\ r.kind = "put" =>
                   /\ Writer(c) /\ r.index = client[c].index /\ r.name = client[c].name
                   /\ r.pc \in {"woken", "answered"} =>
                        client[c].pc \in {"woken", "answered"} \/ lastApplied >= client[c].index
  <2>1. client[c] \in Request \cup {Idle} /\ data \in [Keys -> Nat] /\ commit \in Nat
      BY Zenon DEF Types
  <2>2. CASE \E k \in Keys : ReadIndex(c, k)
    <3>1. PICK k \in Keys : ReadIndex(c, k)
        BY <2>2, Zenon
    <3> DEFINE r == [pc |-> "asked", kind |-> "get", key |-> k, index |-> commit, name |-> 0]
    <3>2. r \in Request /\ client' = [client EXCEPT ![c] = r] /\ r.kind # "put"
        BY <3>1, <2>1, Zenon DEF ReadIndex, Request
    <3> QED
        BY <3>1, <3>2, Zenon DEF ReadIndex, raftVars, storeVars, smVars
  <2>3. CASE GiveUp(c) \/ Return(c)
      BY <2>3, Zenon DEF GiveUp, Return, raftVars, storeVars, smVars
  <2>4. CASE CheckApplied(c) \/ Register(c) \/ Answer(c)
    <3>1. client[c] \in Request /\ client[c] # Idle
        BY <2>1, <2>4 DEF CheckApplied, Register, Answer, Idle, Request
    <3>2. CASE CheckApplied(c)
      <4> DEFINE r == [client[c] EXCEPT !.pc = IF lastApplied >= client[c].index THEN "woken"
                                               ELSE "checked"]
      <4>1. r \in Request /\ client' = [client EXCEPT ![c] = r]
          BY <3>1, <3>2, Zenon DEF CheckApplied, Request
      <4>2. r.kind = "put" => /\ Writer(c) /\ r.index = client[c].index /\ r.name = client[c].name
                              /\ r.pc \in {"woken", "answered"} => lastApplied >= client[c].index
          BY <3>1, Zenon DEF Writer, Request
      <4> QED
          BY <4>1, <4>2, <3>2, Zenon DEF CheckApplied, raftVars, storeVars, smVars
    <3>3. CASE Register(c)
      <4> DEFINE r == [client[c] EXCEPT !.pc = "waiting"]
      <4>1. r \in Request /\ client' = [client EXCEPT ![c] = r]
          BY <3>1, <3>3, Zenon DEF Register, Request
      <4>2. r.kind = "put" => /\ Writer(c) /\ r.index = client[c].index /\ r.name = client[c].name
                              /\ r.pc \notin {"woken", "answered"}
          BY <3>1, Zenon DEF Writer, Request
      <4> QED
          BY <4>1, <4>2, <3>3, Zenon DEF Register, raftVars, storeVars, smVars
    <3>4. CASE Answer(c)
      <4> DEFINE r == [client[c] EXCEPT !.pc = "answered",
                          !.name = IF client[c].kind = "get" THEN data[client[c].key] ELSE @]
      <4>1. r \in Request /\ client' = [client EXCEPT ![c] = r]
          BY <3>1, <3>4, <2>1, Zenon DEF Answer, Request
      <4>2. r.kind = "put" => /\ Writer(c) /\ r.index = client[c].index /\ r.name = client[c].name
                              /\ client[c].pc = "woken"
          BY <3>1, <3>4, Zenon DEF Writer, Request, Answer
      <4> QED
          BY <4>1, <4>2, <3>4, Zenon DEF Answer, raftVars, storeVars, smVars
    <3> QED
        BY <2>4, <3>2, <3>3, <3>4, Zenon
  <2> QED
      BY <2>2, <2>3, <2>4, Zenon
<1>2. PICK r \in Request \cup {Idle} :
             /\ client' = [client EXCEPT ![c] = r]
             /\ r # Idle /\ r.kind = "put" =>
                   /\ Writer(c) /\ r.index = client[c].index /\ r.name = client[c].name
                   /\ r.pc \in {"woken", "answered"} =>
                        client[c].pc \in {"woken", "answered"} \/ lastApplied >= client[c].index
    BY <1>1, Zenon
<1>3. Types'
    BY <1>1, <1>2, Zenon DEF Types
<1>4. ApplyFront' = ApplyFront /\ InStep'
    BY <1>1, Zenon DEF InStep, ApplyFront
<1>5. WritersServed'
  <2> SUFFICES ASSUME NEW d \in Clients, Writer(d)'
               PROVE  /\ client'[d].index \in 1..Len(log)
                      /\ log[client'[d].index].name = client'[d].name
                      /\ log[client'[d].index].op # "bad"
                      /\ client'[d].name \in applied \/ client'[d].index > ApplyFront
                      /\ client'[d].pc \in {"woken", "answered"} => client'[d].name \in applied
      BY <1>1, <1>4, Zenon DEF WritersServed
  <2>1. CASE d # c
      BY <2>1, <1>2, Zenon DEF Types, WritersServed, Writer
  <2>2. CASE d = c
    <3>1. client'[c] = r /\ r # Idle /\ r.kind = "put"
        BY <2>2, <1>2, Zenon DEF Types, Writer
    <3>2. lastApplied >= client[c].index => client[c].name \in applied
      <4>1. ApplyFront \in Nat /\ lastApplied \in Nat /\ lastApplied <= ApplyFront
          BY ApplyFrontIsNat, Zenon DEF Types, InStep
      <4>2. /\ client[c].index \in 1..Len(log)
            /\ client[c].name \in applied \/ client[c].index > ApplyFront
          BY <3>1, <1>2, Zenon DEF WritersServed
      <4> QED
          BY <4>1, <4>2, SMTT(30)
    <3> QED
        BY <2>2, <3>1, <3>2, <1>2, Zenon DEF WritersServed
  <2> QED
      BY <2>1, <2>2, Zenon
<1> QED
    BY <1>3, <1>4, <1>5, Zenon

(* The log grows by one entry: every index keeps its entry. *)
LEMMA LogGrows ==
    ASSUME OneLife, KVInv, NEW x \in Entry, log' = Append(log, x), entries' = entries + 1,
           UNCHANGED <<commit, delivered, index, queue, applying, data, lastApplied, applied,
                       restarts>>,
           NEW p \in [Clients -> BOOLEAN],
           client' \in [Clients -> Request \cup {Idle}],
           \A c \in Clients : p[c] => /\ client'[c].index = Len(log) + 1 /\ x.op # "bad"
                                      /\ client'[c].name = x.name /\ client'[c].pc = "asked",
           \A c \in Clients : ~p[c] => client'[c] = client[c]
    PROVE  KVInv'
<1> USE DEF KVInv
<1>1. log \in Seq(Entry) /\ Len(log) \in Nat /\ delivered \in Nat /\ delivered <= Len(log)
      /\ Len(queue) \in Nat /\ Len(queue) <= delivered
    BY DEF Types
<1>2. /\ log' \in Seq(Entry) /\ Len(log') = Len(log) + 1 /\ log'[Len(log) + 1] = x
      /\ \A i \in 1..Len(log) : log'[i] = log[i]
    BY <1>1
<1>3. Types'
    BY <1>1, <1>2 DEF Types
<1>4. ApplyFront' = ApplyFront /\ ApplyFront <= Len(log) /\ ApplyFront \in Nat
    BY ApplyFrontIsNat, Zenon DEF ApplyFront
<1>5. InStep'
  <2>1. \A n \in 1..Len(queue) : queue[n].index \in 1..Len(log)
    <3>1. \A n \in 1..Len(queue) : queue[n].index = delivered - Len(queue) + n
        BY Zenon DEF InStep
    <3> QED
        BY <1>1, <3>1
  <2>2. applying # None => applying.index \in 1..Len(log)
      BY <1>1 DEF InStep
  <2> QED
      BY <1>2, <1>4, <2>1, <2>2, Zenon DEF InStep
<1>6. WritersServed'
  <2> SUFFICES ASSUME NEW d \in Clients, Writer(d)'
               PROVE  /\ client'[d].index \in 1..Len(log')
                      /\ log'[client'[d].index].name = client'[d].name
                      /\ log'[client'[d].index].op # "bad"
                      /\ client'[d].name \in applied \/ client'[d].index > ApplyFront
                      /\ client'[d].pc \in {"woken", "answered"} => client'[d].name \in applied
      BY <1>4, Zenon DEF WritersServed
  <2>1. CASE p[d]
      BY <2>1, <1>1, <1>2, <1>4, SMTT(30)
  <2>2. CASE ~p[d]
    <3>1. client'[d] = client[d] /\ Writer(d)
        BY <2>2, Zenon DEF Writer
    <3>2. client[d].index \in 1..Len(log) /\ client[d].index \in 1..Len(log')
        BY <3>1, <1>1, <1>2, SMTT(30) DEF WritersServed
    <3> QED
        BY <3>1, <3>2, <1>2, SMTT(30) DEF WritersServed
  <2> QED
      BY <2>1, <2>2, Zenon
<1> QED
    BY <1>3, <1>5, <1>6, Zenon

LEMMA ProposeStep ==
    ASSUME OneLife, KVInv, NEW c \in Clients, NEW op \in Ops \cap {"set", "del"}, NEW k \in Keys,
           Propose(c, op, k)
    PROVE  KVInv'
<1> DEFINE x == [op |-> op, key |-> k, name |-> entries + 1]
           r == [pc |-> "asked", kind |-> "put", key |-> k, index |-> Len(log) + 1, name |-> x.name]
           p == [d \in Clients |-> d = c]
<1>1. entries \in Nat /\ log \in Seq(Entry) /\ Len(log) \in Nat
    BY DEF KVInv, Types
<1>2. x \in Entry /\ log' = Append(log, x) /\ Len(log') = Len(log) + 1 /\ entries' = entries + 1
    BY <1>1 DEF Propose, Entry, OneLife
<1>3. client' = [client EXCEPT ![c] = r] /\ r \in Request
    BY <1>1, <1>2 DEF Propose, Request
<1>4. client' \in [Clients -> Request \cup {Idle}]
    BY <1>3, Zenon DEF KVInv, Types
<1>5. UNCHANGED <<commit, delivered, index, queue, applying, data, lastApplied, applied, restarts>>
    BY Zenon DEF Propose, storeVars, smVars
<1>6. client'[c] = r /\ \A d \in Clients \ {c} : client'[d] = client[d]
    BY <1>3, Zenon DEF KVInv, Types
<1>7. p \in [Clients -> BOOLEAN] /\ \A d \in Clients : p[d] <=> d = c
    BY Zenon
<1>8. \A d \in Clients : p[d] => /\ client'[d].index = Len(log) + 1 /\ x.op # "bad"
                                  /\ client'[d].name = x.name /\ client'[d].pc = "asked"
    BY <1>6, <1>7
<1>9. \A d \in Clients : ~p[d] => client'[d] = client[d]
    BY <1>6, <1>7, Zenon
<1> HIDE DEF x, p
<1> QED
    BY <1>2, <1>4, <1>5, <1>7, <1>8, <1>9, LogGrows, Zenon

LEMMA AppendStep ==
    ASSUME OneLife, KVInv, NEW i \in 1..MaxEntries, NEW op \in Ops, NEW k \in Keys,
           AppendOther(i, op, k)
    PROVE  KVInv'
<1> DEFINE x == [op |-> op, key |-> k, name |-> entries + 1]
           p == [d \in Clients |-> FALSE]
<1>1. entries \in Nat /\ log \in Seq(Entry) /\ Len(log) \in Nat
    BY DEF KVInv, Types
<1>2. x \in Entry /\ i = Len(log) + 1 /\ entries' = entries + 1
    BY <1>1 DEF AppendOther, Entry, OneLife
<1>3. log' = Append(log, x)
  <2>1. SubSeq(log, 1, Len(log)) = log
      BY <1>1
  <2> QED
      BY <1>1, <1>2, <2>1 DEF AppendOther
<1>4. client' \in [Clients -> Request \cup {Idle}] /\ client' = client
    BY Zenon DEF AppendOther, KVInv, Types
<1>5. UNCHANGED <<commit, delivered, index, queue, applying, data, lastApplied, applied, restarts>>
    BY Zenon DEF AppendOther, storeVars, smVars
<1>6. p \in [Clients -> BOOLEAN] /\ \A d \in Clients : ~p[d]
    BY Zenon
<1> HIDE DEF x, p
<1> QED
    BY <1>2, <1>3, <1>4, <1>5, <1>6, LogGrows, Zenon

LEMMA CollectStep == ASSUME OneLife, KVInv, Collect PROVE KVInv'
<1> USE DEF KVInv
<1> DEFINE m == commit - delivered
           tail == [n \in 1..m |-> [index |-> delivered + n, entry |-> log[delivered + n]]]
           q == Len(queue)
<1>1. /\ delivered < commit /\ queue' = queue \o tail /\ delivered' = commit
      /\ UNCHANGED <<log, commit, entries, index, applying, data, lastApplied, applied, client,
                     restarts>>
    BY Zenon DEF Collect, storeVars
<1>2. /\ log \in Seq(Entry) /\ Len(log) \in Nat /\ commit \in Nat /\ commit <= Len(log)
      /\ delivered \in Nat /\ queue \in Seq(Job) /\ q \in Nat /\ q <= delivered
    BY DEF Types
<1>3. m \in Nat /\ delivered + m = commit
    BY <1>1, <1>2
<1>4. tail \in Seq(Job) /\ Len(tail) = m
  <2>1. \A n \in 1..m : delivered + n \in 1..Len(log)
      BY <1>2, <1>3
  <2>2. \A n \in 1..m : [index |-> delivered + n, entry |-> log[delivered + n]] \in Job
      BY <1>2, <2>1 DEF Job
  <2>3. tail \in [1..m -> Job]
      BY <2>2, Zenon
  <2> HIDE DEF m
  <2> QED
      BY <2>3, <1>3
<1>5. \A n \in 1..m : tail[n].index = delivered + n /\ tail[n].entry = log[tail[n].index]
    BY <1>3, Zenon
<1> HIDE DEF tail, m, q
<1>6. /\ queue' \in Seq(Job) /\ Len(queue') = q + m
      /\ \A n \in 1..(q + m) : queue'[n] = IF n <= q THEN queue[n] ELSE tail[n - q]
  <2>1. /\ queue \o tail \in Seq(Job) /\ Len(queue \o tail) = Len(queue) + Len(tail)
        /\ \A n \in 1..(Len(queue) + Len(tail)) :
              (queue \o tail)[n] = IF n <= Len(queue) THEN queue[n] ELSE tail[n - Len(queue)]
      BY <1>2, <1>4, ConcatProperties, Zenon
  <2> QED
      BY <1>1, <1>4, <2>1, Zenon DEF q
<1>7. Types'
  <2>1. Len(queue') <= delivered' /\ delivered' <= commit'
    <3> HIDE DEF KVInv
    <3>1. q + m <= commit /\ commit <= commit
        BY <1>2, <1>3
    <3> QED
        BY <3>1, <1>1, <1>6, Zenon
  <2> QED
      BY <2>1, <1>1, <1>2, <1>6, Zenon DEF Types
<1>8. delivered' - Len(queue') = delivered - q
  <2> HIDE DEF KVInv
  <2>1. commit - (q + m) = delivered - q
      BY <1>2, <1>3
  <2> QED
      BY <2>1, <1>1, <1>6, Zenon
<1>9. ApplyFront' = ApplyFront
    BY <1>1, <1>8, Zenon DEF ApplyFront, q
<1>10. InStep'
  <2>1. \A n \in 1..Len(queue') : /\ queue'[n].index = delivered - q + n
                                 /\ queue'[n].entry = log[queue'[n].index]
    <3> SUFFICES ASSUME NEW n \in 1..(q + m)
                 PROVE  /\ queue'[n].index = delivered - q + n
                        /\ queue'[n].entry = log[queue'[n].index]
        BY <1>6, Zenon
    <3>1. CASE n <= q
      <4>1. n \in 1..q /\ queue'[n] = queue[n]
        <5> HIDE DEF KVInv
        <5> QED
            BY <3>1, <1>2, <1>6, SMTT(30)
      <4> QED
          BY <4>1, Zenon DEF InStep, q
    <3>2. CASE ~(n <= q)
      <4> HIDE DEF KVInv
      <4>1. n - q \in 1..m /\ queue'[n] = tail[n - q]
          BY <3>2, <1>2, <1>3, <1>6, SMTT(30)
      <4>2. delivered - q + n = delivered + (n - q)
          BY <1>2
      <4> QED
          BY <4>1, <4>2, <1>5, Zenon
    <3> QED
        BY <3>1, <3>2, Zenon
  <2> QED
      BY <2>1, <1>1, <1>8, <1>9, Zenon DEF InStep, q
<1>11. WritersServed'
    BY <1>1, <1>9, Zenon DEF WritersServed, Writer
<1> QED
    BY <1>7, <1>10, <1>11, Zenon

(* The head of the queue is the entry after the front. *)
LEMMA HeadOfQueue ==
    ASSUME OneLife, KVInv, applying = None, queue # << >>
    PROVE  /\ Head(queue) \in Job /\ Tail(queue) \in Seq(Job) /\ Len(Tail(queue)) = Len(queue) - 1
           /\ Head(queue).index = ApplyFront + 1 /\ Head(queue).index \in 1..Len(log)
           /\ Head(queue).index = delivered - (Len(queue) - 1)
           /\ Head(queue).entry = log[Head(queue).index]
           /\ \A n \in 1..(Len(queue) - 1) :
                 /\ Tail(queue)[n].index = delivered - (Len(queue) - 1) + n
                 /\ Tail(queue)[n].entry = log[Tail(queue)[n].index]
<1> USE DEF KVInv
<1>1. /\ queue \in Seq(Job) /\ Len(queue) \in Nat \ {0} /\ delivered \in Nat /\ Len(log) \in Nat
      /\ Len(queue) <= delivered /\ delivered <= Len(log) /\ ApplyFront = delivered - Len(queue)
    BY DEF Types, ApplyFront
<1>2. /\ Head(queue) = queue[1] /\ Head(queue) \in Job /\ Tail(queue) \in Seq(Job)
      /\ Len(Tail(queue)) = Len(queue) - 1
      /\ \A n \in 1..(Len(queue) - 1) : Tail(queue)[n] = queue[n + 1]
    BY <1>1
<1>3. \A n \in 1..Len(queue) : /\ queue[n].index = delivered - Len(queue) + n
                               /\ queue[n].entry = log[queue[n].index]
    BY Zenon DEF InStep
<1>4. 1 \in 1..Len(queue) /\ \A n \in 1..(Len(queue) - 1) : n + 1 \in 1..Len(queue)
    BY <1>1
<1> HIDE DEF KVInv
<1>5. /\ delivered - Len(queue) + 1 = ApplyFront + 1 /\ ApplyFront + 1 \in 1..Len(log)
      /\ delivered - Len(queue) + 1 = delivered - (Len(queue) - 1)
      /\ \A n \in 1..(Len(queue) - 1) :
            delivered - Len(queue) + (n + 1) = delivered - (Len(queue) - 1) + n
    BY <1>1
<1>6. /\ queue[1].index = delivered - Len(queue) + 1
      /\ queue[1].entry = log[queue[1].index]
    BY <1>3, <1>4, Zenon
<1>7. \A n \in 1..(Len(queue) - 1) :
         /\ queue[n + 1].index = delivered - Len(queue) + (n + 1)
         /\ queue[n + 1].entry = log[queue[n + 1].index]
    BY <1>3, <1>4, Zenon
<1> QED
    BY <1>2, <1>5, <1>6, <1>7, Zenon

(* NotifyWaiters changes the pc of those who wait for the index, and nothing else. *)
LEMMA Notified ==
    ASSUME OneLife, KVInv, NEW i, NotifyWaiters(i)
    PROVE  /\ client' \in [Clients -> Request \cup {Idle}]
           /\ \A c \in Clients :
                 /\ Writer(c)' => /\ Writer(c) /\ client'[c].index = client[c].index
                                   /\ client'[c].name = client[c].name
                 /\ client'[c].pc = client[c].pc \/ client[c].index = i
<1>1. \A c \in Clients : client'[c] = Woken(i, c) /\ client[c] \in Request \cup {Idle}
    BY Zenon DEF NotifyWaiters, KVInv, Types
<1>2. client' = [c \in Clients |-> Woken(i, c)]
    BY Zenon DEF NotifyWaiters
<1>3. \A c \in Clients : Woken(i, c) \in Request \cup {Idle}
    BY <1>1 DEF Woken, Request, Idle
<1>4. client' \in [Clients -> Request \cup {Idle}]
    BY <1>2, <1>3, Zenon
<1>5. ASSUME NEW c \in Clients
      PROVE  /\ Writer(c)' => /\ Writer(c) /\ client'[c].index = client[c].index
                               /\ client'[c].name = client[c].name
             /\ client'[c].pc = client[c].pc \/ client[c].index = i
  <2>1. CASE client[c].pc = "waiting" /\ client[c].index = i
    <3>1. client[c] \in Request /\ client[c] # Idle /\ client'[c] = [client[c] EXCEPT !.pc = "woken"]
        BY <1>1, <2>1 DEF Woken, Idle
    <3> QED
        BY <3>1, <2>1, Zenon DEF Request, Writer
  <2>2. CASE ~(client[c].pc = "waiting" /\ client[c].index = i)
      BY <1>1, <2>2, Zenon DEF Woken, Writer
  <2> QED
      BY <2>1, <2>2, Zenon
<1> QED
    BY <1>4, <1>5, Zenon

LEMMA MalformedStep == ASSUME OneLife, KVInv, ApplyMalformed PROVE KVInv'
<1> DEFINE i == Head(queue).index
<1>1. /\ applying = None /\ queue # << >> /\ Head(queue).entry.op = "bad" /\ NotifyWaiters(i)
      /\ queue' = Tail(queue)
      /\ UNCHANGED <<log, commit, entries, delivered, index, applying, data, lastApplied, applied,
                     restarts>>
    BY Zenon DEF ApplyMalformed, raftVars, storeVars
<1>2. /\ queue' \in Seq(Job) /\ Len(queue') = Len(queue) - 1 /\ i = ApplyFront + 1
      /\ log[i].op = "bad"
      /\ \A n \in 1..Len(queue') : /\ queue'[n].index = delivered - Len(queue') + n
                                   /\ queue'[n].entry = log[queue'[n].index]
    BY <1>1, HeadOfQueue, Zenon
<1>3. /\ Len(queue) \in Nat /\ Len(queue) # 0 /\ Len(queue) <= delivered /\ delivered \in Nat
      /\ ApplyFront \in Nat /\ lastApplied \in Nat /\ lastApplied <= ApplyFront
    BY <1>1, ApplyFrontIsNat, SMTT(30) DEF KVInv, Types, InStep
<1>4. ApplyFront' = ApplyFront + 1
    BY <1>1, <1>2, <1>3, SMTT(30) DEF ApplyFront
<1>5. Types'
    BY <1>1, <1>2, <1>3, Notified, SMTT(30) DEF KVInv, Types
<1>6. InStep'
  <2>1. lastApplied' <= ApplyFront'
      BY <1>1, <1>3, <1>4, SMTT(30)
  <2>2. applying' = None /\ delivered' = delivered /\ log' = log
      BY <1>1, Zenon
  <2> QED
      BY <1>2, <2>1, <2>2, Zenon DEF InStep
<1>7. WritersServed'
  <2> SUFFICES ASSUME NEW c \in Clients, Writer(c)'
               PROVE  /\ client'[c].index \in 1..Len(log)
                      /\ log[client'[c].index].name = client'[c].name
                      /\ log[client'[c].index].op # "bad"
                      /\ client'[c].name \in applied \/ client'[c].index > ApplyFront'
                      /\ client'[c].pc \in {"woken", "answered"} => client'[c].name \in applied
      BY <1>1, Zenon DEF WritersServed
  <2>1. /\ Writer(c) /\ client'[c].index = client[c].index /\ client'[c].name = client[c].name
        /\ client'[c].pc = client[c].pc \/ client[c].index = i
      BY <1>1, Notified, Zenon
  <2>2. /\ client[c].index \in 1..Len(log) /\ log[client[c].index].op # "bad"
        /\ log[client[c].index].name = client[c].name
        /\ client[c].name \in applied \/ client[c].index > ApplyFront
        /\ client[c].pc \in {"woken", "answered"} => client[c].name \in applied
      BY <2>1, Zenon DEF KVInv, WritersServed
  <2>3. client[c].index # i
      BY <1>2, <2>2, Zenon
  <2>4. client[c].name \in applied \/ client[c].index > ApplyFront + 1
    <3>1. client[c].index \in Int /\ client[c].index # ApplyFront + 1
        BY <1>2, <2>2, <2>3, SMTT(30)
    <3> QED
        BY <1>3, <2>2, <3>1, SMTT(30)
  <2> QED
      BY <1>4, <2>1, <2>2, <2>3, <2>4, Zenon
<1> QED
    BY <1>5, <1>6, <1>7, Zenon DEF KVInv

LEMMA StoreStep == ASSUME OneLife, KVInv, ApplyStore PROVE KVInv'
<1> DEFINE i == Head(queue).index
           e == Head(queue).entry
<1>1. /\ applying = None /\ queue # << >> /\ e.op # "bad" /\ queue' = Tail(queue)
      /\ UNCHANGED <<log, commit, entries, delivered, data, lastApplied, applied, client, restarts>>
    BY Zenon DEF ApplyStore, raftVars
<1>2. /\ Head(queue) \in Job /\ queue' \in Seq(Job) /\ Len(queue') = Len(queue) - 1
      /\ i = delivered - Len(queue') /\ i \in 1..Len(log) /\ e = log[i]
      /\ \A n \in 1..Len(queue') : /\ queue'[n].index = delivered - Len(queue') + n
                                   /\ queue'[n].entry = log[queue'[n].index]
  <2>1. /\ Head(queue) \in Job /\ Tail(queue) \in Seq(Job) /\ Len(Tail(queue)) = Len(queue) - 1
        /\ i \in 1..Len(log) /\ i = delivered - (Len(queue) - 1) /\ e = log[i]
    BY <1>1, HeadOfQueue, Zenon
  <2>2. \A n \in 1..(Len(queue) - 1) :
          /\ Tail(queue)[n].index = delivered - (Len(queue) - 1) + n
          /\ Tail(queue)[n].entry = log[Tail(queue)[n].index]
    BY <1>1, HeadOfQueue, Zenon
  <2>3. Len(queue') = Len(queue) - 1 /\ queue' = Tail(queue)
    BY <1>1, <2>1, Zenon
  <2> HIDE DEF i, e
  <2>4. \A n \in 1..Len(queue') : /\ queue'[n].index = delivered - Len(queue') + n
                                  /\ queue'[n].entry = log[queue'[n].index]
    BY <2>2, <2>3, Zenon
  <2>5. i = delivered - Len(queue')
    BY <2>1, <2>3, Zenon
  <2> QED
    BY <2>1, <2>3, <2>4, <2>5, Zenon
<1>3. i \in Nat /\ e \in Entry /\ e.key \in Keys
    BY <1>2, Zenon DEF Job, Entry
<1>4. ~Full(index, e.key)
    BY <1>3, NeverFull, Zenon DEF KVInv
<1>5. /\ applying' = [index |-> i, entry |-> e, done |-> "store"]
      /\ index' = Stored(Store, i, e).index
  <2>1. PICK st \in {Stored(Store, i, e)} \cup Partly(Store, e) :
            /\ StoreBecomes(st)
            /\ applying' = IF st # Stored(Store, i, e) \/ (e.op = "set" /\ Full(index, e.key))
                           THEN None ELSE [index |-> i, entry |-> e, done |-> "store"]
      BY Zenon DEF ApplyStore
  <2>2. st = Stored(Store, i, e)
      BY Zenon DEF Partly, OneLife
  <2> QED
      BY <1>4, <2>1, <2>2, Zenon DEF StoreBecomes
<1>6. DOMAIN index' \subseteq Keys
  <2>1. \/ index' = index
        \/ index' = CASE e.op = "del" -> Without(index, e.key)
                       [] Full(index, e.key) -> index
                       [] OTHER -> Insert(index, e.key, tracker)
    <3>1. CASE e.op \in {"set", "del"}
      <4>1. index' = WriteData(Store, e).index
          BY <1>5, <3>1 DEF Stored, WriteKV, WriteData
      <4> QED
          BY <4>1, Zenon DEF WriteData, Store
    <3>2. CASE e.op \notin {"set", "del"}
        BY <1>5, <3>2, Zenon DEF Stored, Store
    <3> QED
        BY <3>1, <3>2, Zenon
  <2>2. DOMAIN index \subseteq Keys
      BY Zenon DEF KVInv, Types
  <2> QED
      BY <1>3, <1>4, <2>1, <2>2, Zenon DEF Without, Insert
<1>7. applying' \in Stage /\ applying' # None
    BY <1>3, <1>5, SMTT(30) DEF Stage, OneLife
<1>8. /\ Len(queue) \in Nat /\ Len(queue) # 0 /\ Len(queue) <= delivered /\ delivered \in Nat
      /\ ApplyFront \in Nat /\ lastApplied \in Nat /\ lastApplied <= ApplyFront
    BY <1>1, ApplyFrontIsNat, SMTT(30) DEF KVInv, Types, InStep
<1>9. ApplyFront' = ApplyFront
    BY <1>1, <1>2, <1>5, <1>7, <1>8, SMTT(30) DEF ApplyFront
<1>10. Types'
    BY <1>1, <1>2, <1>6, <1>7, <1>8, SMTT(30) DEF KVInv, Types
<1>11. InStep'
  <2>1. lastApplied' <= ApplyFront' /\ delivered' = delivered /\ log' = log
      BY <1>1, <1>8, <1>9, Zenon
  <2>2. /\ applying'.index = i /\ applying'.entry = e /\ applying'.done = "store" /\ i > 0
      BY <1>2, <1>5, SMTT(30)
  <2> HIDE DEF i, e
  <2> QED
      BY <1>1, <1>2, <2>1, <2>2, Zenon DEF InStep
<1>12. WritersServed'
    BY <1>1, <1>9, Zenon DEF KVInv, WritersServed, Writer
<1> QED
    BY <1>10, <1>11, <1>12, Zenon DEF KVInv

LEMMA CacheStep == ASSUME OneLife, KVInv, ApplyCache PROVE KVInv'
<1> DEFINE e == applying.entry
<1>1. /\ applying # None /\ applying.done = "store" /\ data' = Enact(data, e)
      /\ applied' = applied \cup {e.name} /\ applying' = [applying EXCEPT !.done = "cache"]
      /\ UNCHANGED <<log, commit, entries, delivered, index, queue, lastApplied, client, restarts>>
    BY Zenon DEF ApplyCache, raftVars, storeVars
<1>2. applying \in Stage /\ e \in Entry /\ e.key \in Keys /\ e.name \in Nat
    BY <1>1, Zenon DEF KVInv, Types, Stage, Entry
<1>3. /\ applying' \in Stage /\ applying' # None /\ applying'.done = "cache"
      /\ applying'.index = applying.index /\ applying'.entry = e
    BY <1>1, <1>2, Zenon DEF Stage, OneLife
<1>4. data' \in [Keys -> Nat]
    BY <1>1, <1>2, Zenon DEF KVInv, Types, Enact
<1>5. Types'
    BY <1>1, <1>3, <1>4, Zenon DEF KVInv, Types
<1>6. /\ applying.index = delivered - Len(queue) /\ applying.index > 0 /\ e = log[applying.index]
      /\ e.op # "bad" /\ lastApplied <= ApplyFront /\ lastApplied \in Nat
      /\ Len(queue) \in Nat /\ delivered \in Nat
      /\ \A n \in 1..Len(queue) : /\ queue[n].index = delivered - Len(queue) + n
                                  /\ queue[n].entry = log[queue[n].index]
    BY <1>1, SMTT(30) DEF KVInv, Types, InStep
<1>7. ApplyFront = applying.index - 1 /\ ApplyFront' = applying.index /\ applying.index \in Nat /\ ApplyFront \in Nat
  <2>1. ApplyFront = delivered - Len(queue) - 1
      BY <1>1, Zenon DEF ApplyFront
  <2>2. ApplyFront' = delivered - Len(queue) - 0
      BY <1>1, <1>3, Zenon DEF ApplyFront
  <2> QED
      BY <1>6, <2>1, <2>2, SMTT(30)
<1> HIDE DEF e
<1>8. InStep'
  <2>1. lastApplied' <= ApplyFront'
      BY <1>1, <1>6, <1>7, SMTT(30)
  <2> QED
      BY <1>1, <1>3, <1>6, <2>1, SMTT(30) DEF InStep
<1>9. WritersServed'
  <2> SUFFICES ASSUME NEW c \in Clients, Writer(c)
               PROVE  /\ client[c].index \in 1..Len(log)
                      /\ log[client[c].index].name = client[c].name
                      /\ log[client[c].index].op # "bad"
                      /\ client[c].name \in applied' \/ client[c].index > ApplyFront'
                      /\ client[c].pc \in {"woken", "answered"} => client[c].name \in applied'
      BY <1>1, Zenon DEF WritersServed, Writer
  <2>1. /\ client[c].index \in 1..Len(log) /\ log[client[c].index].op # "bad"
        /\ log[client[c].index].name = client[c].name
        /\ client[c].name \in applied \/ client[c].index > ApplyFront
        /\ client[c].pc \in {"woken", "answered"} => client[c].name \in applied
      BY Zenon DEF KVInv, WritersServed
  <2>2. client[c].index = applying.index => client[c].name \in applied'
      BY <1>1, <1>6, <2>1, Zenon
  <2>3. client[c].index > ApplyFront /\ client[c].index # applying.index => client[c].index > ApplyFront'
      BY <1>7, <2>1, SMTT(30)
  <2> QED
      BY <1>1, <2>1, <2>2, <2>3, Zenon
<1> QED
    BY <1>5, <1>8, <1>9, Zenon DEF KVInv

LEMMA AdvanceStep == ASSUME OneLife, KVInv, ApplyAdvance PROVE KVInv'
<1> USE DEF KVInv
<1>1. /\ applying # None /\ applying.done = "cache" /\ lastApplied' = applying.index
      /\ applying' = [applying EXCEPT !.done = "advance"]
      /\ UNCHANGED <<log, commit, entries, delivered, index, queue, data, applied, client, restarts>>
    BY Zenon DEF ApplyAdvance, raftVars, storeVars
<1>2. applying \in Stage /\ applying.index \in Nat
    BY <1>1, Zenon DEF Types, Stage
<1>3. /\ applying' \in Stage /\ applying' # None /\ applying'.done = "advance"
      /\ applying'.index = applying.index /\ applying'.entry = applying.entry
    BY <1>1, <1>2, Zenon DEF Stage, OneLife
<1>4. Types'
    BY <1>1, <1>2, <1>3, Zenon DEF Types
<1>5. /\ applying.index = delivered - Len(queue) /\ applying.index > 0
      /\ applying.entry = log[applying.index] /\ applying.entry.op # "bad"
      /\ applying.entry.name \in applied
      /\ \A n \in 1..Len(queue) : /\ queue[n].index = delivered - Len(queue) + n
                                  /\ queue[n].entry = log[queue[n].index]
    BY <1>1, Zenon DEF InStep
<1>6. ApplyFront' = ApplyFront /\ ApplyFront = applying.index
  <2>1. ApplyFront = delivered - Len(queue) - 0 /\ ApplyFront' = delivered - Len(queue) - 0
      BY <1>1, <1>3, Zenon DEF ApplyFront
  <2> QED
      BY <1>2, <1>5, <2>1, SMTT(30)
<1>7. InStep'
    BY <1>1, <1>2, <1>3, <1>5, <1>6, SMTT(30) DEF InStep
<1>8. WritersServed'
    BY <1>1, <1>6, Zenon DEF WritersServed, Writer
<1> QED
    BY <1>4, <1>7, <1>8, Zenon

LEMMA NotifyStep == ASSUME OneLife, KVInv, ApplyNotify PROVE KVInv'
<1> DEFINE i == applying.index
<1>1. /\ applying # None /\ applying.done = "advance" /\ NotifyWaiters(i) /\ applying' = None
      /\ UNCHANGED <<log, commit, entries, delivered, index, queue, data, lastApplied, applied,
                     restarts>>
    BY Zenon DEF ApplyNotify, raftVars, storeVars
<1>2. Types'
    BY <1>1, Notified, Zenon DEF KVInv, Types
<1>3. ApplyFront' = ApplyFront
    BY <1>1, Zenon DEF ApplyFront
<1>4. InStep'
    BY <1>1, <1>3, Zenon DEF KVInv, InStep
<1>5. log[i].name \in applied
    BY <1>1, Zenon DEF KVInv, InStep
<1>6. WritersServed'
  <2> SUFFICES ASSUME NEW c \in Clients, Writer(c)'
               PROVE  /\ client'[c].index \in 1..Len(log)
                      /\ log[client'[c].index].name = client'[c].name
                      /\ log[client'[c].index].op # "bad"
                      /\ client'[c].name \in applied \/ client'[c].index > ApplyFront
                      /\ client'[c].pc \in {"woken", "answered"} => client'[c].name \in applied
      BY <1>1, <1>3, Zenon DEF WritersServed
  <2>1. /\ Writer(c) /\ client'[c].index = client[c].index /\ client'[c].name = client[c].name
        /\ client'[c].pc = client[c].pc \/ client[c].index = i
      BY <1>1, Notified, Zenon
  <2> QED
      BY <1>5, <2>1, Zenon DEF KVInv, WritersServed
<1> QED
    BY <1>2, <1>4, <1>6, Zenon DEF KVInv

(* Commit, the store's sync and a snapshot touch nothing the invariant is about. *)
LEMMA OtherStep ==
    ASSUME OneLife, KVInv,
           (\E n \in 1..MaxEntries : AdvanceCommit(n)) \/ SyncTicker \/ TakeSnapshot \/ UNCHANGED vars
    PROVE  KVInv'
<1> USE DEF KVInv
<1>1. /\ UNCHANGED <<log, entries, delivered, index, queue, applying, data, lastApplied, applied,
                     client, restarts>>
      /\ commit' = commit \/ (commit' \in Nat /\ commit' > commit /\ commit' <= Len(log))
    BY DEF AdvanceCommit, SyncTicker, TakeSnapshot, vars, raftVars, storeVars, smVars
<1>2. Types'
    BY <1>1 DEF Types
<1>3. ApplyFront' = ApplyFront
    BY <1>1, Zenon DEF ApplyFront
<1>4. InStep'
    BY <1>1, <1>3, Zenon DEF InStep
<1>5. WritersServed'
    BY <1>1, <1>3, Zenon DEF WritersServed, Writer
<1> QED
    BY <1>2, <1>4, <1>5, Zenon

LEMMA NextInv == ASSUME OneLife, KVInv, [Next]_vars PROVE KVInv'
<1>1. ~Restart
    BY DEF Restart, OneLife, KVInv, Types
<1> QED
    BY <1>1, ProposeStep, AppendStep, CollectStep, MalformedStep, StoreStep, CacheStep, AdvanceStep,
       NotifyStep, OtherStep, HandlerStep, Zenon DEF Next

(***************************************************************************)
(* What a 204 promises: however handlers and the apply loop interleave, a  *)
(* write is answered only after apply() has put its very command into the  *)
(* map, although WaitForIndex looks at lastApplied without a lock and only *)
(* compares indexes.  It rests on the apply loop delivering every index    *)
(* once and in order, on entries that keep their index, on a store that    *)
(* takes every write, and holds for one life of the process.               *)
(***************************************************************************)
THEOREM AcknowledgedIsApplied == ASSUME OneLife PROVE Spec => []AckedApplied
<1>1. Init => KVInv
    BY InitInv, Zenon
<1>2. KVInv /\ [Next]_vars => KVInv'
    BY NextInv, Zenon
<1>3. KVInv => AckedApplied
    BY DEF KVInv, WritersServed, Writer, AckedApplied, Idle
<1> QED
    BY <1>1, <1>2, <1>3, PTL DEF Spec
=============================================================================
