-------------------------- MODULE IngestionProofs ---------------------------
(***************************************************************************)
(* Ingestion for any number of calls, workers, requests and starts: the    *)
(* pool mixes up no requests and the queue is closed in time.              *)
(***************************************************************************)
EXTENDS Ingestion, SequenceTheorems, TLAPS

Parameters == MaxEvents \in Nat /\ None \notin Int

Types ==
    /\ phase \in {"recovering", "serving", "down"}
    /\ replayed \in Nat
    /\ pool \subseteq Events
    /\ content \in [Events -> Requests \cup {None}]
    /\ call \in [Clients -> {Idle} \cup [pc : {"write", "submit", "refused"}, event : Events]]
    /\ worker \in [Workers -> [pc : {"receive", "exited"}, event : {None}]
                              \cup [pc : {"process", "release"}, event : Events]]
    /\ jobCh \in Seq(Events)
    /\ wal \in Seq(Requests)
    /\ nextEvent \in Nat \ {0}
    /\ processed \in Seq(Requests)

(* The queue is closed only when no call is under way, and none begins then. *)
ClosedQuietly ==
    /\ step \in ToSet(Steps)
    /\ jobChClosed => /\ step \in {"queueClosed", "finished"}
                      /\ \A c \in Clients : call[c] = Idle
    /\ ~panicked

(* An Event is in one place at a time. *)
Owned ==
    /\ \A c, d \in Clients :
          call[c] # Idle /\ call[d] # Idle /\ call[c].event = call[d].event => c = d
    /\ \A v, w \in Workers :
          worker[v].event # None /\ worker[v].event = worker[w].event => v = w
    /\ \A i, j \in 1..Len(jobCh) : jobCh[i] = jobCh[j] => i = j
    /\ \A c \in Clients, w \in Workers : call[c] # Idle => call[c].event # worker[w].event
    /\ \A c \in Clients, i \in 1..Len(jobCh) : call[c].event # jobCh[i]
    /\ \A w \in Workers, i \in 1..Len(jobCh) : worker[w].event # jobCh[i]
    /\ \A c \in Clients : call[c].event \notin pool
    /\ \A w \in Workers : worker[w].event \notin pool
    /\ \A i \in 1..Len(jobCh) : jobCh[i] \notin pool

(* The Events whose request is still to be handled. *)
InCalling == {call[c].event : c \in {d \in Clients : call[d] # Idle}}
InQueue == {jobCh[i] : i \in 1..Len(jobCh)}
InProcess == {worker[w].event : w \in {v \in Workers : worker[v].pc = "process"}}
Pending == InCalling \cup InQueue \cup InProcess

(* The records of the WAL that were written or replayed by this process or, *)
(* once it serves, by its predecessors.                                     *)
Passed == IF phase = "recovering" THEN replayed ELSE Len(wal)
Logged == {wal[i] : i \in 1..Passed}

(***************************************************************************)
(* Events yet to be handled hold different requests, none of them handled, *)
(* and all but the ones about to be written are in the WAL.                *)
(***************************************************************************)
Contents ==
    /\ \A e \in Pending : /\ content[e] \in Requests /\ content[e] < nextEvent
                          /\ \A i \in 1..Len(processed) : processed[i] # content[e]
    /\ \A e, f \in Pending : content[e] = content[f] => e = f
    /\ \A c \in Clients : call[c].pc = "write" =>
          \A i \in 1..Len(wal) : wal[i] # content[call[c].event]
    /\ \A e \in Pending :
          (\A c \in Clients : call[c].pc = "write" => call[c].event # e) => content[e] \in Logged
    /\ \A i \in 1..Len(processed) : processed[i] \in Logged
    /\ \A i, j \in 1..Len(processed) : processed[i] = processed[j] => i = j
    /\ \A i, j \in 1..Len(wal) : wal[i] = wal[j] => i = j
    /\ \A i \in 1..Len(wal) : wal[i] < nextEvent
    /\ phase = "recovering" => replayed <= Len(wal) /\ \A c \in Clients : call[c] = Idle

IngestInv == Types /\ ClosedQuietly /\ Owned /\ Contents

-----------------------------------------------------------------------------
LEMMA StepsListed ==
    ToSet(Steps) = {"running", "httpStopped", "walClosed", "grpcStopping", "queueClosed", "finished"}
BY DEF ToSet, Steps

LEMMA LateReachesStopping ==
    step \in {"queueClosed", "finished"} => Reached("grpcStopping")
BY DEF Reached, Steps

LEMMA InitInv == ASSUME Parameters PROVE Init => IngestInv
<1> SUFFICES ASSUME Init PROVE IngestInv
    BY Zenon
<1> USE DEF Init, Idle, Waiting, Parameters
<1>1. Types
    BY DEF Types
<1>2. ClosedQuietly
    BY StepsListed, Zenon DEF ClosedQuietly
<1>3. Owned
    BY DEF Owned
<1>4. Contents
    BY DEF Contents, Pending, InCalling, InQueue, InProcess, Passed, Logged
<1> QED
    BY <1>1, <1>2, <1>3, <1>4, Zenon DEF IngestInv

LEMMA NoneIsNoEvent == ASSUME Parameters PROVE None \notin Events
BY DEF Parameters, Events

(* An Event Get or the replay hands out is in no call, queue or worker. *)
LEMMA AcquiredIsFree ==
    ASSUME Parameters, Types, Owned, NEW e \in Acquirable
    PROVE  /\ e \in Events
           /\ \A c \in Clients : call[c].event # e
           /\ \A w \in Workers : worker[w].event # e
           /\ \A i \in 1..Len(jobCh) : jobCh[i] # e
<1>1. e \in Events /\ e # None
    BY NoneIsNoEvent, Zenon DEF Acquirable, Allocated, Types
<1>2. CASE e \in pool
    BY <1>1, <1>2 DEF Owned
<1>3. CASE e \in Allocated
  <2>1. e \notin InCalls /\ e \notin InWorkers /\ e \notin ToSet(jobCh)
      BY <1>3, Zenon DEF Allocated, Held
  <2>2. \A i \in 1..Len(jobCh) : jobCh[i] # e
      BY <2>1 DEF ToSet, Types
  <2> QED
      BY <1>1, <2>1, <2>2, Zenon DEF InCalls, InWorkers
<1> QED
    BY <1>2, <1>3, Zenon DEF Acquirable

LEMMA RequestsAreNumbers ==
    ASSUME Types
    PROVE  /\ Requests \subseteq Nat
           /\ \A i \in 1..Len(wal) : wal[i] \in Nat
           /\ \A i \in 1..Len(processed) : processed[i] \in Nat
<1>1. Requests \subseteq Nat
    BY DEF Requests
<1>2. /\ \A i \in 1..Len(wal) : wal[i] \in Requests
      /\ \A i \in 1..Len(processed) : processed[i] \in Requests
    BY DEF Types
<1> QED
    BY <1>1, <1>2, Zenon

LEMMA PendingAreEvents == ASSUME Types PROVE Pending \subseteq Events
<1>1. InCalling \subseteq Events
    BY DEF Types, InCalling, Idle
<1>2. InQueue \subseteq Events
    BY DEF Types, InQueue
<1>3. InProcess \subseteq Events
    BY Zenon DEF Types, InProcess
<1> QED
    BY <1>1, <1>2, <1>3, Zenon DEF Pending

(* What a step that touches no Event, call, worker or queue leaves intact. *)
LEMMA Untouched ==
    ASSUME Parameters, IngestInv, UNCHANGED <<call, jobCh, worker, content, wal, nextEvent, processed>>,
           pool' \subseteq pool, replayed' = replayed,
           phase' \in {"recovering", "serving", "down"},
           phase' = "recovering" => phase = "recovering",
           phase # "recovering" \/ phase' = "recovering" \/ replayed <= Len(wal)
    PROVE  Types' /\ Owned' /\ Contents'
<1>1. Types'
    BY Zenon DEF IngestInv, Types
<1>2. Owned'
    BY Zenon DEF IngestInv, Owned
<1>3. Pending' = Pending
    BY Zenon DEF Pending, InCalling, InQueue, InProcess
<1>4. Logged \subseteq Logged'
    BY DEF Logged, Passed, IngestInv, Types
<1>5. Contents'
    BY <1>3, <1>4, Zenon DEF IngestInv, Contents
<1> QED
    BY <1>1, <1>2, <1>5, Zenon

LEMMA BeginStep ==
    ASSUME Parameters, IngestInv, NEW c \in Clients, IngestBegin(c)
    PROVE  IngestInv'
<1> USE DEF IngestInv
<1>1. PICK e \in Acquirable : /\ pool' = pool \ {e}
                              /\ content' = [content EXCEPT ![e] = nextEvent]
                              /\ call' = [call EXCEPT ![c] = [pc |-> "write", event |-> e]]
    BY Zenon DEF IngestBegin
<1>2. /\ phase = "serving" /\ phase' = phase /\ ~Reached("grpcStopping") /\ call[c] = Idle
      /\ nextEvent \in Requests /\ nextEvent' = nextEvent + 1
      /\ UNCHANGED <<replayed, jobCh, jobChClosed, step, worker, wal, processed, panicked>>
    BY DEF IngestBegin, process, history, Types, Requests, Parameters
<1>3. /\ e \in Events
      /\ \A d \in Clients : call[d].event # e
      /\ \A w \in Workers : worker[w].event # e
      /\ \A i \in 1..Len(jobCh) : jobCh[i] # e
    BY AcquiredIsFree, Zenon
<1>4. Types'
  <2>1. nextEvent' \in Nat \ {0}
      BY <1>2 DEF Types
  <2>2. content' \in [Events -> Requests \cup {None}]
      BY <1>1, <1>2, <1>3, Zenon DEF Types
  <2>3. [pc |-> "write", event |-> e] \in [pc : {"write", "submit", "refused"}, event : Events]
      BY <1>3, Zenon
  <2>4. call' \in [Clients -> {Idle} \cup [pc : {"write", "submit", "refused"}, event : Events]]
      BY <1>1, <2>3, Zenon DEF Types
  <2> QED
      BY <1>1, <1>2, <2>1, <2>2, <2>4, Zenon DEF Types
<1>5. ClosedQuietly'
    BY <1>2, LateReachesStopping, Zenon DEF ClosedQuietly
<1>6. Owned'
    BY <1>1, <1>2, <1>3 DEF Types, Owned, Idle
<1>7. Pending' = Pending \cup {e} /\ e \notin Pending /\ Pending \subseteq Events
  <2>1. e \notin Pending /\ Pending \subseteq Events
      BY <1>3, PendingAreEvents, Zenon DEF Pending, InCalling, InQueue, InProcess
  <2>2. InCalling' = InCalling \cup {e}
      BY <1>1, <1>2, Zenon DEF Types, InCalling, Idle
  <2>3. InQueue' = InQueue /\ InProcess' = InProcess
      BY <1>2, Zenon DEF InQueue, InProcess
  <2> QED
      BY <2>1, <2>2, <2>3, Zenon DEF Pending
<1>8. Logged' = Logged
    BY <1>2, Zenon DEF Logged, Passed
<1>9. \A f \in Pending : content'[f] = content[f] /\ content'[e] = nextEvent
    BY <1>1, <1>3, <1>7, Zenon DEF Types
<1>10. Contents'
  <2>1. \A f \in Pending' : /\ content'[f] \in Requests /\ content'[f] < nextEvent'
                            /\ \A i \in 1..Len(processed) : processed[i] # content'[f]
    <3>1. \A i \in 1..Len(processed) : processed[i] < nextEvent
        BY <1>2 DEF Contents, Logged, Passed, Types
    <3>2. content'[e] = nextEvent /\ nextEvent \in Nat
        BY <1>1, <1>3, Zenon DEF Types
    <3>3. \A f \in Pending : content[f] \in Nat
        BY DEF Contents, Requests
    <3>4. \A i \in 1..Len(processed) : processed[i] \in Nat
        BY RequestsAreNumbers, Zenon
    <3> QED
        BY <3>1, <3>2, <3>3, <3>4, <1>2, <1>7, <1>9, SMTT(30) DEF Contents
  <2>2. \A f, g \in Pending' : content'[f] = content'[g] => f = g
      BY <1>2, <1>7, <1>9 DEF Contents, Types
  <2>3. \A d \in Clients : call'[d].pc = "write" =>
            \A i \in 1..Len(wal) : wal[i] # content'[call'[d].event]
    <3> SUFFICES ASSUME NEW d \in Clients, call'[d].pc = "write", NEW i \in 1..Len(wal)
                 PROVE  wal[i] # content'[call'[d].event]
        BY Zenon
    <3>1. CASE d = c
        BY <3>1, <1>1, <1>2, <1>3, SMTT(30) DEF Contents, Types
    <3>2. CASE d # c
      <4>1. call'[d] = call[d] /\ call[d] # Idle /\ call[d].event \in Pending
          BY <3>2, <1>1 DEF Types, Pending, InCalling, Idle
      <4> QED
          BY <4>1, <1>9 DEF Contents
    <3> QED
        BY <3>1, <3>2, Zenon
  <2>4. \A f \in Pending' : (\A d \in Clients : call'[d].pc = "write" => call'[d].event # f)
                              => content'[f] \in Logged'
    <3> SUFFICES ASSUME NEW f \in Pending',
                        \A d \in Clients : call'[d].pc = "write" => call'[d].event # f
                 PROVE  content'[f] \in Logged'
        BY Zenon
    <3>1. f # e /\ f \in Pending
        BY <1>1, <1>7, Zenon DEF Types
    <3>2. \A d \in Clients : call[d].pc = "write" => call[d].event # f
        BY <1>1, <1>2 DEF Types, Idle
    <3> QED
        BY <3>1, <3>2, <1>8, <1>9, Zenon DEF Contents
  <2>5. \A i \in 1..Len(wal) : wal[i] < nextEvent'
      BY <1>2, RequestsAreNumbers DEF Contents, Types
  <2> QED
      BY <2>1, <2>2, <2>3, <2>4, <2>5, <1>2, <1>8, Zenon DEF Contents
<1> QED
    BY <1>4, <1>5, <1>6, <1>10, Zenon

(* A refused call: its Event goes back to the pool, the others are as they were. *)
LEMMA GiveBack ==
    ASSUME Parameters, IngestInv, NEW c \in Clients, call[c].pc \in {"write", "submit", "refused"},
           Release(call[c].event), call' = [call EXCEPT ![c] = Idle],
           phase # "recovering", phase' \in {"serving", "down"},
           UNCHANGED <<replayed, jobCh, worker, wal, nextEvent, processed>>
    PROVE  Types' /\ Owned' /\ Contents'
<1> USE DEF IngestInv
<1> DEFINE e == call[c].event
<1>1. call[c] # Idle /\ e \in Events
    BY DEF Types, Idle
<1>2. pool' = pool \cup {e} /\ content' = [content EXCEPT ![e] = None]
    BY Zenon DEF Release
<1>3. Types'
    BY <1>1, <1>2, Zenon DEF Types
<1>4. Owned'
    BY <1>1, <1>2, NoneIsNoEvent DEF Types, Owned, Idle
<1>5. Pending' \subseteq Pending \ {e}
  <2>1. InCalling' \subseteq InCalling \ {e}
      BY <1>1 DEF Types, Owned, InCalling
  <2>2. InQueue' = InQueue /\ e \notin InQueue
      BY DEF Owned, InQueue
  <2>3. InProcess' = InProcess /\ e \notin InProcess
      BY <1>1 DEF Owned, InProcess
  <2> QED
      BY <2>1, <2>2, <2>3, Zenon DEF Pending
<1>6. \A f \in Pending' : content'[f] = content[f]
    BY <1>2, <1>5, PendingAreEvents, Zenon DEF Types
<1>7. Logged' = Logged
    BY Zenon DEF Logged, Passed
<1>8. Contents'
  <2>1. \A d \in Clients : call'[d].pc = "write" =>
            d # c /\ call'[d] = call[d] /\ content'[call'[d].event] = content[call[d].event]
      BY <1>1, <1>2, SMTT(30) DEF Types, Owned, Idle
  <2>2. \A f \in Pending' : (\A d \in Clients : call'[d].pc = "write" => call'[d].event # f)
                              => (\A d \in Clients : call[d].pc = "write" => call[d].event # f)
      BY <1>5, Zenon DEF Types
  <2> QED
      BY <2>1, <2>2, <1>5, <1>6, <1>7, SMTT(30) DEF Contents
<1> QED
    BY <1>3, <1>4, <1>8, Zenon

LEMMA WriteStep ==
    ASSUME Parameters, IngestInv, NEW c \in Clients, IngestWrite(c)
    PROVE  IngestInv'
<1> USE DEF IngestInv
<1> DEFINE e == call[c].event
<1>1. /\ phase = "serving" /\ phase' = phase /\ call[c].pc = "write" /\ call[c] # Idle
      /\ UNCHANGED <<replayed, jobCh, jobChClosed, step, worker, nextEvent, processed, panicked>>
    BY DEF IngestWrite, process, Idle
<1>2. ClosedQuietly'
    BY <1>1, Zenon DEF ClosedQuietly
<1>3. CASE /\ Release(e) /\ call' = [call EXCEPT ![c] = Idle] /\ wal' = wal
    BY <1>1, <1>2, <1>3, GiveBack, Zenon
<1>4. ASSUME NEW next \in {"submit", "refused"},
             wal' = Append(wal, content[e]), call' = [call EXCEPT ![c].pc = next], UNCHANGED events
      PROVE  IngestInv'
  <2>1. e \in Events /\ e \in Pending /\ pool' = pool /\ content' = content
      BY <1>1, <1>4, Zenon DEF Types, Pending, InCalling, events
  <2>2. /\ content[e] \in Requests /\ wal' \in Seq(Requests) /\ Len(wal') = Len(wal) + 1
        /\ wal'[Len(wal) + 1] = content[e] /\ \A i \in 1..Len(wal) : wal'[i] = wal[i]
      BY <1>4, <2>1, SMTT(30) DEF Contents, Types
  <2> DEFINE n == Len(wal)
  <2>3. /\ n \in Nat
        /\ 1..n \subseteq 1..Len(wal') /\ n + 1 \in 1..Len(wal')
        /\ \A i \in 1..Len(wal') : \/ i \in 1..n /\ wal'[i] = wal[i]
                                   \/ i = n + 1 /\ wal'[i] = content[e]
    <3>1. n \in Nat
        BY DEF Types
    <3> QED
        BY <3>1, <2>2
  <2>4. Types'
      BY <1>1, <1>4, <2>1, <2>2, SMTT(30) DEF Types
  <2>5. \A d \in Clients : call'[d].event = call[d].event /\ (call'[d] # Idle <=> call[d] # Idle)
      BY <1>1, <1>4, Zenon DEF Types, Idle
  <2>6. Owned'
      BY <1>1, <2>1, <2>5 DEF Owned
  <2>7. Pending' = Pending
    <3>1. InCalling' = InCalling
        BY <2>5, Zenon DEF InCalling
    <3>2. InQueue' = InQueue /\ InProcess' = InProcess
        BY <1>1, Zenon DEF InQueue, InProcess
    <3> QED
        BY <3>1, <3>2, Zenon DEF Pending
  <2>8. Logged \subseteq Logged' /\ content[e] \in Logged'
    <3>1. Logged = {wal[i] : i \in 1..n} /\ Logged' = {wal'[i] : i \in 1..Len(wal')}
        BY <1>1, Zenon DEF Logged, Passed
    <3> HIDE DEF n
    <3> QED
        BY <3>1, <2>2, <2>3, SMTT(30)
  <2>9. Contents'
    <3>1. \A d \in Clients : call'[d].pc = "write" =>
              /\ call'[d] = call[d] /\ call[d].event \in Pending /\ call[d].event # e
        BY <1>1, <1>4, SMTT(30) DEF Types, Owned, Pending, InCalling, Idle
    <3>2. \A d \in Clients : call'[d].pc = "write" =>
              \A i \in 1..Len(wal') : wal'[i] # content[call[d].event]
        BY <3>1, <2>1, <2>3, SMTT(30) DEF Contents
    <3>3. \A f \in Pending : (\A d \in Clients : call'[d].pc = "write" => call'[d].event # f)
                              => content[f] \in Logged'
      <4> SUFFICES ASSUME NEW f \in Pending, f # e,
                          \A d \in Clients : call'[d].pc = "write" => call'[d].event # f
                   PROVE  content[f] \in Logged'
          BY <2>8, Zenon
      <4>1. \A d \in Clients : call[d].pc = "write" => call[d].event # f
          BY <1>4, Zenon DEF Types
      <4> QED
          BY <4>1, <2>8, Zenon DEF Contents
    <3>4. \A i, j \in 1..Len(wal') : wal'[i] = wal'[j] => i = j
      <4>1. \A i \in 1..Len(wal) : wal[i] # content[e]
          BY <1>1, Zenon DEF Contents
      <4> QED
          BY <4>1, <2>3, Zenon DEF Contents
    <3>5. \A i \in 1..Len(wal') : wal'[i] < nextEvent
        BY <2>1, <2>3, Zenon DEF Contents
    <3>6. \A i \in 1..Len(processed) : processed[i] \in Logged'
        BY <2>8, Zenon DEF Contents
    <3> QED
        BY <3>1, <3>2, <3>3, <3>4, <3>5, <3>6, <2>1, <2>7, <1>1, SMTT(30) DEF Contents
  <2> QED
      BY <2>4, <1>2, <2>6, <2>9, Zenon
<1> QED
    BY <1>3, <1>4, Zenon DEF IngestWrite

LEMMA RefusedStep ==
    ASSUME Parameters, IngestInv, NEW c \in Clients, IngestRefused(c)
    PROVE  IngestInv'
<1> USE DEF IngestInv
<1>1. /\ phase = "serving" /\ phase' = phase /\ call[c].pc = "refused" /\ call[c] # Idle
      /\ UNCHANGED <<replayed, jobCh, jobChClosed, step, worker, wal, nextEvent, processed, panicked>>
      /\ Release(call[c].event) /\ call' = [call EXCEPT ![c] = Idle]
    BY DEF IngestRefused, process, history, Idle
<1>2. ClosedQuietly'
    BY <1>1, Zenon DEF ClosedQuietly
<1> QED
    BY <1>1, <1>2, GiveBack, Zenon

LEMMA SubmitStep ==
    ASSUME Parameters, IngestInv, NEW c \in Clients, IngestSubmit(c)
    PROVE  IngestInv'
<1> USE DEF IngestInv
<1> DEFINE e == call[c].event
<1>1. /\ phase = "serving" /\ call[c].pc = "submit" /\ call[c] # Idle
      /\ call' = [call EXCEPT ![c] = Idle]
      /\ UNCHANGED <<replayed, jobChClosed, step, worker, wal, nextEvent, processed>>
    BY DEF IngestSubmit, Idle
<1>2. ~jobChClosed /\ phase' = "serving" /\ ~panicked'
    BY <1>1, Zenon DEF IngestSubmit, ClosedQuietly
<1>3. ClosedQuietly'
    BY <1>1, <1>2, Zenon DEF ClosedQuietly
<1>4. CASE Release(e) /\ jobCh' = jobCh
    BY <1>1, <1>2, <1>3, <1>4, GiveBack, Zenon
<1>5. CASE jobCh' = Append(jobCh, e) /\ UNCHANGED events
  <2>1. e \in Events /\ pool' = pool /\ content' = content
      BY <1>1, <1>5, Zenon DEF Types, events
  <2> DEFINE n == Len(jobCh)
  <2>2. /\ jobCh' \in Seq(Events) /\ n \in Nat
        /\ 1..n \subseteq 1..Len(jobCh') /\ n + 1 \in 1..Len(jobCh')
        /\ \A i \in 1..n : jobCh'[i] = jobCh[i]
        /\ jobCh'[n + 1] = e
        /\ \A i \in 1..Len(jobCh') : \/ i \in 1..n /\ jobCh'[i] = jobCh[i]
                                     \/ i = n + 1 /\ jobCh'[i] = e
    <3>1. jobCh \in Seq(Events) /\ n \in Nat
        BY DEF Types
    <3>2. /\ jobCh' \in Seq(Events) /\ Len(jobCh') = n + 1 /\ jobCh'[n + 1] = e
          /\ \A i \in 1..n : jobCh'[i] = jobCh[i]
        BY <3>1, <1>5, <2>1, SMTT(30)
    <3> HIDE DEF n
    <3> QED
        BY <3>1, <3>2
  <2> HIDE DEF n
  <2>3. Types'
      BY <1>1, <1>2, <2>1, <2>2, Zenon DEF Types
  <2>4. call'[c] = Idle /\ \A d \in Clients \ {c} : call'[d] = call[d]
      BY <1>1, Zenon DEF Types
  <2>5. Owned'
    <3>1. \A i, j \in 1..Len(jobCh') : jobCh'[i] = jobCh'[j] => i = j
        BY <2>2 DEF Owned, n
    <3>2. \A d \in Clients, i \in 1..Len(jobCh') : call'[d].event # jobCh'[i]
      <4>1. \A i \in 1..Len(jobCh') : jobCh'[i] # None
          BY <2>2, <2>3, NoneIsNoEvent, SMTT(30) DEF Types
      <4>2. \A d \in Clients : d # c => call[d].event # e
          BY <1>1, <2>1, NoneIsNoEvent, SMTT(30) DEF Owned, Types, Idle
      <4> QED
          BY <2>2, <2>4, <4>1, <4>2, SMTT(30) DEF Owned, Idle, n
    <3>3. \A w \in Workers, i \in 1..Len(jobCh') : worker[w].event # jobCh'[i]
        BY <1>1, <2>2, SMTT(30) DEF Owned, n
    <3>4. \A i \in 1..Len(jobCh') : jobCh'[i] \notin pool
        BY <1>1, <2>2, Zenon DEF Owned, n
    <3>5. \A d \in Clients : call'[d].event \notin pool
      <4>1. Idle.event \notin pool
          BY NoneIsNoEvent, Zenon DEF Types, Idle
      <4> QED
          BY <2>4, <4>1, Zenon DEF Owned
    <3> QED
        BY <3>1, <3>2, <3>3, <3>4, <3>5, <1>1, <2>1, <2>4, SMTT(30) DEF Owned
  <2>6. Pending' \subseteq Pending
    <3>1. InCalling' \subseteq InCalling /\ e \in InCalling
        BY <1>1, <2>4, SMTT(30) DEF InCalling
    <3>2. InQueue' \subseteq InQueue \cup {e}
        BY <2>2, Zenon DEF InQueue, n
    <3>3. InProcess' = InProcess
        BY <1>1, Zenon DEF InProcess
    <3> QED
        BY <3>1, <3>2, <3>3, Zenon DEF Pending
  <2>7. Logged' = Logged
      BY <1>1, <1>2, Zenon DEF Logged, Passed
  <2>8. \A d \in Clients : call'[d].pc = "write" <=> call[d].pc = "write"
      BY <1>1, <2>4 DEF Idle
  <2>9. \A d \in Clients : call'[d].pc = "write" => call'[d].event = call[d].event
      BY <2>4, SMTT(30) DEF Idle
  <2>10. Contents'
      BY <1>1, <1>2, <2>1, <2>6, <2>7, <2>8, <2>9, SMTT(30) DEF Contents
  <2> QED
      BY <1>3, <2>3, <2>5, <2>10, Zenon
<1> QED
    BY <1>4, <1>5, Zenon DEF IngestSubmit

LEMMA ReceiveStep ==
    ASSUME Parameters, IngestInv, NEW w \in Workers, Receive(w)
    PROVE  IngestInv'
<1> USE DEF IngestInv
<1> DEFINE e == Head(jobCh)
           n == Len(jobCh)
<1>1. /\ worker[w].pc = "receive" /\ jobCh # << >>
      /\ worker' = [worker EXCEPT ![w] = [pc |-> "process", event |-> e]]
      /\ jobCh' = Tail(jobCh)
      /\ UNCHANGED <<phase, replayed, jobChClosed, step, pool, content, call, wal, nextEvent,
                     processed, panicked>>
    BY Zenon DEF Receive, process, events, history
<1>2. /\ jobCh \in Seq(Events) /\ n \in Nat \ {0} /\ e = jobCh[1] /\ e \in Events
      /\ jobCh' \in Seq(Events) /\ Len(jobCh') = n - 1
      /\ \A i \in 1..Len(jobCh') : jobCh'[i] = jobCh[i + 1] /\ i + 1 \in 1..n
  <2>1. jobCh \in Seq(Events)
      BY Zenon DEF Types
  <2>2. /\ n \in Nat \ {0} /\ e = jobCh[1] /\ e \in Events
        /\ jobCh' \in Seq(Events) /\ Len(jobCh') = n - 1
      BY <2>1, <1>1
  <2>3. \A i \in 1..Len(jobCh') : jobCh'[i] = jobCh[i + 1]
      BY <2>1, <1>1, SMTT(30)
  <2> QED
      BY <2>1, <2>2, <2>3, SMTT(30)
<1>3. worker[w].event = None
    BY <1>1, Zenon DEF Types
<1> HIDE DEF n, e
<1>4. Types'
    BY <1>1, <1>2, Zenon DEF Types
<1>5. ClosedQuietly'
    BY <1>1, Zenon DEF ClosedQuietly
<1>6. /\ worker'[w] = [pc |-> "process", event |-> e]
      /\ \A v \in Workers \ {w} : worker'[v] = worker[v]
    BY <1>1, Zenon DEF Types
<1>7. /\ \A i \in 1..Len(jobCh') : jobCh'[i] # e
      /\ \A i, j \in 1..Len(jobCh') : jobCh'[i] = jobCh'[j] => i = j
    BY <1>2, SMTT(30) DEF Owned, n
<1>8. /\ \A v \in Workers : worker[v].event # e
      /\ \A d \in Clients : call[d].event # e
      /\ e \notin pool
    BY <1>2 DEF Owned, n
<1>9. Owned'
    BY <1>1, <1>2, <1>6, <1>7, <1>8, SMTT(30) DEF Owned, n
<1>10. Pending' \subseteq Pending
  <2>1. InCalling' = InCalling
      BY <1>1, Zenon DEF InCalling
  <2>2. InQueue' \subseteq InQueue /\ e \in InQueue
      BY <1>2, SMTT(30) DEF InQueue, n
  <2>3. InProcess' \subseteq InProcess \cup {e}
      BY <1>6 DEF InProcess
  <2> QED
      BY <2>1, <2>2, <2>3, Zenon DEF Pending
<1>11. Logged' = Logged
    BY <1>1, Zenon DEF Logged, Passed
<1>12. Contents'
    BY <1>1, <1>10, <1>11, Zenon DEF Contents
<1> QED
    BY <1>4, <1>5, <1>9, <1>12, Zenon

LEMMA ProcessStep ==
    ASSUME Parameters, IngestInv, NEW w \in Workers, Process(w)
    PROVE  IngestInv'
<1> USE DEF IngestInv
<1> DEFINE e == worker[w].event
           n == Len(processed)
<1>1. /\ worker[w].pc = "process" /\ worker' = [worker EXCEPT ![w].pc = "release"]
      /\ processed' = Append(processed, content[e])
      /\ UNCHANGED <<phase, replayed, jobCh, jobChClosed, step, pool, content, call, wal,
                     nextEvent, panicked>>
    BY Zenon DEF Process, process, events
<1>2. e \in Events /\ e \in Pending
    BY <1>1, Zenon DEF Types, Pending, InProcess
<1>3. content[e] \in Requests /\ content[e] \in Logged
  <2>1. \A c \in Clients : call[c].pc = "write" => call[c].event # e
      BY DEF Owned, Idle
  <2> QED
      BY <1>2, <2>1, Zenon DEF Contents
<1>4. /\ n \in Nat /\ processed' \in Seq(Requests)
      /\ \A i \in 1..Len(processed') : \/ i \in 1..n /\ processed'[i] = processed[i]
                                       \/ i = n + 1 /\ processed'[i] = content[e]
  <2>1. processed \in Seq(Requests) /\ n \in Nat
      BY DEF Types
  <2>2. /\ processed' \in Seq(Requests) /\ Len(processed') = n + 1
        /\ processed'[n + 1] = content[e] /\ \A i \in 1..n : processed'[i] = processed[i]
      BY <1>1, <1>3, <2>1
  <2> HIDE DEF n
  <2> QED
      BY <2>1, <2>2, SMTT(30)
<1>5. /\ worker'[w] = [pc |-> "release", event |-> e]
      /\ \A v \in Workers \ {w} : worker'[v] = worker[v]
    BY <1>1, Zenon DEF Types
<1> HIDE DEF e
<1>6. Types'
    BY <1>1, <1>2, <1>4, <1>5 DEF Types
<1>7. ClosedQuietly'
    BY <1>1, Zenon DEF ClosedQuietly
<1>8. \A v \in Workers : worker'[v].event = worker[v].event
    BY <1>5 DEF e
<1>9. Owned'
    BY <1>1, <1>8 DEF Owned
<1>10. Pending' \subseteq Pending \ {e}
  <2>1. InCalling' = InCalling /\ e \notin InCalling
      BY <1>1 DEF InCalling, Owned, e
  <2>2. InQueue' = InQueue /\ e \notin InQueue
      BY <1>1 DEF InQueue, Owned, e
  <2>3. InProcess' \subseteq InProcess \ {e}
    <3> SUFFICES ASSUME NEW v \in Workers, worker'[v].pc = "process"
                 PROVE  worker[v].pc = "process" /\ worker[v].event # e
        BY <1>8, Zenon DEF InProcess
    <3>1. v # w /\ worker[v].pc = "process"
        BY <1>5
    <3> QED
        BY <3>1, <1>2, NoneIsNoEvent, Zenon DEF Owned, e
  <2> QED
      BY <2>1, <2>2, <2>3, Zenon DEF Pending
<1>11. Logged' = Logged
    BY <1>1, Zenon DEF Logged, Passed
<1>12. Contents'
  <2>1. \A f \in Pending' : \A i \in 1..Len(processed') : processed'[i] # content[f]
      BY <1>2, <1>4, <1>10, Zenon DEF Contents
  <2>2. \A i \in 1..Len(processed') : processed'[i] \in Logged
      BY <1>3, <1>4, Zenon DEF Contents
  <2>3. \A i, j \in 1..Len(processed') : processed'[i] = processed'[j] => i = j
      BY <1>2, <1>4, SMTT(30) DEF Contents
  <2> QED
      BY <2>1, <2>2, <2>3, <1>1, <1>10, <1>11, Zenon DEF Contents
<1> QED
    BY <1>6, <1>7, <1>9, <1>12, Zenon

LEMMA FinishStep ==
    ASSUME Parameters, IngestInv, NEW w \in Workers, Finish(w)
    PROVE  IngestInv'
<1> USE DEF IngestInv
<1> DEFINE e == worker[w].event
<1>1. /\ worker[w].pc = "release" /\ worker' = [worker EXCEPT ![w] = Waiting]
      /\ pool' = pool \cup {e} /\ content' = [content EXCEPT ![e] = None]
      /\ UNCHANGED <<phase, replayed, jobCh, jobChClosed, step, call, wal, nextEvent,
                     processed, panicked>>
    BY Zenon DEF Finish, Release, process, history
<1>2. e \in Events
    BY <1>1, Zenon DEF Types
<1>3. worker'[w] = Waiting /\ \A v \in Workers \ {w} : worker'[v] = worker[v]
    BY <1>1, Zenon DEF Types
<1>4. Types'
    BY <1>1, <1>2, <1>3, Zenon DEF Types, Waiting
<1>5. ClosedQuietly'
    BY <1>1, Zenon DEF ClosedQuietly
<1> HIDE DEF e
<1>6. /\ \A v \in Workers \ {w} : worker[v].event # e
      /\ \A c \in Clients : call[c] # Idle => call[c].event # e
      /\ \A i \in 1..Len(jobCh) : jobCh[i] # e
    BY <1>2, NoneIsNoEvent, Zenon DEF Owned, e
<1>7. Owned'
  <2>1. \A c \in Clients : call[c].event \notin pool'
      BY <1>1, <1>2, <1>6, NoneIsNoEvent, SMTT(30) DEF Owned, Idle
  <2>2. \A v \in Workers : worker'[v].event \notin pool'
    <3>1. None \notin pool'
        BY <1>1, <1>2, NoneIsNoEvent, Zenon DEF Types
    <3> QED
        BY <3>1, <1>1, <1>3, <1>6, SMTT(30) DEF Owned, Waiting
  <2>3. \A i \in 1..Len(jobCh) : jobCh[i] \notin pool' /\ jobCh[i] # None
      BY <1>1, <1>6, NoneIsNoEvent, SMTT(30) DEF Owned, Types
  <2>4. \A c \in Clients : call[c] # Idle => call[c].event # None
      BY NoneIsNoEvent, Zenon DEF Types
  <2> QED
      BY <2>1, <2>2, <2>3, <2>4, <1>1, <1>3, SMTT(30) DEF Owned, Waiting
<1>8. Pending' \subseteq Pending /\ e \notin Pending
  <2>1. InCalling' = InCalling /\ e \notin InCalling
      BY <1>1, <1>6, Zenon DEF InCalling
  <2>2. InQueue' = InQueue /\ e \notin InQueue
      BY <1>1, <1>6, Zenon DEF InQueue
  <2>3. InProcess' \subseteq InProcess /\ e \notin InProcess
      BY <1>1, <1>3, <1>6, SMTT(30) DEF InProcess, Waiting
  <2> QED
      BY <2>1, <2>2, <2>3, Zenon DEF Pending
<1>9. \A f \in Pending : content'[f] = content[f]
    BY <1>1, <1>8, PendingAreEvents, Zenon DEF Types
<1>10. Logged' = Logged
    BY <1>1, Zenon DEF Logged, Passed
<1>11. \A c \in Clients : call[c].pc = "write" => call[c].event \in Pending
    BY SMTT(30) DEF Pending, InCalling, Idle
<1>12. Contents'
    BY <1>1, <1>8, <1>9, <1>10, <1>11, SMTT(30) DEF Contents
<1> QED
    BY <1>4, <1>5, <1>7, <1>12, Zenon

LEMMA ExitStep ==
    ASSUME Parameters, IngestInv, NEW w \in Workers, Exit(w)
    PROVE  IngestInv'
<1> USE DEF IngestInv
<1>1. /\ worker[w].pc = "receive" /\ worker' = [worker EXCEPT ![w].pc = "exited"]
      /\ UNCHANGED <<phase, replayed, jobCh, jobChClosed, step, pool, content, call, wal,
                     nextEvent, processed, panicked>>
    BY Zenon DEF Exit, process, events, history
<1>2. /\ worker'[w] = [pc |-> "exited", event |-> None] /\ worker[w].event = None
      /\ \A v \in Workers \ {w} : worker'[v] = worker[v]
    BY <1>1, Zenon DEF Types
<1>3. Types'
    BY <1>1, <1>2 DEF Types
<1>4. ClosedQuietly'
    BY <1>1, Zenon DEF ClosedQuietly
<1>5. Owned'
    BY <1>1, <1>2 DEF Owned
<1>6. InCalling' = InCalling /\ InQueue' = InQueue /\ InProcess' = InProcess
    BY <1>1, <1>2 DEF InCalling, InQueue, InProcess
<1>7. Logged' = Logged
    BY <1>1, Zenon DEF Logged, Passed
<1>8. Contents'
    BY <1>1, <1>6, <1>7 DEF Contents, Pending
<1> QED
    BY <1>3, <1>4, <1>5, <1>8, Zenon

LEMMA StartStep == ASSUME Parameters, IngestInv, Start PROVE IngestInv'
<1> USE DEF IngestInv
<1>1. /\ phase' = "recovering" /\ UNCHANGED <<wal, nextEvent, panicked>>
      /\ replayed' = 0 /\ pool' = {} /\ content' = [f \in Events |-> None]
      /\ call' = [c \in Clients |-> Idle] /\ worker' = [w \in Workers |-> Waiting]
      /\ jobCh' = << >> /\ jobChClosed' = FALSE /\ step' = "running" /\ processed' = << >>
    BY Zenon DEF Start, Fresh
<1>2. Types'
    BY <1>1 DEF Types, Waiting
<1>3. ClosedQuietly'
    BY <1>1, StepsListed, Zenon DEF ClosedQuietly
<1>4. Owned'
    BY <1>1, SMTT(30) DEF Owned, Idle, Waiting
<1>5. Pending' = {}
    BY <1>1, SMTT(30) DEF Pending, InCalling, InQueue, InProcess, Waiting
<1>6. Contents'
  <2>1. Len(wal) \in Nat
      BY DEF Types
  <2> QED
      BY <1>1, <1>5, <2>1, SMTT(30) DEF Contents, Idle
<1> QED
    BY <1>2, <1>3, <1>4, <1>6, Zenon

LEMMA RecoverStep == ASSUME Parameters, IngestInv, Recover PROVE IngestInv'
<1> USE DEF IngestInv
<1> DEFINE r == replayed + 1
           n == Len(jobCh)
<1>1. /\ phase = "recovering" /\ phase' = phase /\ replayed < Len(wal) /\ replayed' = r
      /\ UNCHANGED <<jobChClosed, step, pool, call, worker, wal, nextEvent, processed, panicked>>
    BY Zenon DEF Recover
<1>2. /\ r \in 1..Len(wal) /\ Len(wal) \in Nat /\ replayed \in Nat /\ wal[r] \in Requests
      /\ \A i \in 1..r : i \in 1..replayed \/ i = r
  <2>1. Len(wal) \in Nat /\ replayed \in Nat /\ \A i \in 1..Len(wal) : wal[i] \in Requests
      BY DEF Types
  <2> QED
      BY <1>1, <2>1
<1>3. ClosedQuietly'
    BY <1>1, Zenon DEF ClosedQuietly
<1>4. Logged = {wal[i] : i \in 1..replayed} /\ Logged' = {wal[i] : i \in 1..r}
    BY <1>1, Zenon DEF Logged, Passed
<1>5. Logged \subseteq Logged' /\ wal[r] \in Logged' /\ wal[r] \notin Logged
  <2>1. 1..replayed \subseteq 1..r /\ r \in 1..r /\ 1..replayed \subseteq 1..Len(wal) /\ r \notin 1..replayed
      BY <1>1, <1>2, SMTT(30)
  <2> HIDE DEF r
  <2> QED
      BY <1>2, <1>4, <2>1, SMTT(30) DEF Contents
<1>6. replayed' \in Nat /\ replayed' <= Len(wal) /\ \A c \in Clients : call[c] = Idle
    BY <1>1, <1>2 DEF Contents
<1> HIDE DEF r
<1>7. CASE UNCHANGED <<content, jobCh>>
  <2>1. Types' /\ Owned'
      BY <1>1, <1>6, <1>7, Zenon DEF Types, Owned
  <2>2. Pending' = Pending
      BY <1>1, <1>7, Zenon DEF Pending, InCalling, InQueue, InProcess
  <2>3. Contents'
      BY <1>1, <1>5, <1>6, <1>7, <2>2, Zenon DEF Contents
  <2> QED
      BY <1>3, <2>1, <2>3, Zenon
<1>8. CASE \E e \in Allocated : /\ content' = [content EXCEPT ![e] = wal[r]]
                                /\ jobCh' = Append(jobCh, e)
  <2>1. PICK e \in Allocated : /\ content' = [content EXCEPT ![e] = wal[r]]
                               /\ jobCh' = Append(jobCh, e)
      BY <1>8, Zenon
  <2>2. /\ e \in Events /\ e \notin pool
        /\ \A w \in Workers : worker[w].event # e
        /\ \A i \in 1..n : jobCh[i] # e
    <3>1. e \in Acquirable /\ e \notin pool
        BY Zenon DEF Acquirable, Allocated
    <3> QED
        BY <3>1, AcquiredIsFree, Zenon
  <2>3. /\ jobCh' \in Seq(Events) /\ n \in Nat
        /\ \A i \in 1..Len(jobCh') : \/ i \in 1..n /\ jobCh'[i] = jobCh[i]
                                     \/ i = n + 1 /\ jobCh'[i] = e
    <3>1. jobCh \in Seq(Events) /\ n \in Nat
        BY DEF Types
    <3>2. /\ jobCh' \in Seq(Events) /\ Len(jobCh') = n + 1 /\ jobCh'[n + 1] = e
          /\ \A i \in 1..n : jobCh'[i] = jobCh[i]
        BY <3>1, <2>1, <2>2, SMTT(30)
    <3> HIDE DEF n
    <3> QED
        BY <3>1, <3>2, SMTT(30)
  <2>4. Types'
      BY <1>1, <1>2, <1>6, <2>1, <2>2, <2>3, Zenon DEF Types
  <2>5. Owned'
    <3>1. \A i, j \in 1..Len(jobCh') : jobCh'[i] = jobCh'[j] => i = j
        BY <2>2, <2>3, Zenon DEF Owned
    <3>2. \A i \in 1..Len(jobCh') : /\ jobCh'[i] \notin pool /\ jobCh'[i] # None
                                   /\ \A w \in Workers : worker[w].event # jobCh'[i]
        BY <2>2, <2>3, NoneIsNoEvent, SMTT(30) DEF Owned, Types
    <3>3. \A c \in Clients : call'[c] = Idle /\ call'[c].event = None
        BY <1>1, <1>6, SMTT(30) DEF Idle
    <3>4. /\ \A v, w \in Workers :
                worker'[v].event # None /\ worker'[v].event = worker'[w].event => v = w
          /\ \A c \in Clients : call'[c].event \notin pool'
          /\ \A w \in Workers : worker'[w].event \notin pool'
        BY <1>1, Zenon DEF Owned
    <3>5. /\ \A c \in Clients, i \in 1..Len(jobCh') : call'[c].event # jobCh'[i]
          /\ \A w \in Workers, i \in 1..Len(jobCh') : worker'[w].event # jobCh'[i]
          /\ \A i \in 1..Len(jobCh') : jobCh'[i] \notin pool'
        BY <3>2, <3>3, <1>1, Zenon
    <3>6. /\ \A c, d \in Clients :
                call'[c] # Idle /\ call'[d] # Idle /\ call'[c].event = call'[d].event => c = d
          /\ \A c \in Clients, w \in Workers : call'[c] # Idle => call'[c].event # worker'[w].event
        BY <3>3, Zenon
    <3> QED
        BY <3>1, <3>4, <3>5, <3>6, Zenon DEF Owned, Idle
  <2>6. Pending' \subseteq Pending \cup {e} /\ e \notin Pending
    <3>1. InCalling' = {} /\ InCalling = {}
        BY <1>1, <1>6, Zenon DEF InCalling
    <3>2. InQueue' \subseteq InQueue \cup {e} /\ e \notin InQueue
        BY <2>2, <2>3, Zenon DEF InQueue
    <3>3. InProcess' = InProcess /\ e \notin InProcess
        BY <1>1, <2>2, Zenon DEF InProcess
    <3> QED
        BY <3>1, <3>2, <3>3, Zenon DEF Pending
  <2>7. content'[e] = wal[r] /\ \A f \in Pending : content'[f] = content[f]
      BY <2>1, <2>2, <2>6, PendingAreEvents, Zenon DEF Types
  <2>8. \A f \in Pending : content[f] \in Logged
      BY <1>6, SMTT(30) DEF Contents, Idle
  <2>9. Contents'
    <3>1. \A f \in Pending' : /\ content'[f] \in Requests /\ content'[f] < nextEvent
                              /\ \A i \in 1..Len(processed) : processed[i] # content'[f]
        BY <1>2, <1>5, <2>6, <2>7, ZenonT(30) DEF Contents
    <3>2. \A f, g \in Pending' : content'[f] = content'[g] => f = g
        BY <1>5, <2>6, <2>7, <2>8, SMTT(30) DEF Contents
    <3>3. \A f \in Pending' : content'[f] \in Logged'
        BY <1>5, <2>6, <2>7, <2>8, Zenon
    <3> QED
        BY <3>1, <3>2, <3>3, <1>1, <1>5, <1>6, SMTT(30) DEF Contents, Idle
  <2> QED
      BY <1>3, <2>4, <2>5, <2>9, Zenon
<1> QED
    BY <1>7, <1>8, Zenon DEF Recover, r

(* The steps of start-up, shutdown and the garbage collector. *)
LEMMA QuietStep ==
    ASSUME Parameters, IngestInv,
           Serve \/ RecoverFails \/ Crash \/ MainReturns \/ GarbageCollect \/ Shutdown
    PROVE  IngestInv'
<1> USE DEF IngestInv, events, history, process
<1>1. CASE Serve \/ RecoverFails \/ Crash \/ MainReturns
  <2>1. /\ UNCHANGED <<call, jobCh, worker, content, wal, nextEvent, processed, pool, replayed>>
        /\ UNCHANGED <<jobChClosed, step, panicked>>
        /\ phase' \in {"serving", "down"} /\ (phase = "recovering" => replayed <= Len(wal))
      BY <1>1, Zenon DEF Serve, RecoverFails, Crash, MainReturns, Contents
  <2>2. Types' /\ Owned' /\ Contents'
      BY <2>1, Untouched, Zenon
  <2>3. ClosedQuietly'
      BY <2>1, Zenon DEF ClosedQuietly
  <2> QED
      BY <2>2, <2>3, Zenon
<1>2. CASE GarbageCollect
  <2>1. Types' /\ Owned' /\ Contents'
      BY <1>2, Untouched, Zenon DEF GarbageCollect, Types
  <2>2. ClosedQuietly'
      BY <1>2, Zenon DEF GarbageCollect, ClosedQuietly
  <2> QED
      BY <2>1, <2>2, Zenon
<1>3. CASE Shutdown
  <2>1. /\ UNCHANGED <<phase, replayed, pool, content, call, jobCh, worker, wal, nextEvent,
                       processed, panicked>>
        /\ phase = "serving"
      BY <1>3, Zenon DEF Shutdown, StopHTTP, CloseWAL, StopGRPC, CloseQueue, ShutdownReturns, Advance
  <2>2. Types' /\ Owned' /\ Contents'
      BY <2>1, Untouched, Zenon DEF Types
  <2>3. ClosedQuietly'
      BY <1>3, <2>1, StepsListed, SMTT(30)
         DEF Shutdown, StopHTTP, CloseWAL, StopGRPC, CloseQueue, ShutdownReturns, Advance, At,
             ClosedQuietly
  <2> QED
      BY <2>2, <2>3, Zenon
<1> QED
    BY <1>1, <1>2, <1>3, Zenon

LEMMA NextInv == ASSUME Parameters, IngestInv, [Next]_vars PROVE IngestInv'
<1>1. CASE Next
    BY <1>1, BeginStep, WriteStep, SubmitStep, RefusedStep, ReceiveStep, ProcessStep, FinishStep,
       ExitStep, StartStep, RecoverStep, QuietStep, Zenon DEF Next
<1>2. CASE UNCHANGED vars
  <2>1. /\ UNCHANGED <<phase, replayed, pool, content, call, jobCh, worker, wal, nextEvent,
                       processed>>
        /\ UNCHANGED <<jobChClosed, step, panicked>>
      BY <1>2, Zenon DEF vars, process, events, history
  <2>2. Types' /\ Owned' /\ Contents'
      BY <2>1, Untouched, Zenon DEF IngestInv, Types
  <2>3. ClosedQuietly'
      BY <2>1, Zenon DEF IngestInv, ClosedQuietly
  <2> QED
      BY <2>2, <2>3, Zenon DEF IngestInv
<1> QED
    BY <1>1, <1>2, Zenon

(***************************************************************************)
(* The order in which main takes the parts down is enough: GracefulStop    *)
(* has answered every call of Ingest before the queue is closed, so Submit *)
(* never sends on a closed channel, however calls, workers and the signal  *)
(* handler interleave.                                                     *)
(***************************************************************************)
THEOREM ShutdownNeverPanics == ASSUME Parameters PROVE Spec => []NoSendOnClosed
<1>1. Init => IngestInv
    BY InitInv, Zenon
<1>2. IngestInv /\ [Next]_vars => IngestInv'
    BY NextInv, Zenon
<1>3. IngestInv => NoSendOnClosed
    BY Zenon DEF IngestInv, ClosedQuietly, NoSendOnClosed
<1> QED
    BY <1>1, <1>2, <1>3, PTL DEF Spec

(***************************************************************************)
(* Recycling Events is safe: whatever Ingest, the workers, the replay and  *)
(* the garbage collector do with the pool, the workers of a process handle *)
(* each request at most once, and only requests that are in the WAL.       *)
(***************************************************************************)
THEOREM RecyclingIsFaithful == ASSUME Parameters PROVE Spec => []ProcessedFaithfully
<1>1. Init => IngestInv
    BY InitInv, Zenon
<1>2. IngestInv /\ [Next]_vars => IngestInv'
    BY NextInv, Zenon
<1>3. IngestInv => ProcessedFaithfully
  <2> SUFFICES ASSUME IngestInv PROVE ProcessedFaithfully
      BY Zenon
  <2>1. processed \in Seq(Requests) /\ wal \in Seq(Requests) /\ replayed \in Nat
      BY Zenon DEF IngestInv, Types
  <2>2. IsInjective(processed)
    <3>1. DOMAIN processed = 1..Len(processed)
        BY <2>1
    <3>2. \A i, j \in 1..Len(processed) : processed[i] = processed[j] => i = j
        BY Zenon DEF IngestInv, Contents
    <3> QED
        BY <3>1, <3>2, Zenon DEF IsInjective
  <2>3. Logged \subseteq ToSet(wal)
    <3>1. Len(wal) \in Nat /\ (phase = "recovering" => replayed <= Len(wal))
        BY <2>1 DEF IngestInv, Contents
    <3>2. Passed \in Nat /\ Passed <= Len(wal)
        BY <2>1, <3>1 DEF Passed
    <3>3. 1..Passed \subseteq 1..Len(wal)
        BY <3>1, <3>2, SMTT(30)
    <3>4. ToSet(wal) = {wal[i] : i \in 1..Len(wal)}
        BY <2>1, SMTT(30) DEF ToSet
    <3> QED
        BY <3>3, <3>4, ZenonT(30) DEF Logged
  <2>4. ToSet(processed) \subseteq Logged
      BY <2>1 DEF ToSet, IngestInv, Contents
  <2> QED
      BY <2>2, <2>3, <2>4, Zenon DEF ProcessedFaithfully
<1> QED
    BY <1>1, <1>2, <1>3, PTL DEF Spec
=============================================================================
