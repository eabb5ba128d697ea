------------------------------ MODULE Ingestion ------------------------------
(***************************************************************************)
(* The ingestion pipeline of one process: forwarded requests arrive over   *)
(* gRPC, take an Event from a pool that recycles them, write it to the     *)
(* event WAL and hand the pointer to a fixed set of workers through a      *)
(* bounded queue; the worker gives the Event back.  Start-up replays the   *)
(* WAL into the same queue, and the signal handler takes the parts down    *)
(* one by one while the main goroutine may already be leaving.             *)
(*                                                                         *)
(* An Event is a number, its content the number of the request it was      *)
(* filled by.  The WAL survives the end of the process; what a power       *)
(* failure does to it is the subject of EventStore.                        *)
(***************************************************************************)
EXTENDS Integers, Sequences, SequencesExt, FiniteSets

CONSTANTS Clients,        \* concurrent calls of the gRPC method Ingest
          Workers,        \* the goroutines of the worker pool
          JobBufferSize,  \* capacity of jobCh
          MaxEvents,      \* bound on the requests
          MaxStarts,      \* bound on the starts of the process
          WriteErrors,    \* TRUE: the disk or the full index may refuse a record
          None

VARIABLES phase,       \* "recovering", "serving" or "down"
          starts,      \* how often the process was started
          replayed,    \* records of the WAL Recover has passed to its callback
          pool,        \* Events in the sync.Pool
          content,     \* per Event: the request whose data it holds, or None
          call,        \* per client: where its call of Ingest is
          jobCh,       \* the queue of Events
          jobChClosed,
          worker,      \* per worker: what it holds
          step,        \* how far the signal handler is
          wal,         \* the requests in the event WAL, across restarts
          nextEvent,
          accepted,    \* requests this process answered with success
          processed,   \* requests the workers of this process handled, in order
          panicked     \* a send on the closed queue

process == <<phase, starts, replayed, jobChClosed, step>>
events == <<pool, content>>
history == <<accepted, processed, panicked>>
vars == <<process, events, call, jobCh, worker, wal, nextEvent, history>>

Requests == 1..MaxEvents

(* Enough Events for every place one can be in. *)
Events == 1..(Cardinality(Clients) + Cardinality(Workers) + JobBufferSize + 1)

Steps == <<"running", "httpStopped", "walClosed", "grpcStopping", "queueClosed", "finished">>

At(s) == step = s
Reached(s) == \E i, j \in DOMAIN Steps : Steps[i] = s /\ Steps[j] = step /\ i <= j

Idle == [pc |-> "idle", event |-> None]
Waiting == [pc |-> "receive", event |-> None]

InCalls == {call[c].event : c \in Clients} \ {None}
InWorkers == {worker[w].event : w \in Workers} \ {None}
Held == InCalls \cup InWorkers \cup ToSet(jobCh)

TypeOK ==
    /\ phase \in {"recovering", "serving", "down"}
    /\ starts \in 1..MaxStarts
    /\ replayed \in 0..MaxEvents
    /\ pool \subseteq Events
    /\ content \in [Events -> Requests \cup {None}]
    /\ call \in [Clients -> [pc : {"idle", "write", "submit", "refused"}, event : Events \cup {None}]]
    /\ jobCh \in Seq(Events) /\ Len(jobCh) <= JobBufferSize
    /\ jobChClosed \in BOOLEAN
    /\ worker \in [Workers -> [pc : {"receive", "process", "release", "exited"},
                               event : Events \cup {None}]]
    /\ step \in ToSet(Steps)
    /\ wal \in Seq(Requests)
    /\ nextEvent \in 1..MaxEvents + 1
    /\ accepted \subseteq Requests
    /\ processed \in Seq(Requests \cup {None})
    /\ panicked \in BOOLEAN

Fresh ==
    /\ replayed' = 0 /\ pool' = {} /\ content' = [e \in Events |-> None]
    /\ call' = [c \in Clients |-> Idle]
    /\ jobCh' = <<>> /\ jobChClosed' = FALSE
    /\ worker' = [w \in Workers |-> Waiting]
    /\ step' = "running"
    /\ accepted' = {} /\ processed' = <<>>

Init ==
    /\ phase = "serving" /\ starts = 1
    /\ replayed = 0 /\ pool = {} /\ content = [e \in Events |-> None]
    /\ call = [c \in Clients |-> Idle]
    /\ jobCh = <<>> /\ jobChClosed = FALSE
    /\ worker = [w \in Workers |-> Waiting]
    /\ step = "running"
    /\ wal = <<>> /\ nextEvent = 1
    /\ accepted = {} /\ processed = <<>>
    /\ panicked = FALSE

-----------------------------------------------------------------------------
(* The pool: Get returns a pooled Event or allocates; Release resets the   *)
(* Event before Put; a garbage collection empties the pool.                *)

(* An Event nobody refers to any more, allocated anew: the first of them. *)
Allocated ==
    LET unused == Events \ (Held \cup pool)
    IN  {e \in unused : \A f \in unused : e <= f}

Acquirable == pool \cup Allocated

Release(e) ==
    /\ pool' = pool \cup {e}
    /\ content' = [content EXCEPT ![e] = None]

GarbageCollect ==
    /\ phase # "down" /\ pool # {}
    /\ pool' = {}
    /\ UNCHANGED <<process, content, call, jobCh, worker, wal, nextEvent, history>>

-----------------------------------------------------------------------------
(* Ingest, called by the gRPC server: Acquire and fill, WriteEvent, Submit. *)

IngestBegin(c) ==
    /\ phase = "serving" /\ ~Reached("grpcStopping")
    /\ call[c] = Idle /\ nextEvent <= MaxEvents
    /\ \E e \in Acquirable :
          /\ pool' = pool \ {e}
          /\ content' = [content EXCEPT ![e] = nextEvent]
          /\ call' = [call EXCEPT ![c] = [pc |-> "write", event |-> e]]
    /\ nextEvent' = nextEvent + 1
    /\ UNCHANGED <<process, jobCh, worker, wal, history>>

(* WriteEvent: a write on the closed file fails like one the disk refuses,  *)
(* and leaves nothing; one the full index refuses leaves its record.  With  *)
(* an error the Event goes back to the pool and the caller gets the error.  *)
IngestWrite(c) ==
    /\ phase = "serving" /\ call[c].pc = "write"
    /\ \E ok \in {TRUE, ~WriteErrors}, next \in {"submit"} \cup (IF WriteErrors THEN {"refused"} ELSE {}) :
          IF ok /\ ~Reached("walClosed")
          THEN /\ wal' = Append(wal, content[call[c].event])
               /\ call' = [call EXCEPT ![c].pc = next]
               /\ UNCHANGED events
          ELSE /\ Release(call[c].event)
               /\ call' = [call EXCEPT ![c] = Idle]
               /\ UNCHANGED wal
    /\ UNCHANGED <<process, jobCh, worker, nextEvent, accepted, processed, panicked>>

IngestRefused(c) ==
    /\ phase = "serving" /\ call[c].pc = "refused"
    /\ Release(call[c].event)
    /\ call' = [call EXCEPT ![c] = Idle]
    /\ UNCHANGED <<process, jobCh, worker, wal, nextEvent, history>>

(* Mutant: the Event goes back to the pool although the queue took it. *)
IngestSubmitTwice(c) ==
    /\ phase = "serving" /\ call[c].pc = "submit" /\ ~jobChClosed
    /\ Len(jobCh) < JobBufferSize
    /\ jobCh' = Append(jobCh, call[c].event)
    /\ pool' = pool \cup {call[c].event}
    /\ accepted' = accepted \cup {content[call[c].event]}
    /\ call' = [call EXCEPT ![c] = Idle]
    /\ UNCHANGED <<process, content, worker, wal, nextEvent, processed, panicked>>

(* Mutant: the queue takes one Event more than it has room for. *)
IngestSubmitOverfull(c) ==
    /\ phase = "serving" /\ call[c].pc = "submit" /\ ~jobChClosed
    /\ Len(jobCh) <= JobBufferSize
    /\ jobCh' = Append(jobCh, call[c].event)
    /\ accepted' = accepted \cup {content[call[c].event]}
    /\ call' = [call EXCEPT ![c] = Idle]
    /\ UNCHANGED <<process, events, worker, wal, nextEvent, processed, panicked>>

(* A send on the closed queue panics and takes the process down, whatever  *)
(* the queue still holds.                                                  *)
IngestSubmit(c) ==
    /\ phase = "serving" /\ call[c].pc = "submit"
    /\ call' = [call EXCEPT ![c] = Idle]
    /\ panicked' = jobChClosed
    /\ phase' = IF jobChClosed THEN "down" ELSE "serving"
    /\ \/ /\ Len(jobCh) < JobBufferSize
          /\ jobCh' = Append(jobCh, call[c].event)
          /\ accepted' = accepted \cup {content[call[c].event]}
          /\ UNCHANGED events
       \/ /\ Len(jobCh) = JobBufferSize
          /\ Release(call[c].event)
          /\ UNCHANGED <<jobCh, accepted>>
    /\ UNCHANGED <<starts, replayed, jobChClosed, step, worker, wal, nextEvent,
                   processed>>

-----------------------------------------------------------------------------
(* A worker: range over jobCh, Process, count and Release.                 *)

Receive(w) ==
    /\ phase # "down" /\ worker[w].pc = "receive" /\ jobCh # <<>>
    /\ worker' = [worker EXCEPT ![w] = [pc |-> "process", event |-> Head(jobCh)]]
    /\ jobCh' = Tail(jobCh)
    /\ UNCHANGED <<process, events, call, wal, nextEvent, history>>

(* Mutant: the Event is released before Process has read it. *)
ProcessReleased(w) ==
    /\ phase # "down" /\ worker[w].pc = "process"
    /\ Release(worker[w].event)
    /\ processed' = Append(processed, content[worker[w].event])
    /\ worker' = [worker EXCEPT ![w].pc = "release"]
    /\ UNCHANGED <<process, call, jobCh, wal, nextEvent, accepted, panicked>>

Process(w) ==
    /\ phase # "down" /\ worker[w].pc = "process"
    /\ processed' = Append(processed, content[worker[w].event])
    /\ worker' = [worker EXCEPT ![w].pc = "release"]
    /\ UNCHANGED <<process, events, call, jobCh, wal, nextEvent, accepted, panicked>>

Finish(w) ==
    /\ phase # "down" /\ worker[w].pc = "release"
    /\ Release(worker[w].event)
    /\ worker' = [worker EXCEPT ![w] = Waiting]
    /\ UNCHANGED <<process, call, jobCh, wal, nextEvent, history>>

(* Mutant: the worker leaves as soon as the queue is closed. *)
ExitAtOnce(w) ==
    /\ phase # "down" /\ worker[w].pc = "receive" /\ jobChClosed
    /\ worker' = [worker EXCEPT ![w].pc = "exited"]
    /\ UNCHANGED <<process, events, call, jobCh, wal, nextEvent, history>>

Exit(w) ==
    /\ phase # "down" /\ worker[w].pc = "receive" /\ jobChClosed /\ jobCh = <<>>
    /\ worker' = [worker EXCEPT ![w].pc = "exited"]
    /\ UNCHANGED <<process, events, call, jobCh, wal, nextEvent, history>>

-----------------------------------------------------------------------------
(* Start-up: the workers run while Recover walks the WAL; its callback      *)
(* submits an Event decoded from the record, not one of the pool.           *)

Start ==
    /\ phase = "down" /\ starts < MaxStarts /\ ~panicked
    /\ phase' = "recovering" /\ starts' = starts + 1
    /\ Fresh
    /\ UNCHANGED <<wal, nextEvent, panicked>>

Recover ==
    /\ phase = "recovering" /\ replayed < Len(wal)
    /\ replayed' = replayed + 1
    /\ \/ /\ Len(jobCh) < JobBufferSize
          /\ \E e \in Allocated : /\ content' = [content EXCEPT ![e] = wal[replayed + 1]]
                                 /\ jobCh' = Append(jobCh, e)
       \/ /\ Len(jobCh) = JobBufferSize
          /\ UNCHANGED <<content, jobCh>>
    /\ UNCHANGED <<phase, starts, jobChClosed, step, pool, call, worker, wal, nextEvent,
                   accepted, processed, panicked>>

(* A record the index has no room for ends Recover with an error, and main exits. *)
RecoverFails ==
    /\ WriteErrors /\ phase = "recovering" /\ replayed < Len(wal)
    /\ phase' = "down"
    /\ UNCHANGED <<starts, replayed, jobChClosed, step, events, call, jobCh, worker, wal,
                   nextEvent, history>>

Serve ==
    /\ phase = "recovering" /\ replayed = Len(wal)
    /\ phase' = "serving"
    /\ UNCHANGED <<starts, replayed, jobChClosed, step, events, call, jobCh, worker, wal,
                   nextEvent, history>>

(* The process is killed. *)
Crash ==
    /\ phase # "down" /\ starts < MaxStarts
    /\ phase' = "down"
    /\ UNCHANGED <<starts, replayed, jobChClosed, step, events, call, jobCh, worker, wal,
                   nextEvent, history>>

-----------------------------------------------------------------------------
(* Shutdown.  server.Shutdown makes ListenAndServe return at once, and with *)
(* it main: from the first step on the process may be gone at any moment.   *)

Advance(from, to) ==
    /\ phase = "serving" /\ At(from) /\ step' = to
    /\ UNCHANGED <<phase, starts, replayed, events, call, jobCh, worker, wal, nextEvent, history>>

StopHTTP == Advance("running", "httpStopped") /\ UNCHANGED jobChClosed

CloseWAL == Advance("httpStopped", "walClosed") /\ UNCHANGED jobChClosed

(* GracefulStop refuses new calls, then waits for the ones under way. *)
StopGRPC == Advance("walClosed", "grpcStopping") /\ UNCHANGED jobChClosed

(* Mutant: the queue is closed while calls are still under way. *)
CloseQueueEarly ==
    /\ Advance("grpcStopping", "queueClosed")
    /\ jobChClosed' = TRUE

CloseQueue ==
    /\ Advance("grpcStopping", "queueClosed")
    /\ \A c \in Clients : call[c] = Idle
    /\ jobChClosed' = TRUE

(* The context of 30 seconds may end the wait before the workers are done. *)
ShutdownReturns == Advance("queueClosed", "finished") /\ UNCHANGED jobChClosed

MainReturns ==
    /\ phase = "serving" /\ Reached("httpStopped")
    /\ phase' = "down"
    /\ UNCHANGED <<starts, replayed, jobChClosed, step, events, call, jobCh, worker, wal,
                   nextEvent, history>>

-----------------------------------------------------------------------------
Shutdown == StopHTTP \/ CloseWAL \/ StopGRPC \/ CloseQueue \/ ShutdownReturns

Next ==
    \/ \E c \in Clients : IngestBegin(c) \/ IngestWrite(c) \/ IngestSubmit(c) \/ IngestRefused(c)
    \/ \E w \in Workers : Receive(w) \/ Process(w) \/ Finish(w) \/ Exit(w)
    \/ Start \/ Recover \/ RecoverFails \/ Serve \/ Crash
    \/ GarbageCollect
    \/ Shutdown \/ MainReturns

Spec == Init /\ [][Next]_vars

-----------------------------------------------------------------------------
(* An Event is in one place only: in the pool, in one call, once in the     *)
(* queue or with one worker, and one in the pool holds no request's data    *)
(* (Release in Ingest and in work; "Process, count, Release").              *)
EventsOwnedOnce ==
    /\ Cardinality(Held) = Cardinality({c \in Clients : call[c].event # None})
                            + Len(jobCh) + Cardinality({w \in Workers : worker[w].event # None})
    /\ pool \cap Held = {}
    /\ \A e \in pool : content[e] = None

(* The workers of one process handle a request at most once, never an Event *)
(* that was reset under them, and nothing that is not in the WAL: recycling *)
(* Events mixes up no requests (work, Ingest, Recover's callback).          *)
ProcessedFaithfully ==
    /\ IsInjective(processed)
    /\ ToSet(processed) \subseteq ToSet(wal)

(* Submit never sends on the closed queue: when close(jobCh) runs every     *)
(* call that could send has been answered (main's order of shutdown).       *)
NoSendOnClosed == ~panicked

=============================================================================
