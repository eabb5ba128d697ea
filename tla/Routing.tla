------------------------------ MODULE Routing -------------------------------
(***************************************************************************)
(* POST /ingest and GET /kv/{key} across the cluster.  The process that    *)
(* receives a request looks its key up on the ring.  The owner takes it to *)
(* Raft, or redirects the client to the leader it knows; any other process *)
(* forwards it over gRPC, and the owner serves a forwarded request from    *)
(* its event store.  A prober marks the nodes a process cannot reach.      *)
(*                                                                         *)
(* The ring is a fixed map from keys to nodes, any map (its construction   *)
(* is the subject of Ring).  Raft is what its modules show it to be, a     *)
(* single log: proposals of the leader, a committed prefix that every node *)
(* learns of and applies at its own pace, and leaders that come and go.  A *)
(* new leader has every committed entry, but its commitIndex is its own    *)
(* and stays behind until an entry of its own term is committed.           *)
(***************************************************************************)
EXTENDS Integers, Sequences, SequencesExt, FiniteSets

CONSTANTS Nodes, Keys, Clients,
          MaxRequests,     \* bound on the requests
          MaxLeaders,      \* bound on the leadership changes
          MaxCrashes,      \* bound on the crashes
          MaxHops,         \* redirects a client follows
          LosesProposals,  \* TRUE: a new leader may lack uncommitted proposals
          SlowProbes,      \* TRUE: a probe of a live node may time out
          None

VARIABLES owner,     \* key -> node, the ring
          up,        \* the processes that run
          healthy,   \* process -> node -> the prober's verdict
          failures,  \* process -> node -> consecutive failed probes, up to 2
          leader,    \* the Raft leader or None
          leaderID,  \* process -> the leader it knows of
          proposals, \* entries after the committed ones
          log,       \* committed entries
          commitIndex, \* process -> how many of them it knows to be committed
          applied,   \* process -> index of its state machine
          store,     \* process -> the puts of its event store, in order
          req,       \* client -> its request
          acked,     \* acknowledged puts, with the path they took
          issued, leaders, crashes

raft == <<leader, leaderID, proposals, log, commitIndex, applied, leaders>>
health == <<up, healthy, failures, crashes>>
vars == <<owner, raft, health, store, req, acked, issued>>

Vals == 1..MaxRequests
Put == [key : Keys, val : Vals]
Entry == [key : Keys, val : Vals, term : 1..MaxLeaders]
Answers == {"stored", "value", "notFound", "unavailable", "timeout"}

NoReq == [op |-> "none", key |-> None, val |-> 0, at |-> None, pc |-> "idle", hops |-> 0,
          path |-> "none", index |-> 0, own |-> FALSE, answer |-> None, result |-> 0, floor |-> {}]

TypeOK ==
    /\ owner \in [Keys -> Nodes] /\ up \subseteq Nodes
    /\ healthy \in [Nodes -> [Nodes -> BOOLEAN]]
    /\ failures \in [Nodes -> [Nodes -> 0..2]]
    /\ leader \in Nodes \cup {None} /\ leaderID \in [Nodes -> Nodes \cup {None}]
    /\ log \in Seq(Entry) /\ proposals \in Seq(Entry)
    /\ \A n \in Nodes : /\ commitIndex[n] \in 0..Len(log) /\ applied[n] \in 0..commitIndex[n]
                       /\ store[n] \in Seq(Put)
    /\ \A c \in Clients :
          /\ req[c].pc \in {"idle", "route", "forward", "raft", "wait", "answered"}
          /\ req[c].hops \in 0..MaxHops
          /\ req[c].answer \in Answers \cup {None}
    /\ acked \subseteq [key : Keys, val : Vals, path : {"raft", "store"}]
    /\ issued \in 0..MaxRequests /\ leaders \in 0..MaxLeaders /\ crashes \in 0..MaxCrashes

Init ==
    /\ owner \in [Keys -> Nodes]
    /\ up = Nodes
    /\ healthy = [n \in Nodes |-> [m \in Nodes |-> TRUE]]
    /\ failures = [n \in Nodes |-> [m \in Nodes |-> 0]]
    /\ leader = None /\ leaderID = [n \in Nodes |-> None]
    /\ proposals = <<>> /\ log = <<>>
    /\ commitIndex = [n \in Nodes |-> 0] /\ applied = [n \in Nodes |-> 0]
    /\ store = [n \in Nodes |-> <<>>]
    /\ req = [c \in Clients |-> NoReq]
    /\ acked = {} /\ issued = 0 /\ leaders = 0 /\ crashes = 0

-----------------------------------------------------------------------------
(* Raft, as the handlers see it. *)

Elected(n) ==
    /\ n \in up /\ leader # n /\ leaders < MaxLeaders
    /\ leader' = n /\ leaders' = leaders + 1
    /\ leaderID' = [leaderID EXCEPT ![n] = n]
    /\ \E k \in {Len(proposals)} \cup (IF LosesProposals THEN 0..Len(proposals) ELSE {}) :
          proposals' = SubSeq(proposals, 1, k)
    /\ UNCHANGED <<owner, log, commitIndex, applied, health, store, req, acked, issued>>

(* The leader adopts a higher term; leaderID stays what it was. *)
StepsDown ==
    /\ leader # None /\ leader' = None
    /\ UNCHANGED <<owner, leaderID, proposals, log, commitIndex, applied, leaders, health, store,
                   req, acked, issued>>

(* A heartbeat tells who leads, and how far the leader knows the log to be committed. *)
Heartbeat(n) ==
    /\ n \in up /\ leader \notin {None, n}
    /\ leaderID[n] # leader \/ commitIndex[n] < commitIndex[leader]
    /\ leaderID' = [leaderID EXCEPT ![n] = leader]
    /\ commitIndex' = [commitIndex EXCEPT ![n] = Max({@, commitIndex[leader]})]
    /\ UNCHANGED <<owner, leader, proposals, log, applied, leaders, health, store, req, acked,
                   issued>>

(* maybeAdvanceCommitIndex: an entry of the leader's own term is on a majority, *)
(* and with it every entry before.                                              *)
Commit ==
    /\ leader # None
    /\ \E k \in 1..Len(proposals) :
          /\ proposals[k].term = leaders
          /\ log' = log \o SubSeq(proposals, 1, k)
          /\ proposals' = SubSeq(proposals, k + 1, Len(proposals))
    /\ commitIndex' = [commitIndex EXCEPT ![leader] = Len(log')]
    /\ UNCHANGED <<owner, leader, leaderID, applied, leaders, health, store, req, acked, issued>>

Apply(n) ==
    /\ n \in up /\ applied[n] < commitIndex[n]
    /\ applied' = [applied EXCEPT ![n] = @ + 1]
    /\ UNCHANGED <<owner, leader, leaderID, proposals, log, commitIndex, leaders, health, store,
                   req, acked, issued>>

-----------------------------------------------------------------------------
(* The value a key has after a sequence of puts, 0 when it has none. *)
Latest(puts, k) ==
    LET mine == SelectSeq(puts, LAMBDA p : p.key = k)
    IN  IF mine = <<>> THEN 0 ELSE Last(mine).val

Set(c, r) == req' = [req EXCEPT ![c] = r]

Answer(c, a, v) == Set(c, [req[c] EXCEPT !.pc = "answered", !.answer = a, !.result = v])

AnswerRead(c, v) == Answer(c, IF v = 0 THEN "notFound" ELSE "value", v)

Acknowledge(c) == acked' = acked \cup {[key |-> req[c].key, val |-> req[c].val, path |-> req[c].path]}

(* A client sends a request to any process that runs.  floor are the puts  *)
(* of the key that had been acknowledged by then.                          *)
Send(c) ==
    /\ req[c].pc \in {"idle", "answered"} /\ issued < MaxRequests
    /\ issued' = issued + 1
    /\ \E n \in up, k \in Keys, op \in {"put", "get"} :
          Set(c, [NoReq EXCEPT !.op = op, !.key = k, !.val = issued + 1, !.at = n, !.pc = "route",
                               !.floor = {a \in acked : a.key = k}])
    /\ UNCHANGED <<owner, raft, health, store, acked>>

(* Mutant: a request whose owner is down is served by the receiver. *)
RouteFallback(c) ==
    /\ req[c].pc = "route" /\ req[c].at \in up
    /\ LET n == req[c].at  target == owner[req[c].key]
       IN  IF target = n \/ ~healthy[n][target]
           THEN Set(c, [req[c] EXCEPT !.pc = "raft", !.path = "raft"])
           ELSE Set(c, [req[c] EXCEPT !.pc = "forward", !.path = "store"])
    /\ UNCHANGED <<owner, raft, health, store, acked, issued>>

(* ServeHTTP of both handlers: Lookup, and the health of another owner. *)
Route(c) ==
    /\ req[c].pc = "route" /\ req[c].at \in up
    /\ LET n == req[c].at  target == owner[req[c].key]
       IN  \/ /\ target = n
              /\ Set(c, [req[c] EXCEPT !.pc = "raft", !.path = "raft"])
           \/ /\ target # n /\ ~healthy[n][target]
              /\ Answer(c, "unavailable", 0)
           \/ /\ target # n /\ healthy[n][target]
              /\ Set(c, [req[c] EXCEPT !.pc = "forward", !.path = "store"])
    /\ UNCHANGED <<owner, raft, health, store, acked, issued>>

(* Forward: Ingest on the owner writes its event store.  The owner may be  *)
(* gone, and its reply may come too late or report a full queue after the  *)
(* write.                                                                  *)
ForwardPut(c) ==
    /\ req[c].pc = "forward" /\ req[c].op = "put" /\ req[c].at \in up
    /\ LET target == owner[req[c].key]  put == [key |-> req[c].key, val |-> req[c].val]
       IN  \/ /\ target \in up
              /\ store' = [store EXCEPT ![target] = Append(@, put)]
              /\ Answer(c, "stored", 0) /\ Acknowledge(c)
           \/ /\ target \in up
              /\ store' = [store EXCEPT ![target] = Append(@, put)]
              /\ Answer(c, "unavailable", 0) /\ UNCHANGED acked
           \/ /\ Answer(c, "unavailable", 0) /\ UNCHANGED <<store, acked>>
    /\ UNCHANGED <<owner, raft, health, issued>>

(* ForwardGet: the owner looks the key up in its event store. *)
ForwardGet(c) ==
    /\ req[c].pc = "forward" /\ req[c].op = "get" /\ req[c].at \in up
    /\ LET target == owner[req[c].key]
       IN  \/ target \in up /\ AnswerRead(c, Latest(store[target], req[c].key))
           \/ Answer(c, "unavailable", 0)
    /\ UNCHANGED <<owner, raft, health, store, acked, issued>>

-----------------------------------------------------------------------------
(* Mutant: the client is redirected without end. *)
RedirectForever(c) ==
    /\ req[c].pc = "raft" /\ req[c].at \in up /\ leader # req[c].at
    /\ leaderID[req[c].at] # None
    /\ Set(c, [req[c] EXCEPT !.pc = "route", !.at = leaderID[req[c].at], !.hops = @ + 1])
    /\ UNCHANGED <<owner, raft, health, store, acked, issued>>

(* Not the leader: 307 to the leader this process knows, or 503.           *)
Redirect(c) ==
    /\ req[c].pc = "raft" /\ req[c].at \in up /\ leader # req[c].at
    /\ LET to == leaderID[req[c].at]
       IN  \/ /\ to # None /\ req[c].hops < MaxHops
              /\ Set(c, [req[c] EXCEPT !.pc = "route", !.at = to, !.hops = @ + 1])
           \/ /\ to = None \/ req[c].hops = MaxHops
              /\ Answer(c, "unavailable", 0)
    /\ UNCHANGED <<owner, raft, health, store, acked, issued>>

(* Propose: the entry is appended to the leader's log. *)
Propose(c) ==
    /\ req[c].pc = "raft" /\ req[c].op = "put" /\ leader = req[c].at /\ req[c].at \in up
    /\ proposals' = Append(proposals, [key |-> req[c].key, val |-> req[c].val, term |-> leaders])
    /\ Set(c, [req[c] EXCEPT !.pc = "wait", !.index = Len(log) + Len(proposals) + 1])
    /\ UNCHANGED <<owner, leader, leaderID, log, commitIndex, applied, leaders, health, store,
                   acked, issued>>

(* ReadIndex: the confirmed leader's own commitIndex, or a failed round.  own *)
(* records whether that index covers an entry of the leader's term.            *)
ReadIndex(c) ==
    /\ req[c].pc = "raft" /\ req[c].op = "get" /\ leader = req[c].at /\ req[c].at \in up
    /\ \/ LET i == commitIndex[leader]
          IN  Set(c, [req[c] EXCEPT !.pc = "wait", !.index = i,
                                    !.own = \E j \in 1..i : log[j].term = leaders])
       \/ Answer(c, "unavailable", 0)
    /\ UNCHANGED <<owner, raft, health, store, acked, issued>>

(* Mutant: the read does not wait for the state machine. *)
WaitForIndexNot(c) ==
    /\ req[c].pc = "wait" /\ req[c].at \in up
    /\ \/ /\ req[c].op = "get"
          /\ AnswerRead(c, Latest(SubSeq(log, 1, applied[req[c].at]), req[c].key)) /\ UNCHANGED acked
       \/ /\ req[c].op = "put" /\ applied[req[c].at] >= req[c].index
          /\ Answer(c, "stored", 0) /\ Acknowledge(c)
    /\ UNCHANGED <<owner, raft, health, store, issued>>

(* WaitForIndex: 204, or the value of the state machine. *)
WaitForIndex(c) ==
    /\ req[c].pc = "wait" /\ req[c].at \in up
    /\ applied[req[c].at] >= req[c].index
    /\ \/ /\ req[c].op = "get"
          /\ AnswerRead(c, Latest(SubSeq(log, 1, applied[req[c].at]), req[c].key)) /\ UNCHANGED acked
       \/ /\ req[c].op = "put"
          /\ Answer(c, "stored", 0) /\ Acknowledge(c)
    /\ UNCHANGED <<owner, raft, health, store, issued>>

(* Mutant: only a wait for an entry that was committed ends. *)
WaitTimesOutLate(c) ==
    /\ req[c].pc = "wait" /\ req[c].at \in up /\ req[c].index <= Len(log)
    /\ Answer(c, "timeout", 0)
    /\ UNCHANGED <<owner, raft, health, store, acked, issued>>

WaitTimesOut(c) ==
    /\ req[c].pc = "wait" /\ req[c].at \in up
    /\ Answer(c, "timeout", 0)
    /\ UNCHANGED <<owner, raft, health, store, acked, issued>>

(* The process that holds the request is gone: the connection breaks. *)
ConnectionLost(c) ==
    /\ req[c].pc \notin {"idle", "answered"} /\ req[c].at \notin up
    /\ Answer(c, "unavailable", 0)
    /\ UNCHANGED <<owner, raft, health, store, acked, issued>>

-----------------------------------------------------------------------------
(* probeAll: every node of the ring, one probe each. *)

(* Mutant: a node once marked stays marked. *)
ProbeForGood(n, m) ==
    /\ n \in up
    /\ \E ok \in {m \in up, m \in up /\ ~SlowProbes} :
          /\ healthy' = [healthy EXCEPT ![n][m] = @ /\ ok]
          /\ failures' = [failures EXCEPT ![n][m] = IF ok THEN 0 ELSE IF @ = 2 THEN 2 ELSE @ + 1]
    /\ UNCHANGED <<owner, raft, up, crashes, store, req, acked, issued>>

Probe(n, m) ==
    /\ n \in up
    /\ \E ok \in {m \in up, m \in up /\ ~SlowProbes} :
          /\ healthy' = [healthy EXCEPT ![n][m] = ok]
          /\ failures' = [failures EXCEPT ![n][m] = IF ok THEN 0 ELSE IF @ = 2 THEN 2 ELSE @ + 1]
    /\ UNCHANGED <<owner, raft, up, crashes, store, req, acked, issued>>

Crash(n) ==
    /\ n \in up /\ crashes < MaxCrashes
    /\ up' = up \ {n} /\ crashes' = crashes + 1
    /\ leader' = IF leader = n THEN None ELSE leader
    /\ UNCHANGED <<owner, leaderID, proposals, log, commitIndex, applied, leaders, healthy,
                   failures, store, req, acked, issued>>

(* main: every Node starts out healthy; the event store is rebuilt from    *)
(* its WAL; RaftNode starts at commitIndex 0 and delivers the log again.   *)
Restart(n) ==
    /\ n \notin up
    /\ up' = up \cup {n}
    /\ healthy' = [healthy EXCEPT ![n] = [m \in Nodes |-> TRUE]]
    /\ failures' = [failures EXCEPT ![n] = [m \in Nodes |-> 0]]
    /\ leaderID' = [leaderID EXCEPT ![n] = None]
    /\ commitIndex' = [commitIndex EXCEPT ![n] = 0] /\ applied' = [applied EXCEPT ![n] = 0]
    /\ UNCHANGED <<owner, leader, proposals, log, leaders, crashes, store, req, acked, issued>>

-----------------------------------------------------------------------------
Serve(c) == \/ Route(c) \/ ForwardPut(c) \/ ForwardGet(c) \/ Redirect(c) \/ Propose(c)
            \/ ReadIndex(c) \/ WaitForIndex(c) \/ WaitTimesOut(c) \/ ConnectionLost(c)

Next ==
    \/ \E c \in Clients : Send(c) \/ Serve(c)
    \/ \E n \in Nodes : Elected(n) \/ Heartbeat(n) \/ Apply(n) \/ Crash(n) \/ Restart(n)
    \/ StepsDown \/ Commit
    \/ \E n, m \in Nodes : Probe(n, m)

Spec == Init /\ [][Next]_vars

-----------------------------------------------------------------------------
(* The puts on a path, in the order it stored them. *)
Order(path, k) == IF path = "raft" THEN log ELSE store[owner[k]]

Position(puts, k, v) == Max({0} \cup {i \in DOMAIN puts : puts[i].key = k /\ puts[i].val = v})

Reads == {c \in Clients : req[c].op = "get" /\ req[c].answer \in {"value", "notFound"}}

(* On each path alone a read returns a put at least as recent as every put  *)
(* of the key that was acknowledged on that path before the read was sent:  *)
(* redirects, failovers, restarts and state machines that lag lose none     *)
(* (serveUnifiedIngest, UnifiedKVHandler, Forward and ForwardGet).  On the  *)
(* Raft path this is said of leaders that have committed an entry of their  *)
(* own term; RaftNode.ReadIndex does not ask for one, and until then its    *)
(* commitIndex may be behind what an earlier leader acknowledged.           *)
PathConsistent ==
    \A c \in {x \in Reads : req[x].path = "raft" => req[x].own} :
        \A a \in {x \in req[c].floor : x.path = req[c].path} :
            LET puts == Order(a.path, a.key)
            IN  Position(puts, a.key, a.val) <= Position(puts, a.key, req[c].result)

(* The event store of a process holds keys of its own only: a request for   *)
(* an owner that is down is refused, never stored elsewhere (ServeHTTP).    *)
DataAtOwner ==
    /\ \A n \in Nodes : \A i \in DOMAIN store[n] : owner[store[n][i].key] = n
    /\ \A c \in Clients : req[c].pc \in {"raft", "wait"} => req[c].at = owner[req[c].key]

=============================================================================
