----------------------------- MODULE RaftConfig -----------------------------
(***************************************************************************)
(* Membership changes by joint consensus: raft/cluster_config.go, the      *)
(* configuration half of raft/node.go, PeerClients of raft/client.go and   *)
(* the handler of POST /raft/config.                                       *)
(*                                                                         *)
(* A node is identified with its address.  Client commands are all alike.  *)
(* An RPC and the handling of its reply are one step, and a Replicate step *)
(* carries a peer all the way to the end of the leader's log: the          *)
(* interleavings below that are the subject of RaftCore.                   *)
(***************************************************************************)
EXTENDS Integers, Sequences, FiniteSets

CONSTANTS
    Nodes,         \* every node that is ever started
    Members,       \* the static peer list the first cluster was started with
    First,         \* the member that leads when the behaviour begins
    Requests,      \* the POST /raft/config requests
    AddSets,       \* the node lists an "add" request may carry
    RemoveSets,    \* the node lists a "remove" request may carry
    Candidates,    \* the nodes whose election timer may fire
    Crashers,      \* the nodes that may crash and restart
    Timeouts,      \* may the waits of a change run out, or its client go away
    SlowElections, \* may an election end before everyone has answered
    MaxTerm,       \* bound on terms
    MaxCrashes,    \* bound on crashes
    MaxCommands,   \* bound on client commands
    None

VARIABLES
    term, votedFor, log,      \* on disk
    role, commit,             \* currentTerm's companions in memory
    config,                   \* clusterConfig
    clients,                  \* the addresses PeerClients has dialed
    peers,                    \* the list runCandidate or runLeader works with
    ballot,                   \* runCandidate: its cfg, and who answered and granted
    match,                    \* matchIndex
    resume,                   \* the auto-resume goroutines of a node
    req,                      \* the requests
    crashes, commands         \* how many there were

vars == <<term, votedFor, log, role, commit, config, clients, peers, ballot,
          match, resume, req, crashes, commands>>

Stable(V) == [phase |-> "stable", voters |-> V, newVoters |-> {}]
Joint(V, W) == [phase |-> "joint", voters |-> V, newVoters |-> W]
IsJoint(c) == c.phase = "joint"

(* What an entry that is not a configuration entry carries in its place. *)
Command == [phase |-> "command", voters |-> {}, newVoters |-> {}]
ConfigEntries(s) == SelectSeq(s, LAMBDA e : e.config # Command)

OldQuorumSize(c) == ((Cardinality(c.voters) + 1) \div 2) + 1
NewQuorumSize(c) == ((Cardinality(c.newVoters) + 1) \div 2) + 1

(* Mutant: the joint phase asks for the old majority only. *)
quorumForOld(c, ack) ==
    1 + Cardinality(c.voters \cap ack) >= OldQuorumSize(c)

quorumFor(c, ack) ==
    /\ 1 + Cardinality(c.voters \cap ack) >= OldQuorumSize(c)
    /\ IsJoint(c) => 1 + Cardinality(c.newVoters \cap ack) >= NewQuorumSize(c)

StaticConfig(n) == Stable(Members \ {n})

LastTerm(s) == IF s = <<>> THEN 0 ELSE s[Len(s)].term
UpToDate(s, t) ==
    \/ LastTerm(s) > LastTerm(t)
    \/ LastTerm(s) = LastTerm(t) /\ Len(s) >= Len(t)

(***************************************************************************)
(* applyConfigEntry, for the entries appended one after the other: the     *)
(* last one decides the configuration and every one of them dials its      *)
(* target voters.  No entry, no change.                                    *)
(***************************************************************************)
ConfigAfter(old, entries) ==
    LET cs == ConfigEntries(entries) IN
    IF cs = <<>> THEN old ELSE cs[Len(cs)].config

Target(c) == IF IsJoint(c) THEN c.newVoters ELSE c.voters

(* Mutant: dialing new voters closes the connections to all others. *)
DialedAfterOnly(old, entries) ==
    IF entries = <<>> THEN old
    ELSE UNION {Target(entries[i].config) : i \in DOMAIN entries}

DialedAfter(old, entries) ==
    old \cup UNION {Target(entries[i].config) : i \in DOMAIN entries}

-----------------------------------------------------------------------------
NoBallot == [cfg |-> Stable({}), answered |-> {}, granted |-> {}]
NoMatch == [p \in Nodes |-> 0]
Idle == [pc |-> "idle", at |-> None, action |-> "add", nodes |-> {},
         newVoters |-> {}, index |-> 0, term |-> 0]

Init ==
    /\ term = [n \in Nodes |-> IF n \in Members THEN 1 ELSE 0]
    /\ votedFor = [n \in Nodes |-> IF n \in Members THEN First ELSE None]
    /\ log = [n \in Nodes |-> <<>>]
    /\ role = [n \in Nodes |-> IF n = First THEN "leader" ELSE "follower"]
    /\ commit = [n \in Nodes |-> 0]
    /\ config = [n \in Nodes |-> StaticConfig(n)]
    /\ clients = [n \in Nodes |-> Members \ {n}]
    /\ peers = [n \in Nodes |-> IF n = First THEN Members \ {n} ELSE {}]
    /\ ballot = [n \in Nodes |-> NoBallot]
    /\ match = [n \in Nodes |-> NoMatch]
    /\ resume = [n \in Nodes |-> {}]
    /\ req = [r \in Requests |-> Idle]
    /\ crashes = 0
    /\ commands = 0

(***************************************************************************)
(* proposeEntry at a node that is the leader: append, and let the entry    *)
(* take effect at once.                                                    *)
(***************************************************************************)
proposeEntry(n, c) ==
    LET e == [term |-> term[n], config |-> c] IN
    /\ log' = [log EXCEPT ![n] = Append(@, e)]
    /\ config' = [config EXCEPT ![n] = ConfigAfter(@, <<e>>)]
    /\ clients' = [clients EXCEPT ![n] = DialedAfter(@, <<e>>)]

NoProposal == UNCHANGED <<log, config, clients>>

Propose(n) ==
    /\ commands < MaxCommands
    /\ role[n] = "leader"
    /\ proposeEntry(n, Command)
    /\ commands' = commands + 1
    /\ UNCHANGED <<term, votedFor, role, commit, peers, ballot, match, resume,
                   req, crashes>>

-----------------------------------------------------------------------------
(* The request arrives: ComputeNewVoters, in its own critical section. *)
NewVotersOf(c, action, nodes) ==
    IF action = "add" THEN c.voters \cup nodes ELSE c.voters \ nodes

ComputeNewVoters(r, n) ==
    /\ req[r].pc = "idle"
    /\ \E d \in ({"add"} \X AddSets) \cup ({"remove"} \X RemoveSets) :
          req' = [req EXCEPT ![r] =
                    [Idle EXCEPT !.pc = IF IsJoint(config[n]) THEN "refused"
                                        ELSE "computed",
                                 !.at = n, !.action = d[1], !.nodes = d[2],
                                 !.newVoters = NewVotersOf(config[n], d[1], d[2])]]
    /\ UNCHANGED <<term, votedFor, log, role, commit, config, clients, peers,
                   ballot, match, resume, crashes, commands>>

(* Mutant: a change is proposed while another is in its joint phase. *)
ProposeConfigChangeAnyPhase(r) ==
    /\ req[r].pc = "computed"
    /\ LET n == req[r].at IN
       IF role[n] # "leader"
         THEN /\ req' = [req EXCEPT ![r].pc = "refused"]
              /\ NoProposal
         ELSE /\ proposeEntry(n, Joint(config[n].voters, req[r].newVoters))
              /\ req' = [req EXCEPT ![r].pc = "joint",
                                    ![r].index = Len(log[n]) + 1]
    /\ UNCHANGED <<term, votedFor, role, commit, peers, ballot, match, resume,
                   crashes, commands>>

(* Phase A: refused unless this node leads and no change is under way. *)
ProposeConfigChange(r) ==
    /\ req[r].pc = "computed"
    /\ LET n == req[r].at IN
       IF role[n] # "leader" \/ IsJoint(config[n])
         THEN /\ req' = [req EXCEPT ![r].pc = "refused"]
              /\ NoProposal
         ELSE /\ proposeEntry(n, Joint(config[n].voters, req[r].newVoters))
              /\ req' = [req EXCEPT ![r].pc = "joint",
                                    ![r].index = Len(log[n]) + 1]
    /\ UNCHANGED <<term, votedFor, role, commit, peers, ballot, match, resume,
                   crashes, commands>>

(* Mutant: Phase B does not wait for the joint entry to commit. *)
ProposeStableEarly(r) ==
    /\ req[r].pc = "joint"
    /\ LET n == req[r].at IN
       IF role[n] # "leader"
         THEN /\ req' = [req EXCEPT ![r].pc = "failed"]
              /\ NoProposal
         ELSE /\ proposeEntry(n, Stable(req[r].newVoters))
              /\ req' = [req EXCEPT ![r].pc = "stable",
                                    ![r].index = Len(log[n]) + 1]
    /\ UNCHANGED <<term, votedFor, role, commit, peers, ballot, match, resume,
                   crashes, commands>>

(* Phase B: the joint entry's index is committed; the role is tested, the *)
(* term is not.                                                           *)
ProposeStable(r) ==
    /\ req[r].pc = "joint"
    /\ LET n == req[r].at IN
       /\ commit[n] >= req[r].index
       /\ IF role[n] # "leader"
            THEN /\ req' = [req EXCEPT ![r].pc = "failed"]
                 /\ NoProposal
            ELSE /\ proposeEntry(n, Stable(req[r].newVoters))
                 /\ req' = [req EXCEPT ![r].pc = "stable",
                                       ![r].index = Len(log[n]) + 1]
    /\ UNCHANGED <<term, votedFor, role, commit, peers, ballot, match, resume,
                   crashes, commands>>

containsSelf(n, newVoters) == n \in newVoters

StepDownIfRemoved(n, newVoters) ==
    role' = IF containsSelf(n, newVoters) THEN role
            ELSE [role EXCEPT ![n] = "follower"]

(* The change is done: step down when the new list lacks this node, answer *)
(* 204.                                                                    *)
FinishChange(r) ==
    /\ req[r].pc = "stable"
    /\ commit[req[r].at] >= req[r].index
    /\ StepDownIfRemoved(req[r].at, req[r].newVoters)
    /\ req' = [req EXCEPT ![r].pc = "ok"]
    /\ UNCHANGED <<term, votedFor, log, commit, config, clients, peers, ballot,
                   match, resume, crashes, commands>>

(* A wait for a commit runs out, or the client goes away: the goroutine ends  *)
(* and nothing is undone; before Phase B the change is left in the middle.    *)
GiveUp(r) ==
    /\ Timeouts
    /\ req[r].pc \in {"joint", "stable"}
    /\ req' = [req EXCEPT ![r].pc = IF req[r].pc = "joint" THEN "abandoned" ELSE "failed",
                          ![r].term = term[req[r].at]]
    /\ UNCHANGED <<term, votedFor, log, role, commit, config, clients, peers,
                   ballot, match, resume, crashes, commands>>

-----------------------------------------------------------------------------
(* The auto-resume goroutine of runLeader: proposeStableConfig. *)
ResumeProposes(n, g) ==
    /\ g.pc = "propose"
    /\ IF role[n] # "leader"
         THEN /\ resume' = [resume EXCEPT ![n] = @ \ {g}]
              /\ NoProposal
         ELSE /\ proposeEntry(n, Stable(g.newVoters))
              /\ resume' = [resume EXCEPT ![n] =
                   (@ \ {g}) \cup {[g EXCEPT !.pc = "wait", !.index = Len(log[n]) + 1]}]
    /\ UNCHANGED <<term, votedFor, role, commit, peers, ballot, match, req,
                   crashes, commands>>

ResumeFinishes(n, g) ==
    /\ g.pc = "wait"
    /\ \E expired \in {FALSE, Timeouts} :
          IF expired THEN UNCHANGED role
          ELSE commit[n] >= g.index /\ StepDownIfRemoved(n, g.newVoters)
    /\ resume' = [resume EXCEPT ![n] = @ \ {g}]
    /\ UNCHANGED <<term, votedFor, log, commit, config, clients, peers, ballot,
                   match, req, crashes, commands>>

-----------------------------------------------------------------------------
(* runLeader finds the joint phase: it will propose the target voters. *)
(* Mutant: no auto-resume. *)
ResumptionNever(n) == {}

Resumption(n) ==
    IF config[n].newVoters = {} THEN {}
    ELSE {[pc |-> "propose", newVoters |-> config[n].newVoters, index |-> 0]}

(* runLeader's preamble; the peer list it works with until it is deposed is *)
(* the one the election was held with.                                      *)
BecomeLeader(n, t, others) ==
    /\ role' = [others EXCEPT ![n] = "leader"]
    /\ match' = [match EXCEPT ![n] = NoMatch]
    /\ resume' = [resume EXCEPT ![n] = @ \cup Resumption(n)]

(* runCandidate up to its select loop; a node without voters wins at once. *)
StartElection(n) ==
    /\ n \in Candidates
    /\ term[n] < MaxTerm
    /\ \/ role[n] = "follower"
       \/ role[n] = "candidate" /\ (SlowElections \/ ballot[n].answered = peers[n])
    /\ term' = [term EXCEPT ![n] = @ + 1]
    /\ votedFor' = [votedFor EXCEPT ![n] = n]
    /\ peers' = [peers EXCEPT ![n] = clients[n]]
    /\ ballot' = [ballot EXCEPT ![n] = [NoBallot EXCEPT !.cfg = config[n]]]
    /\ IF quorumFor(config[n], {})
         THEN BecomeLeader(n, term[n] + 1, role)
         ELSE /\ role' = [role EXCEPT ![n] = "candidate"]
              /\ UNCHANGED <<match, resume>>
    /\ UNCHANGED <<log, commit, config, clients, req, crashes, commands>>

(***************************************************************************)
(* One RequestVote round trip.  p = n happens when n has dialed itself: it *)
(* grants its own request, and the grant also signals resetCh, on which    *)
(* runCandidate steps down if it reads that signal before the answer.      *)
(***************************************************************************)
RequestVote(n, p) ==
    /\ role[n] = "candidate"
    /\ p \in peers[n] \ ballot[n].answered
    /\ IF term[p] > term[n]
       THEN /\ term' = [term EXCEPT ![n] = term[p]]
            /\ votedFor' = [votedFor EXCEPT ![n] = None]
            /\ role' = [role EXCEPT ![n] = "follower"]
            /\ UNCHANGED <<ballot, match, resume>>
       ELSE LET free == term[p] < term[n] \/ votedFor[p] \in {None, n}
                grant == free /\ UpToDate(log[n], log[p])
                granted == ballot[n].granted \cup (IF grant THEN {p} ELSE {})
                demoted == IF term[p] < term[n] THEN [role EXCEPT ![p] = "follower"] ELSE role
            IN
            /\ term' = [term EXCEPT ![p] = term[n]]
            /\ votedFor' = [votedFor EXCEPT ![p] = IF grant THEN n
                                                  ELSE IF term[p] < term[n] THEN None ELSE @]
            /\ ballot' = [ballot EXCEPT ![n].answered = @ \cup {p}, ![n].granted = granted]
            /\ \E reset \in {FALSE, p = n} :
                 IF reset
                 THEN /\ role' = [role EXCEPT ![n] = "follower"]
                      /\ UNCHANGED <<match, resume>>
                 ELSE IF quorumFor(ballot[n].cfg, granted)
                 THEN BecomeLeader(n, term[n], demoted)
                 ELSE /\ role' = demoted
                      /\ UNCHANGED <<match, resume>>
    /\ UNCHANGED <<log, commit, config, clients, peers, req, crashes, commands>>

-----------------------------------------------------------------------------
(***************************************************************************)
(* One AppendEntries exchange of leader n with p, carried to the end of    *)
(* n's log.  The entries p did not have are appended and their             *)
(* configurations take effect; what p had in their place is cut off, and   *)
(* the configuration those entries set is not taken back.                  *)
(***************************************************************************)
Agree(s, t) ==
    CHOOSE k \in 0..Len(s) :
        /\ k <= Len(t) /\ SubSeq(s, 1, k) = SubSeq(t, 1, k)
        /\ k = Len(s) \/ k = Len(t) \/ s[k + 1] # t[k + 1]

(* Mutant: a follower takes a configuration over on commit, not on append. *)
HandleAppendEntriesOnCommit(n, p) ==
    LET k == Agree(log[n], log[p])
        new == SubSeq(log[n], k + 1, Len(log[n]))
        known == commit'[p]
    IN
    /\ log' = [log EXCEPT ![p] = IF new = <<>> THEN @ ELSE log[n]]
    /\ config' = [config EXCEPT ![p] = ConfigAfter(@, SubSeq(log[n], 1, known))]
    /\ clients' = [clients EXCEPT ![p] = DialedAfter(@, SubSeq(log[n], 1, known))]

HandleAppendEntries(n, p) ==
    LET new == SubSeq(log[n], Agree(log[n], log[p]) + 1, Len(log[n])) IN
    /\ log' = [log EXCEPT ![p] = IF new = <<>> THEN @ ELSE log[n]]
    /\ config' = [config EXCEPT ![p] = ConfigAfter(@, new)]
    /\ clients' = [clients EXCEPT ![p] = DialedAfter(@, new)]

(* maybeAdvanceCommitIndex: the highest entry of this term a quorum holds. *)
Advanced(n, m) ==
    LET held == {i \in commit[n] + 1 .. Len(log[n]) :
                   /\ log[n][i].term = term[n]
                   /\ quorumFor(config[n], {p \in Nodes : m[p] >= i})}
    IN IF held = {} THEN commit[n] ELSE CHOOSE i \in held : \A j \in held : j <= i

Replicate(n, p) ==
    /\ role[n] = "leader"
    /\ p \in peers[n]
    /\ IF term[p] > term[n]
       THEN /\ term' = [term EXCEPT ![n] = term[p]]
            /\ votedFor' = [votedFor EXCEPT ![n] = None]
            /\ role' = [role EXCEPT ![n] = "follower"]
            /\ UNCHANGED <<log, config, clients, match, commit>>
       ELSE LET m == [match[n] EXCEPT ![p] = Len(log[n])] IN
            /\ term' = [term EXCEPT ![p] = term[n]]
            /\ votedFor' = [votedFor EXCEPT ![p] = IF term[p] < term[n] THEN None ELSE @]
            /\ role' = [role EXCEPT ![p] = "follower"]
            /\ match' = [match EXCEPT ![n] = m]
            /\ commit' = [q \in Nodes |->
                  CASE q = n -> Advanced(n, m)
                    [] q = p /\ p # n /\ commit[n] > commit[p] -> commit[n]
                    [] OTHER -> commit[q]]
            /\ HandleAppendEntries(n, p)
    /\ UNCHANGED <<peers, ballot, resume, req, crashes, commands>>

(* A leader without peers commits on its own tick. *)
CommitAlone(n) ==
    /\ role[n] = "leader"
    /\ peers[n] = {}
    /\ commit' = [commit EXCEPT ![n] = Advanced(n, match[n])]
    /\ UNCHANGED <<term, votedFor, log, role, config, clients, peers, ballot,
                   match, resume, req, crashes, commands>>

(***************************************************************************)
(* n stops and starts again: NewRaftNode takes the static configuration    *)
(* and applies every configuration entry of its log over it.  The clients  *)
(* of its requests see their connections break.                            *)
(***************************************************************************)
(* Mutant: the log is loaded but its configuration entries not applied. *)
RestartedConfigStatic(n) == StaticConfig(n)

RestartedConfig(n) == ConfigAfter(StaticConfig(n), log[n])

Crash(n) ==
    /\ n \in Crashers
    /\ crashes < MaxCrashes
    /\ crashes' = crashes + 1
    /\ role' = [role EXCEPT ![n] = "follower"]
    /\ commit' = [commit EXCEPT ![n] = 0]
    /\ config' = [config EXCEPT ![n] = RestartedConfig(n)]
    /\ clients' = [clients EXCEPT ![n] = DialedAfter(Members \ {n}, log[n])]
    /\ peers' = [peers EXCEPT ![n] = {}]
    /\ ballot' = [ballot EXCEPT ![n] = NoBallot]
    /\ match' = [match EXCEPT ![n] = NoMatch]
    /\ resume' = [resume EXCEPT ![n] = {}]
    /\ req' = [r \in Requests |->
          IF req[r].at = n /\ req[r].pc \in {"computed", "joint", "stable", "abandoned"}
            THEN [req[r] EXCEPT !.pc = "failed"] ELSE req[r]]
    /\ UNCHANGED <<term, votedFor, log, commands>>

-----------------------------------------------------------------------------
ChangeSteps(r) ==
    \/ \E n \in Nodes : ComputeNewVoters(r, n)
    \/ ProposeConfigChange(r)
    \/ ProposeStable(r)
    \/ FinishChange(r)
    \/ GiveUp(r)

NodeSteps(n) ==
    \/ Propose(n)
    \/ StartElection(n)
    \/ \E p \in Nodes : RequestVote(n, p) \/ Replicate(n, p)
    \/ CommitAlone(n)
    \/ \E g \in resume[n] : ResumeProposes(n, g) \/ ResumeFinishes(n, g)
    \/ Crash(n)

Next ==
    \/ \E r \in Requests : ChangeSteps(r)
    \/ \E n \in Nodes : NodeSteps(n)

Spec == Init /\ [][Next]_vars

-----------------------------------------------------------------------------
ConfigType == [phase : {"stable", "joint"}, voters : SUBSET Nodes, newVoters : SUBSET Nodes]

(* The state has the shape the Go declarations give it, and no node's      *)
(* commitIndex runs past the end of its log.                               *)
TypeOK ==
    /\ term \in [Nodes -> 0..MaxTerm]
    /\ votedFor \in [Nodes -> Nodes \cup {None}]
    /\ role \in [Nodes -> {"follower", "candidate", "leader"}]
    /\ \A n \in Nodes :
         /\ config[n] \in ConfigType
         /\ \A i \in DOMAIN log[n] : log[n][i].config \in ConfigType \cup {Command}
         /\ commit[n] \in 0..Len(log[n])
         /\ clients[n] \subseteq Nodes /\ peers[n] \subseteq clients[n]
    /\ \A r \in Requests : req[r].pc \in
         {"idle", "computed", "joint", "stable", "ok", "abandoned", "failed", "refused"}

(* INV-CC1 of cluster_config.go: in no log does a stable configuration     *)
(* stand anywhere but right behind the joint one that leads to it (or a    *)
(* repetition of itself), so that no node goes from C_old to C_new         *)
(* directly.                                                               *)
NoConfigSkip ==
    \A n \in Nodes :
        LET cs == ConfigEntries(log[n]) IN
        \A i \in DOMAIN cs :
            ~IsJoint(cs[i].config) =>
                i > 1 /\ Target(cs[i - 1].config) = cs[i].config.voters

(* INV-CC3 of cluster_config.go: the configuration a node works with is    *)
(* the one its log ends in, after a restart as before it.                  *)
ConfigFollowsLog ==
    \A n \in Nodes : config[n] = ConfigAfter(StaticConfig(n), log[n])

(* The proposer of a joint configuration gave up, and its leader leads on. *)
Abandoned ==
    \E r \in Requests : /\ req[r].pc = "abandoned" /\ role[req[r].at] = "leader"
                        /\ term[req[r].at] = req[r].term

IsMajority(S, M) == 2 * Cardinality(S \cap M) > Cardinality(M)

HoldersOf(n, i) ==
    {m \in Nodes : i <= Len(log[m]) /\ log[m][i] = log[n][i]}

(* The heart of joint consensus (maybeAdvanceCommitIndex with quorumFor):  *)
(* a joint entry the leader of the first term knows as committed is held   *)
(* by a majority of the old members and by one of the new members, the     *)
(* leader counted in both, and a stable one by a majority of the new.      *)
CommittedByMajorities ==
    \A n \in Nodes : \A i \in 1..commit[n] :
        LET c == log[n][i].config IN
        /\ c # Command => IsMajority(HoldersOf(n, i), c.voters \cup {First})
        /\ IsJoint(c) => IsMajority(HoldersOf(n, i), c.newVoters \cup {First})

=============================================================================
