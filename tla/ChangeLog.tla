------------------------------ MODULE ChangeLog ------------------------------
(***************************************************************************)
(* Change data capture (ADR-023): the change log that apply() publishes    *)
(* to and the SSE handler that replays its history and then follows it.    *)
(*                                                                         *)
(* An event is its offset, the Raft index of a successful write; offsets   *)
(* skip the entries that published nothing.  A connection is one GET       *)
(* /cdc/stream, with the offset it asks for (-1: none), the channel        *)
(* Subscribe made for it and what was written to the client.  Publish      *)
(* holds mu for the history and the list of subscribers, and sends after.  *)
(***************************************************************************)
EXTENDS Integers, FiniteSets, SequencesExt

CONSTANTS MaxConns, MaxOffset, MaxRestarts,
          HistoryLimit, BufSize, None

VARIABLES
    history,       \* ChangeLog.history
    baseOffset,    \* ChangeLog.baseOffset
    closed,        \* ChangeLog.closed
    subscribers,   \* the connections in ChangeLog.subscribers
    publishing,    \* None, or the event and the subscribers it is still to be sent to
    latest,        \* offset of the last entry handed to Publish
    published,     \* history variable: every offset ever published
    evicted,       \* history variable: the offsets dropped from history
    conns,         \* the connections so far, in the order they were made
    panicked,      \* a send hit a closed channel: the process is gone
    restarts

logVars == <<history, baseOffset, closed, subscribers>>
vars == <<logVars, publishing, latest, published, evicted, conns, panicked, restarts>>

Conns == 1..Len(conns)

(* A restarted node applies entries again; those that published do so again. *)
NextOffsets ==
    LET again == { e \in published : e > latest }
    IN  IF again = {} THEN (latest + 1)..MaxOffset ELSE {Min(again)}

-----------------------------------------------------------------------------
(* Publish, called by apply() with growing offsets. *)
(* Mutant: baseOffset is not moved when an event is evicted. *)
RecordStale(offset) ==
    LET grown == Append(history, offset)
    IN  /\ history' = IF Len(grown) > HistoryLimit THEN Tail(grown) ELSE grown
        /\ evicted' = IF Len(grown) > HistoryLimit THEN evicted \cup {Head(grown)} ELSE evicted
        /\ baseOffset' = IF history = << >> THEN offset ELSE baseOffset

Record(offset) ==
    LET grown == Append(history, offset)
    IN  /\ history' = IF Len(grown) > HistoryLimit THEN Tail(grown) ELSE grown
        /\ evicted' = IF Len(grown) > HistoryLimit THEN evicted \cup {Head(grown)} ELSE evicted
        /\ baseOffset' = Head(history')

(* The history variable missed: published after a replay, before its Subscribe. *)
Passed(offset) ==
    [c \in Conns |-> IF conns[c].pc = "subscribe" /\ conns[c].from >= 0
                     THEN [conns[c] EXCEPT !.missed = @ \cup {offset}] ELSE conns[c]]

Publish ==
    /\ ~panicked /\ publishing = None
    /\ \E offset \in NextOffsets :
        /\ latest' = offset
        /\ IF closed THEN UNCHANGED <<history, evicted, baseOffset, publishing, published, conns>>
           ELSE /\ Record(offset)
                /\ publishing' = [event |-> offset, left |-> subscribers]
                /\ published' = published \cup {offset}
                /\ conns' = Passed(offset)
    /\ UNCHANGED <<closed, subscribers, panicked, restarts>>

(* Mutant: the send waits for room in the channel. *)
SendBlocking ==
    /\ ~panicked /\ publishing # None
    /\ \E c \in publishing.left :
        /\ publishing' = [publishing EXCEPT !.left = @ \ {c}]
        /\ IF conns[c].shut THEN panicked' = TRUE /\ UNCHANGED conns
           ELSE /\ Len(conns[c].buf) < BufSize
                /\ conns' = [conns EXCEPT ![c].buf = Append(@, publishing.event)]
                /\ UNCHANGED panicked
    /\ UNCHANGED <<logVars, latest, published, evicted, restarts>>

Send ==
    /\ ~panicked /\ publishing # None
    /\ \E c \in publishing.left :
        /\ publishing' = [publishing EXCEPT !.left = @ \ {c}]
        /\ IF conns[c].shut THEN panicked' = TRUE /\ UNCHANGED conns
           ELSE /\ conns' = IF Len(conns[c].buf) < BufSize
                            THEN [conns EXCEPT ![c].buf = Append(@, publishing.event)]
                            ELSE [conns EXCEPT ![c].dropped = @ \cup {publishing.event}]
                /\ UNCHANGED panicked
    /\ UNCHANGED <<logVars, latest, published, evicted, restarts>>

PublishReturns ==
    /\ ~panicked /\ publishing # None /\ publishing.left = {}
    /\ publishing' = None
    /\ UNCHANGED <<logVars, latest, published, evicted, conns, panicked, restarts>>

-----------------------------------------------------------------------------
(* serveStream: a resume asks for an offset up to the one after the last event. *)
Connect ==
    /\ ~panicked /\ Len(conns) < MaxConns
    /\ \E from \in -1..(Max(published \cup {latest}) + 1) :
        conns' = Append(conns, [pc |-> IF from >= 0 THEN "replay" ELSE "subscribe", from |-> from,
                                got |-> << >>, buf |-> << >>, shut |-> FALSE, dropped |-> {},
                                missed |-> {}])
    /\ UNCHANGED <<logVars, publishing, latest, published, evicted, panicked, restarts>>

(* Mutant: the event at the requested offset is left out. *)
ReplayFromAfter(start) ==
    IF history # << >> /\ start < baseOffset THEN None
    ELSE SelectSeq(history, LAMBDA offset : offset > start)

ReplayFrom(start) ==
    IF history # << >> /\ start < baseOffset THEN None
    ELSE SelectSeq(history, LAMBDA offset : offset >= start)

Replay(c) ==
    /\ ~panicked /\ conns[c].pc = "replay"
    /\ LET events == ReplayFrom(conns[c].from)
       IN  conns' = IF events = None THEN [conns EXCEPT ![c].pc = "refused"]
                    ELSE [conns EXCEPT ![c].pc = "subscribe", ![c].got = events]
    /\ UNCHANGED <<logVars, publishing, latest, published, evicted, panicked, restarts>>

Subscribe(c) ==
    /\ ~panicked /\ conns[c].pc = "subscribe"
    /\ conns' = [conns EXCEPT ![c].pc = IF closed THEN "unavailable" ELSE "live"]
    /\ subscribers' = IF closed THEN subscribers ELSE subscribers \cup {c}
    /\ UNCHANGED <<history, baseOffset, closed, publishing, latest, published, evicted, panicked,
                   restarts>>

(* Mutant: two buffered events are written newest first. *)
DeliverNewest(c) ==
    /\ ~panicked /\ conns[c].pc = "live" /\ conns[c].buf # << >>
    /\ conns' = [conns EXCEPT ![c].got = Append(@, Last(conns[c].buf)), ![c].buf = Front(@)]
    /\ UNCHANGED <<logVars, publishing, latest, published, evicted, panicked, restarts>>

Deliver(c) ==
    /\ ~panicked /\ conns[c].pc = "live" /\ conns[c].buf # << >>
    /\ conns' = [conns EXCEPT ![c].got = Append(@, Head(conns[c].buf)), ![c].buf = Tail(@)]
    /\ UNCHANGED <<logVars, publishing, latest, published, evicted, panicked, restarts>>

(* The receive reports a closed channel once its buffer is empty. *)
StreamEnds(c) ==
    /\ ~panicked /\ conns[c].pc = "live" /\ conns[c].buf = << >> /\ conns[c].shut
    /\ conns' = [conns EXCEPT ![c].pc = "ended"]
    /\ UNCHANGED <<logVars, publishing, latest, published, evicted, panicked, restarts>>

(* The client leaves; the deferred Unsubscribe closes the channel. *)
Disconnect(c) ==
    /\ ~panicked /\ conns[c].pc = "live"
    /\ conns' = [conns EXCEPT ![c].pc = "ended", ![c].shut = TRUE]
    /\ subscribers' = subscribers \ {c}
    /\ UNCHANGED <<history, baseOffset, closed, publishing, latest, published, evicted, panicked,
                   restarts>>

(* Mutant: the channels of the subscribers are left open. *)
CloseQuietly ==
    /\ ~panicked /\ ~closed
    /\ closed' = TRUE
    /\ subscribers' = {}
    /\ UNCHANGED <<history, baseOffset, publishing, latest, published, evicted, conns, panicked,
                   restarts>>

Close ==
    /\ ~panicked /\ ~closed
    /\ closed' = TRUE
    /\ conns' = [c \in Conns |-> [conns[c] EXCEPT !.shut = @ \/ c \in subscribers]]
    /\ subscribers' = {}
    /\ UNCHANGED <<history, baseOffset, publishing, latest, published, evicted, panicked, restarts>>

(* A new process: an empty change log, and the entries from some index on again. *)
Restart ==
    /\ restarts < MaxRestarts /\ restarts' = restarts + 1
    /\ history' = << >> /\ baseOffset' = 0 /\ closed' = FALSE /\ subscribers' = {}
    /\ publishing' = None /\ panicked' = FALSE
    /\ \E base \in 0..latest : latest' = base
    /\ conns' = [c \in Conns |->
                    IF conns[c].pc \in {"refused", "unavailable"} THEN conns[c]
                    ELSE [conns[c] EXCEPT !.pc = "ended", !.shut = TRUE]]
    /\ UNCHANGED <<published, evicted>>

Init ==
    /\ history = << >> /\ baseOffset = 0 /\ closed = FALSE /\ subscribers = {}
    /\ publishing = None /\ latest = 0 /\ published = {} /\ evicted = {}
    /\ conns = << >> /\ panicked = FALSE /\ restarts = 0

Stream(c) == Replay(c) \/ Subscribe(c) \/ Deliver(c) \/ StreamEnds(c)

Next ==
    \/ Publish \/ Send \/ PublishReturns \/ Connect \/ Close \/ Restart
    \/ \E c \in Conns : Stream(c) \/ Disconnect(c)

Spec == Init /\ [][Next]_vars

-----------------------------------------------------------------------------
(* Shapes; the history is bounded and subscribers are the open live channels. *)
TypeOK ==
    /\ Len(history) <= HistoryLimit /\ latest \in 0..MaxOffset
    /\ \A c \in Conns :
        /\ Len(conns[c].buf) <= BufSize
        /\ conns[c].pc \in {"replay", "subscribe", "live", "refused", "unavailable", "ended"}
        /\ c \in subscribers <=> conns[c].pc = "live" /\ ~conns[c].shut

Increasing(s) == \A i \in 1..(Len(s) - 1) : s[i] < s[i + 1]

Received(c) == conns[c].got \o conns[c].buf

InOrder == \A c \in Conns : Increasing(Received(c))

(* INV-CDC2 and INV-CDC7: a stream writes each event once and in offset     *)
(* order, none of it below the offset it was asked to resume from, although *)
(* the replayed part and the live part come from different copies.          *)
StreamOrdered ==
    /\ InOrder
    /\ \A c \in Conns : \A e \in Range(Received(c)) : e >= conns[c].from

(* INV-CDC6: the history is the tail of what was published, and baseOffset  *)
(* is where it starts: ReplayFrom leaves out no event from the offset on    *)
(* unless it refuses, and it refuses whenever one of them was evicted (and  *)
(* for any other offset below baseOffset, evicted events or not).           *)
HistoryIsTail ==
    /\ Increasing(history) /\ Range(history) = published \ evicted
    /\ \A e \in evicted, h \in Range(history) : e < h
    /\ history # << >> => baseOffset = Head(history)

(* What a resumed stream can lack ("replay events from offset N, then       *)
(* live"): up to the last event it has, it has every event from the offset  *)
(* it asked for, but for those its full buffer dropped and those published  *)
(* after ReplayFrom gave up mu and before Subscribe took it, which neither  *)
(* part of serveStream sees.                                                *)
NoSilentGap ==
    \A c \in Conns :
        LET have == Range(Received(c))
        IN  conns[c].from >= 0 =>
                \A e \in published :
                    e >= conns[c].from /\ (\E h \in have : h > e) =>
                        e \in have \cup conns[c].dropped \cup conns[c].missed

=============================================================================
