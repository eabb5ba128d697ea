----------------------------- MODULE EventStore -----------------------------
(***************************************************************************)
(* storage/kv.Store over the ingestion WAL, a Bitcask: WriteEvent appends  *)
(* the event under the writer's lock and then, under the index's own lock, *)
(* points the index at it; Get copies the index and read handle pointers   *)
(* and reads outside every lock; Compact holds the writer's lock while it  *)
(* rewrites the file and swaps the pointers; Recover replays the file.     *)
(*                                                                         *)
(* Each compaction makes a new generation of the file, with an index and a *)
(* read handle of its own.                                                 *)
(***************************************************************************)
EXTENDS WalFile, SequencesExt

CONSTANTS Keys, Writers,
          MaxKeys,         \* NewStore's limit on the index
          MaxWrites, MaxCompactions, MaxCrashes,
          SharedKeys,      \* may two WriteEvents of one source overlap?
          CompactInGap,    \* may Compact run while a WriteEvent has yet to index?
          DiskFaults,      \* may a write, or the opening of a compacted file, fail?
          None

VARIABLES
    files,      \* the generations of the file; the last one is what walPath names
    index,      \* the hash index of each generation: key -> offset
    cur,        \* the generation Store.index and Store.readFile belong to
    wgen,       \* the generation Writer.file appends to
    closed,     \* generations whose read handle is closed
    tracker,    \* Writer.sizeTracker
    synced,     \* how many pieces of Writer.file an fsync has covered
    writes,     \* how many events were written
    writing,    \* each writer's WriteEvent between append and index update
    getting,    \* the Get under way: None, or its snapshot of the pointers
    got,        \* how the last Get ended
    compacting, \* None, or the stage Compact has reached
    compacted,  \* how many compactions have begun
    acked,      \* history: per key, the newest write that returned nil
    durable,    \* history: per key, the newest such write an fsync has covered
    crashes, up

file == files[Len(files)]
storeVars == <<index, cur, closed>>
walVars == <<files, wgen, tracker, synced>>
clientVars == <<writing, getting, got>>
historyVars == <<acked, durable>>
vars == <<walVars, storeVars, clientVars, historyVars, writes, compacting, compacted, crashes, up>>

Event == [key : Keys, seq : 1..MaxWrites, size : {1}]

EmptyIndex == << >>

MaxOf(S) == IF S = {} THEN 0 ELSE Max(S)

SeqsOf(f, k) == {f[n].rec.seq : n \in {m \in 1..Len(f) : f[m].rec.key = k /\ ~Torn(f[m])}}

(* HashIndex.Set: only a new key can find the index full. *)
Fits(ix, k) == k \in DOMAIN ix \/ Cardinality(DOMAIN ix) < MaxKeys

(* Mutant: a key that is there keeps its offset. *)
PutFirst(ix, k, offset) == [j \in DOMAIN ix \cup {k} |-> IF j \in DOMAIN ix THEN ix[j] ELSE offset]

Put(ix, k, offset) == [j \in DOMAIN ix \cup {k} |-> IF j = k THEN offset ELSE ix[j]]

(***************************************************************************)
(* Recover: replay the whole records, pointing the index at each; stop     *)
(* with an error at a new key that no longer fits or a damaged record.     *)
(***************************************************************************)
Recovered(f) ==
    LET read == Scan(f)
        Step(acc, n) ==
            IF acc.err # "none" THEN acc
            ELSE IF Fits(acc.index, read.pieces[n].rec.key)
            THEN [acc EXCEPT !.index = Put(acc.index, read.pieces[n].rec.key,
                                           OffsetOf(read.pieces, n))]
            ELSE [acc EXCEPT !.err = "index full"]
        all == FoldLeft(Step, [index |-> EmptyIndex, err |-> "none"],
                        [n \in 1..Len(read.pieces) |-> n])
    IN  IF all.err = "none" THEN [all EXCEPT !.err = read.err] ELSE all

Init ==
    /\ files = << << >> >> /\ index = <<EmptyIndex>>
    /\ cur = 1 /\ wgen = 1 /\ closed = {}
    /\ tracker = 0 /\ synced = 0 /\ writes = 0
    /\ writing = [w \in Writers |-> None]
    /\ getting = None /\ got = None
    /\ compacting = None /\ compacted = 0
    /\ acked = [k \in Keys |-> 0] /\ durable = [k \in Keys |-> 0]
    /\ crashes = 0 /\ up = TRUE

(* RunExclusiveSwap holds the writer's lock for the whole compaction. *)
WriterUnlocked == compacting = None

WriteEventOffset(w, k) ==
    LET rec == [key |-> k, seq |-> writes + 1, size |-> 1]
    IN  /\ up /\ WriterUnlocked /\ writing[w] = None /\ writes < MaxWrites
        /\ SharedKeys \/ \A v \in Writers : writing[v] # None => writing[v].key # k
        /\ files' = [files EXCEPT ![wgen] = Append(@, Piece(rec))]
        /\ tracker' = tracker + Measure(rec)
        /\ writing' = [writing EXCEPT ![w] = [key |-> k, seq |-> rec.seq, offset |-> tracker]]
        /\ writes' = writes + 1
        /\ UNCHANGED <<wgen, synced, storeVars, getting, got, historyVars, compacting,
                       compacted, crashes, up>>

(* A short or failed write: what reached the file stays, uncounted. *)
WriteEventFails ==
    \E k \in Keys :
        LET rec == [key |-> k, seq |-> writes + 1, size |-> 1]
        IN  /\ up /\ WriterUnlocked /\ writes < MaxWrites
            /\ files' = [files EXCEPT ![wgen] = Append(@, [Piece(rec) EXCEPT !.kept = 1])]
            /\ writes' = writes + 1
            /\ UNCHANGED <<wgen, tracker, synced, storeVars, clientVars, historyVars,
                           compacting, compacted, crashes, up>>

(* The rest of WriteEvent: the index the Store points at by now is updated. *)
IndexEvent(w) ==
    /\ up /\ writing[w] # None
    /\ LET k == writing[w].key
           fits == Fits(index[cur], k)
       IN  /\ index' = IF fits THEN [index EXCEPT ![cur] = Put(@, k, writing[w].offset)] ELSE index
           /\ acked' = IF fits THEN [acked EXCEPT ![k] = MaxOf({@, writing[w].seq})] ELSE acked
    /\ writing' = [writing EXCEPT ![w] = None]
    /\ UNCHANGED <<walVars, cur, closed, getting, got, durable, writes, compacting, compacted,
                   crashes, up>>

(* The sync ticker; it takes the writer's lock too. *)
Sync ==
    /\ up /\ WriterUnlocked /\ synced < Len(files[wgen])
    /\ synced' = Len(files[wgen])
    /\ durable' = [k \in Keys |-> acked[k]]
    /\ UNCHANGED <<files, wgen, tracker, storeVars, clientVars, acked, writes, compacting,
                   compacted, crashes, up>>

(* Get: the pointers are copied under mu.RLock ... *)
GetBegin(k) ==
    /\ up /\ getting = None /\ got = None
    /\ getting' = [key |-> k, gen |-> cur, floor |-> acked[k]]
    /\ UNCHANGED <<walVars, storeVars, writing, got, historyVars, writes, compacting, compacted,
                   crashes, up>>

(* Mutant: only the index pointer is copied, the read handle is taken when needed. *)
GetEndLate ==
    /\ up /\ getting # None
    /\ LET ix == index[getting.gen]
           found == getting.key \in DOMAIN ix
           read == ReadRecordAt(files[cur], ix[getting.key])
       IN  got' = [key |-> getting.key, floor |-> getting.floor,
                   status |-> IF ~found THEN "not found" ELSE read.status,
                   rec |-> IF found /\ read.status = "ok" THEN read.rec ELSE None]
    /\ getting' = None
    /\ UNCHANGED <<walVars, storeVars, writing, historyVars, writes, compacting, compacted,
                   crashes, up>>

(* ... and the index and the file they name are read with no lock held. *)
GetEnd ==
    /\ up /\ getting # None
    /\ LET ix == index[getting.gen]
           found == getting.key \in DOMAIN ix
           read == ReadRecordAt(files[getting.gen], ix[getting.key])
       IN  got' = [key |-> getting.key, floor |-> getting.floor,
                   status |-> IF ~found THEN "not found"
                              ELSE IF getting.gen \in closed THEN "closed" ELSE read.status,
                   rec |-> IF found /\ getting.gen \notin closed /\ read.status = "ok"
                           THEN read.rec ELSE None]
    /\ getting' = None
    /\ UNCHANGED <<walVars, storeVars, writing, historyVars, writes, compacting, compacted,
                   crashes, up>>

GetDone ==
    /\ got # None /\ got' = None
    /\ UNCHANGED <<walVars, storeVars, writing, getting, historyVars, writes, compacting,
                   compacted, crashes, up>>

(***************************************************************************)
(* Compact, first part: snapshot the index and copy each key's record, in  *)
(* the order the map yields them, to a temporary file that is then synced. *)
(***************************************************************************)
writeCompactedWAL(ix, order) ==
    [n \in 1..Len(order) |->
        Piece(ReadRecordAt(files[cur], ix[order[n]]).rec)]

CompactBegin ==
    /\ up /\ compacting = None /\ compacted < MaxCompactions
    /\ CompactInGap \/ \A w \in Writers : writing[w] = None
    /\ cur \notin closed
    /\ \A k \in DOMAIN index[cur] : ReadRecordAt(files[cur], index[cur][k]).status = "ok"
    /\ \E order \in SetToSeqs(DOMAIN index[cur]) :
           compacting' = [stage |-> "written", order |-> order,
                          temp |-> writeCompactedWAL(index[cur], order)]
    /\ compacted' = compacted + 1
    /\ UNCHANGED <<walVars, storeVars, clientVars, historyVars, writes, crashes, up>>

(* The temporary file becomes walPath and the old read handle is closed. *)
CompactRename ==
    /\ up /\ compacting # None /\ compacting.stage = "written"
    /\ files' = Append(files, compacting.temp)
    /\ closed' = closed \cup {cur}
    /\ compacting' = [compacting EXCEPT !.stage = "renamed"]
    /\ UNCHANGED <<index, cur, wgen, tracker, synced, clientVars, historyVars, writes,
                   compacted, crashes, up>>

newOffsets ==
    [k \in Range(compacting.order) |->
        OffsetOf(compacting.temp, CHOOSE n \in 1..Len(compacting.order) : compacting.order[n] = k)]

(* Mutant: RunExclusiveSwap leaves sizeTracker alone. *)
CompactSwapKeepingSize ==
    /\ up /\ compacting # None /\ compacting.stage = "renamed"
    /\ index' = Append(index, newOffsets)
    /\ cur' = Len(files) /\ wgen' = Len(files)
    /\ UNCHANGED tracker /\ synced' = Len(file)
    /\ compacting' = None
    /\ UNCHANGED <<files, closed, clientVars, historyVars, writes, compacted, crashes, up>>

(* Mutant: the index is not rebuilt. *)
CompactSwapOldIndex ==
    /\ up /\ compacting # None /\ compacting.stage = "renamed"
    /\ index' = Append(index, index[cur])
    /\ cur' = Len(files) /\ wgen' = Len(files)
    /\ tracker' = FileSize(file) /\ synced' = Len(file)
    /\ compacting' = None
    /\ UNCHANGED <<files, closed, clientVars, historyVars, writes, compacted, crashes, up>>

(* The pointers are swapped under mu.Lock, then the writer's file and size. *)
CompactSwap ==
    /\ up /\ compacting # None /\ compacting.stage = "renamed"
    /\ index' = Append(index, newOffsets)
    /\ cur' = Len(files) /\ wgen' = Len(files)
    /\ tracker' = FileSize(file) /\ synced' = Len(file)
    /\ compacting' = None
    /\ UNCHANGED <<files, closed, clientVars, historyVars, writes, compacted, crashes, up>>

(* Compact returns an error: the rename fails and nothing has changed, or the *)
(* read handle cannot be opened again, or, after the pointers were swapped,   *)
(* the writer's: it goes on appending to the file that was replaced.          *)
CompactFails ==
    /\ up /\ compacting # None
    /\ \/ compacting.stage = "written" /\ UNCHANGED <<index, cur>>
       \/ compacting.stage = "renamed" /\ index' = Append(index, EmptyIndex) /\ UNCHANGED cur
       \/ /\ compacting.stage = "renamed"
          /\ index' = Append(index, newOffsets) /\ cur' = Len(files)
    /\ compacting' = None
    /\ UNCHANGED <<walVars, closed, clientVars, historyVars, writes, compacted, crashes, up>>

(* The process stops: of what walPath names, what was not synced may be lost. *)
Crash ==
    /\ up /\ crashes < MaxCrashes
    /\ \E f \in IF wgen = Len(files) THEN Remains(file, synced) ELSE {file} : files' = <<f>>
    /\ writing' = [w \in Writers |-> None] /\ getting' = None /\ got' = None
    /\ compacting' = None
    /\ index' = <<EmptyIndex>> /\ cur' = 1 /\ wgen' = 1 /\ closed' = {}
    /\ tracker' = 0 /\ synced' = 0
    /\ up' = FALSE /\ crashes' = crashes + 1
    /\ UNCHANGED <<historyVars, writes, compacted>>

(* Mutant: the size of the reopened file is what recovery could read. *)
RestartTrimmedSize ==
    /\ ~up /\ Recovered(file).err = "none"
    /\ index' = <<Recovered(file).index>>
    /\ tracker' = FileSize(Scan(file).pieces)
    /\ synced' = Len(file) /\ acked' = durable
    /\ up' = TRUE
    /\ UNCHANGED <<files, wgen, cur, closed, clientVars, durable, writes, compacting, compacted,
                   crashes>>

(***************************************************************************)
(* NewWriter takes the size of the file as it is, torn tail included;      *)
(* Recover fails or fills the index.  Main exits when it fails.            *)
(***************************************************************************)
Restart ==
    /\ ~up /\ Recovered(file).err = "none"
    /\ index' = <<Recovered(file).index>>
    /\ tracker' = FileSize(file)
    /\ synced' = Len(file) /\ acked' = durable
    /\ up' = TRUE
    /\ UNCHANGED <<files, wgen, cur, closed, clientVars, durable, writes, compacting, compacted,
                   crashes>>

Next ==
    \/ \E w \in Writers, k \in Keys : WriteEventOffset(w, k)
    \/ \E w \in Writers : IndexEvent(w)
    \/ Sync
    \/ \E k \in Keys : GetBegin(k)
    \/ GetEnd \/ GetDone
    \/ CompactBegin \/ CompactRename \/ CompactSwap
    \/ DiskFaults /\ (WriteEventFails \/ CompactFails)
    \/ Crash \/ Restart

Spec == Init /\ [][Next]_vars

-----------------------------------------------------------------------------
(* The shape of the store's state; sizes and generations stay in step. *)
TypeOK ==
    /\ \A g \in DOMAIN files : \A n \in DOMAIN files[g] : files[g][n].rec \in Event
    /\ cur \in 1..Len(files) /\ wgen \in 1..Len(files)
    /\ closed \subseteq 1..Len(files) /\ synced \in 0..Len(files[wgen])
    /\ up => tracker = FileSize(files[wgen])
    /\ \A w \in Writers : writing[w] = None \/ writing[w].key \in Keys

Pointed(k) == ReadRecordAt(files[cur], index[cur][k])

(***************************************************************************)
(* The header of store.go: "WAL offset is always correct".  Every offset   *)
(* in the store's index is the start of a whole record of that key, across *)
(* appends, compactions and restarts over a torn tail.                     *)
(***************************************************************************)
IndexSound ==
    up => \A k \in DOMAIN index[cur] : Pointed(k).status = "ok" /\ Pointed(k).rec.key = k

(***************************************************************************)
(* WriteEvent: "Same source, multiple writes: offset is updated            *)
(* (latest-write-wins)".  With no write of a key under way, the index is   *)
(* at the newest record of it the WAL holds.                               *)
(***************************************************************************)
LatestWins ==
    up => \A k \in DOMAIN index[cur] :
              \/ \E w \in Writers : writing[w] # None /\ writing[w].key = k
              \/ /\ Pointed(k).status = "ok"
                 /\ Pointed(k).rec.seq = MaxOf(SeqsOf(files[cur], k))

(***************************************************************************)
(* An event whose WriteEvent returned nil before an fsync is still what    *)
(* the store finds for its source, or a newer one is, whatever compactions *)
(* and restarts came after.                                                *)
(***************************************************************************)
SyncedSurvive ==
    up => \A k \in Keys :
              durable[k] > 0 =>
                  /\ k \in DOMAIN index[cur]
                  /\ Pointed(k).status = "ok" => Pointed(k).rec.seq >= durable[k]

(***************************************************************************)
(* A Get that finds a record returns one of the key asked for, at least as *)
(* new as the last write acknowledged before the Get began, although the   *)
(* file may have been replaced under it.                                   *)
(***************************************************************************)
GetFresh ==
    got # None =>
        /\ got.status = "ok" => got.rec.key = got.key /\ got.rec.seq >= got.floor
        /\ got.status = "not found" => got.floor = 0
=============================================================================
