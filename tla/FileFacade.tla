----------------------------- MODULE FileFacade ------------------------------
(***************************************************************************)
(* The file system as users and the ring see it: the commands of           *)
(* controller::Service, fs::Facade and its callbacks (chord.fs.facade.cc,  *)
(* chord.controller.service.cc, connected in chord.peer.cc), on top of     *)
(* FileService.                                                            *)
(*                                                                         *)
(* `acked' is what users have been told of every file.  A file becomes     *)
(* Tainted for good when two writes of it overlap, a write of it fails, or *)
(* the ring changes during a write: of such files nothing is claimed.      *)
(***************************************************************************)
EXTENDS FileService

CONSTANTS
    Home,          \* Home[c], the peer whose controller client c talks to
    Commands,      \* Commands[c], the commands client c gives
    Overlap,       \* those that are also given while the ring changes
    ReplicationCnt,\* context.replication_cnt
    Initial,       \* the peers up initially
    Made,          \* directories made before
    Joiners, Leavers, Crashers,
    Tainted,
    MaxCommands,   \* MaxCommands[c], how many commands client c gives
    MaxChanges     \* how often the ring changes

Clients == DOMAIN Home
Ring == "ring"                 \* the thread of the changes of the ring

ASSUME FileFacadeAssumption ==
    /\ \A c \in Clients : Home[c] \in Initial
    /\ Thread = Clients \cup {Ring}
    /\ Initial \subseteq Node /\ Initial # {}
    /\ Joiners \cup Leavers \cup Crashers \subseteq Node
    /\ Made \subseteq Uris \ (Regular \cup {Root})
    /\ Tainted \notin Content \cup {None}
    /\ MaxCommands \in [Clients -> Nat] /\ MaxChanges \in Nat /\ ReplicationCnt \in Nat \ {0}

VARIABLES
    cmd,           \* cmd[c], the command client c is at, or None
    acked,         \* history: the content users have been told a file has
    raced,         \* history: the directories that overlapping commands wrote to
    given, changes

users == <<cmd, acked, raced, given, changes>>
vars == <<ring, up, alias, lock, meta, file, dirs, work, reply, cmd, acked, raced, given, changes>>

-----------------------------------------------------------------------------
(* Commands.  `uris' are the files of a put; a folder has several.         *)
Below(uri) == {u \in Uris : u = uri \/ Parent[u] = uri}

Touched(k) ==
    CASE k.op = "put" -> Range(k.uris)
      [] k.op = "del" -> Below(k.uri)
      [] k.op = "mov" -> {k.uri, k.target}
      [] OTHER -> {}

(* The directories whose metadata a command writes: MetadataManager reads, *)
(* merges and writes without a lock, and one of two updates may be lost.   *)
Lists(k) ==
    UNION {Ancestors(u) : u \in Touched(k)}
        \cup (IF k.op \in {"mkdir", "del"} THEN {k.uri} \cup Ancestors(k.uri) ELSE {})

(* A command, and what it expects: `alone' are the files that no other     *)
(* command writes meanwhile, `expect' is what a get should return.         *)
Cmd(op, uri) ==
    [op |-> op, uri |-> uri, uris |-> << uri >>, target |-> uri, data |-> None, count |-> 1,
     rec |-> FALSE, expect |-> None, alone |-> {}]

(* What is at risk when the ring changes meanwhile: get moves a file too.  *)
Risked(k) == Touched(k) \cup (IF k.op = "get" THEN {k.uri} ELSE {})

(* A put of what is there already sends no data, even when only a          *)
(* reference to the file is there: an empty file takes its place.  A put   *)
(* with a smaller replication count leaves the superfluous replicas alone. *)
Mishandled(k) ==
    {u \in Touched(k) :
        LET o == successor_of(u)
        IN  /\ k.op = "put" /\ u \in DOMAIN meta[o]
            /\ \/ begin(meta[o][u]).hash = k.data /\ u \notin DOMAIN file[o]
               \/ begin(meta[o][u]).repl.count > k.count}

Writing(uri) == \E c \in Clients : cmd[c] # None /\ uri \in Touched(cmd[c])

(* What the facade and the client do for a command.  Facade::put asks      *)
(* whether the target is a directory, unless the source is one.            *)
Calls(k, n) ==
    LET put(i) == [ToOwner("put", n, k.uris[i]) EXCEPT
                      !.data = k.data, !.repl = Replication(0, k.count),
                      !.need = IF i = 1 THEN "any" ELSE "successful"]
        listed(step) == << ToOwner("dir", n, k.uri), [step EXCEPT !.need = "ok"] >>
    IN  CASE k.op = "put" /\ Len(k.uris) = 1 ->
               << ToOwner("dir", n, k.uris[1]), [put(1) EXCEPT !.need = "known"] >>
          [] k.op = "put" /\ Len(k.uris) > 1 -> [i \in DOMAIN k.uris |-> put(i)]
          [] k.op = "del" -> << [ToOwner("del", n, k.uri) EXCEPT !.rec = k.rec] >>
          [] k.op = "mkdir" ->
               << WithMetadata(ToOwner("add", n, k.uri),
                               Single(k.uri, Entry("dir", None, None, Replication(0, k.count)))) >>
          [] k.op = "mov" -> listed([ToOwner("mov", n, k.uri) EXCEPT !.data = k.target])
          [] k.op = "get" -> listed(ToOwner("get", n, k.uri))

Taint(uris) == [u \in Regular |-> IF u \in uris THEN Tainted ELSE acked[u]]

(* controller::Service::control                                            *)
Command(c, k) ==
    /\ cmd[c] = None /\ given[c] < MaxCommands[c] /\ Home[c] \in ring
    /\ (Busy(Ring) \/ up # ring) => k \in Overlap
    /\ given' = [given EXCEPT ![c] = @ + 1]
    /\ cmd' = [d \in Clients |->
         IF d = c THEN [k EXCEPT !.expect = IF k.op = "get" THEN acked[k.uri] ELSE None,
                                 !.alone = {u \in Risked(k) \cap Regular :
                                              ~Busy(Ring) /\ ~Writing(u) /\ acked[u] # Tainted}]
         ELSE IF cmd[d] # None THEN [cmd[d] EXCEPT !.alone = @ \ Touched(k)] ELSE None]
    /\ acked' = Taint(Mishandled(k) \cup (IF Busy(Ring) THEN Risked(k) ELSE {}))
    /\ raced' = raced \cup (Lists(k) \cap UNION {Lists(cmd[d]) : d \in {e \in Clients : cmd[e] # None}})
    /\ work' = [work EXCEPT ![c] = Calls(k, Home[c])]
    /\ UNCHANGED <<peers, disk, reply, changes>>

(* The command returns.  A mov does not replicate: what it writes over is  *)
(* left on the replicas.                                                   *)
Told(k, r, u) ==
    CASE acked[u] = Tainted \/ u \notin Touched(k) -> acked[u]
      [] u \notin k.alone \/ (k.op = "mov" /\ k.uri \notin k.alone) -> Tainted
      [] r.code # "OK" -> IF k.op # "put" /\ acked[IF k.op = "mov" THEN k.uri ELSE u] = None
                          THEN acked[u] ELSE Tainted
      [] k.op = "put" -> k.data
      [] k.op = "del" -> IF k.uri = u \/ (k.rec /\ k.uri \notin raced) THEN None ELSE Tainted
      [] k.op = "mov" /\ u = k.uri -> None
      [] OTHER -> IF acked[u] = None THEN acked[k.uri] ELSE Tainted

Finish(c) ==
    /\ cmd[c] # None /\ ~Busy(c)
    /\ acked' = [u \in Regular |-> Told(cmd[c], reply[c], u)]
    /\ cmd' = [cmd EXCEPT ![c] = None]
    /\ reply' = [reply EXCEPT ![c] = Code("OK")]
    /\ UNCHANGED <<peers, disk, work, raced, given, changes>>

-----------------------------------------------------------------------------
(* Facade::rebalance: from the deepest uri up, and from the greatest down  *)
(* (uri_descending).                                                       *)
Depth(uri) == IF uri = Root \/ Parent[uri] = Root THEN 1 ELSE 2

Descending(uris) ==
    SetToSortSeq(uris, LAMBDA u, v : Depth(u) > Depth(v) \/ (Depth(u) = Depth(v) /\ u > v))

ForEach(op, n, db, event, held) ==
    LET uris == Descending(DOMAIN db)
    IN  [i \in DOMAIN uris |-> [WithMetadata(Step(op, n, uris[i]), db[uris[i]])
                                   EXCEPT !.data = event, !.holds = held]]

(* Mutant: a peer that leaves keeps the files like any other.              *)
CopyableOnLeave(k) == is_shallow_copyable(k.md, this(k.by))

Copyable(k) == k.data # "LEAVE" /\ is_shallow_copyable(k.md, this(k.by))

MetadataOnly(k) ==
    \/ is_directory(k.md) \/ Copyable(k)
    \/ k.uri \notin DOMAIN file[k.by] /\ is_shallow_copy(k.md, this(k.by))

(* rebalance_metadata.  A file that is kept here gets a reference to here. *)
MovesMetadata(t) ==
    LET k == Call(t)
        n == k.by
        md == meta[n][k.uri]
        moved == [u \in DOMAIN md |-> IF Copyable(k) /\ md[u].ref = None
                                      THEN [md[u] EXCEPT !.ref = this(n)] ELSE md[u]]
    IN  /\ Arrives(t, "rebalance") /\ MetadataOnly(k) /\ k.uri \in DOMAIN meta[n]
        /\ meta' = [meta EXCEPT ![n] = del(@, k.uri)]
        /\ Then(t, << [WithMetadata(ToOwner("add", n, k.uri), moved) EXCEPT !.holds = k.holds],
                      WithMetadata(Step("moved", n, k.uri), moved) >>)
        /\ UNCHANGED <<peers, file, dirs, users>>

MovedMetadata(t) ==
    LET k == Call(t)
        n == k.by
        known == reply[t].code = "ALREADY_EXISTS"
    IN  /\ Arrives(t, "moved")
        /\ file' = [file EXCEPT ![n] = IF known /\ is_regular_file(k.md) THEN Without(@, {k.uri}) ELSE @]
        /\ Then(t, When(~is_successful(reply[t]),
                        Store(n, k.uri, Merged(Current(meta[n], k.uri), k.md))))
        /\ UNCHANGED <<peers, meta, dirs, users>>

(* A replica of a directory may be an empty set, whose first element is    *)
(* read all the same: that throws or not, and the put of a directory is    *)
(* cancelled in any case.                                                  *)
ReadsPastEnd(k) == ~MetadataOnly(k) /\ Here(k.by, k.uri) /\ k.md = NoMetadata

RebalanceThrows(t) ==
    LET k == Call(t)
    IN  /\ Arrives(t, "rebalance")
        /\ (MetadataOnly(k) /\ k.uri \notin DOMAIN meta[k.by]) \/ ReadsPastEnd(k)
        /\ Throws(t)
        /\ UNCHANGED <<peers, disk, users>>

(* A file is put again from its first peer on.                             *)
MovesFile(t) ==
    LET k == Call(t)
        first == IF ReadsPastEnd(k) THEN NONE ELSE Replication(0, begin(k.md).repl.count)
    IN  /\ Arrives(t, "rebalance") /\ ~MetadataOnly(k)
        /\ Then(t, When(Here(k.by, k.uri),
                        [ToOwner("put", k.by, k.uri) EXCEPT
                            !.repl = first, !.reb = TRUE, !.holds = k.holds]))
        /\ UNCHANGED <<peers, disk, users>>

(* Facade::initialize: uris of the snapshot that have no file any more are *)
(* deleted (what dir returns never has a node_ref), files that have no     *)
(* metadata are put by way of the journal (put_file_journal).              *)
Tracks(t) ==
    LET k == Call(t)
        gone == ~is_shallow_copy(k.md, this(k.by)) /\ ~Here(k.by, k.uri)
    IN  /\ Arrives(t, "initialize")
        /\ Then(t, IF gone THEN << ToOwner("dir", k.by, k.uri),
                                   [ToOwner("del", k.by, k.uri) EXCEPT !.rec = TRUE] >>
                           ELSE << >>)
        /\ UNCHANGED <<peers, disk, users>>

Sweeps(t) ==
    LET k == Call(t)
    IN  /\ Arrives(t, "sweep")
        /\ Then(t, ForEach("journal", k.by, Without(file[k.by], DOMAIN k.md), None, FALSE))
        /\ UNCHANGED <<peers, disk, users>>

PutsJournal(t) ==
    LET k == Call(t)
        n == k.by
        there == k.uri \in DOMAIN file[n]
    IN  /\ Arrives(t, "journal")
        /\ file' = [file EXCEPT ![n] = Without(@, {k.uri})]
        /\ Then(t, IF there
                   THEN << ToOwner("dir", n, k.uri),
                           [ToOwner("put", n, k.uri) EXCEPT
                               !.data = file[n][k.uri], !.repl = Replication(0, ReplicationCnt),
                               !.need = "known"] >>
                   ELSE << >>)
        /\ UNCHANGED <<peers, meta, dirs, users>>

-----------------------------------------------------------------------------
(* Callbacks.  `rec' tells on_predecessor_update that the peer was alone.  *)
on_predecessor_update(t) ==
    LET k == Call(t)
        n == k.to
    IN  /\ Arrives(t, "on_predecessor_update")
        /\ Then(t, ForEach("rebalance", n, meta[n], "PREDECESSOR_UPDATE", FALSE)
              \o (IF k.rec THEN ForEach("initialize", n, meta[n], None, FALSE)
                                \o << WithMetadata(Step("sweep", n, Root), meta[n]) >>
                           ELSE << >>)
              \o << Ret(n, "OK") >>)
        /\ UNCHANGED <<peers, disk, users>>

on_join(t) ==
    LET n == Call(t).by
    IN  /\ Arrives(t, "on_join")
        /\ Then(t, ForEach("rebalance", n, meta[n], "JOIN", FALSE) \o << Ret(n, "OK") >>)
        /\ UNCHANGED <<peers, disk, users>>

on_leave(t) ==
    LET n == Call(t).by
    IN  /\ Arrives(t, "on_leave")
        /\ Then(t, ForEach("rebalance", n, meta[n], "LEAVE", FALSE) \o << Ret(n, "OK") >>)
        /\ UNCHANGED <<peers, disk, users>>

(* Router::remove emits this with the lock of the router held.             *)
on_predecessor_fail(t) ==
    LET n == Call(t).by
    IN  /\ Arrives(t, "on_predecessor_fail")
        /\ lock' = n
        /\ Then(t, ForEach("rebalance", n, get_replicated(meta[n], 1), "PREDECESSOR_FAIL", TRUE)
              \o << Step("unlock", n, Root) >>)
        /\ UNCHANGED <<ring, up, alias, disk, users>>

Unlocks(t) ==
    /\ Arrives(t, "unlock")
    /\ lock' = None
    /\ Then(t, << >>)
    /\ UNCHANGED <<ring, up, alias, disk, users>>

-----------------------------------------------------------------------------
(* Changes of the ring, one at a time.                                     *)
Changing(uris) ==
    /\ changes < MaxChanges /\ ~Busy(Ring) /\ up = ring
    /\ \A c \in Clients : cmd[c] # None => [cmd[c] EXCEPT !.expect = None, !.alone = {}] \in Overlap
    /\ changes' = changes + 1
    /\ acked' = Taint(uris \cup {u \in Regular : \E c \in Clients : cmd[c] # None /\ u \in Risked(cmd[c])})
    /\ cmd' = [c \in Clients |-> IF cmd[c] = None THEN None ELSE [cmd[c] EXCEPT !.alone = {}]]
    /\ raced' = Uris \ Regular
    /\ UNCHANGED <<given, disk, reply>>

(* ChordFacade::join: a notify to the successor, in whose handler that     *)
(* rebalances, then event_join.                                            *)
Join(n) ==
    LET next == Nearest(ring, n)
    IN  /\ n \in Joiners \ up /\ alias[n] = n /\ Changing({})
        /\ ring' = ring \cup {n} /\ up' = up \cup {n}
        /\ work' = [work EXCEPT ![Ring] =
               << [ToNode("on_predecessor_update", n, next, Root, None) EXCEPT !.rec = (ring = {next})],
                  [Step("on_join", n, Root) EXCEPT !.need = "ok"] >>]
        /\ UNCHANGED <<alias, lock>>

(* The files that n only keeps for a shallow copy on another peer: no      *)
(* metadata of n tells of them, and nobody fetches them when n leaves.     *)
Referred(n) ==
    {u \in Regular : LET md == Current(meta[successor_of(u)], u)
                     IN  md # NoMetadata /\ begin(md).ref = n}

(* ChordFacade::leave: the neighbours have been told, and the peer goes by *)
(* the uuid of its predecessor.                                            *)
Leave(n) ==
    /\ n \in Leavers \cap ring /\ ring # {n} /\ Changing(Referred(n))
    /\ ring' = ring \ {n}
    /\ alias' = [alias EXCEPT ![n] = CHOOSE p \in ring : successor(p) = n]
    /\ work' = [work EXCEPT ![Ring] = << Step("on_leave", n, Root) >>]
    /\ UNCHANGED <<up, lock>>

(* Peer::stop: the server waits for the calls it handles.                  *)
Exit(n) ==
    /\ n \in up \ ring /\ ~Busy(Ring)
    /\ \A t \in Thread : \A i \in DOMAIN work[t] :
          work[t][i].by # n /\ ~(work[t][i].via = "node" /\ work[t][i].to = n)
    /\ up' = up \ {n}
    /\ UNCHANGED <<ring, alias, lock, disk, work, reply, users>>

(* The contents that were on no other peer.                                *)
Alone(n) ==
    {u \in Regular : LET o == successor_of(u)
                     IN  /\ u \in DOMAIN meta[o]
                         /\ ~Replicates(begin(meta[o][u]).repl)
                         /\ n \in {o, begin(meta[o][u]).ref}}

(* The next check by the successor (Client::check) finds that it failed.   *)
Crash(n) ==
    /\ n \in Crashers \cap ring /\ ring # {n} /\ Changing(Alone(n))
    /\ ring' = ring \ {n} /\ up' = up \ {n}
    /\ alias' = [alias EXCEPT ![n] = None]
    /\ work' = [work EXCEPT ![Ring] = << Step("on_predecessor_fail", successor(n), Root) >>]
    /\ UNCHANGED lock

-----------------------------------------------------------------------------
made(d) == Entry("dir", None, None, NONE)

Init ==
    /\ ring = Initial /\ up = Initial
    /\ alias = [n \in Node |-> n]
    /\ lock = None
    /\ meta = [n \in Node |->
         [u \in {v \in {Root} \cup Made : n = successor_of(v)}
                  \cup (IF n \in Initial THEN {} ELSE {Root}) |->
             IF u = Root /\ n \in Initial THEN Assign([d \in Made |-> made(d)], initialize[Root])
                                          ELSE initialize[Root]]]
    /\ file = [n \in Node |-> NoMetadata]
    /\ dirs = [n \in Node |-> {Root}]
    /\ work = [t \in Thread |-> << >>]
    /\ reply = [t \in Thread |-> Code("OK")]
    /\ cmd = [c \in Clients |-> None]
    /\ acked = [u \in Regular |-> None]
    /\ raced = {} /\ given = [c \in Clients |-> 0] /\ changes = 0

Works(t) ==
    \/ Serve(t) /\ UNCHANGED users
    \/ MovesMetadata(t) \/ MovedMetadata(t) \/ RebalanceThrows(t) \/ MovesFile(t)
    \/ Tracks(t) \/ Sweeps(t) \/ PutsJournal(t)
    \/ on_predecessor_update(t) \/ on_join(t) \/ on_leave(t) \/ on_predecessor_fail(t) \/ Unlocks(t)

Progress == (\E t \in Thread : Works(t)) \/ (\E c \in Clients : Finish(c))

Next ==
    \/ Progress
    \/ \E c \in Clients : \E k \in Commands[c] : Command(c, k)
    \/ \E n \in Node : Join(n) \/ Leave(n) \/ Exit(n) \/ Crash(n)

(* As long as some thread can go on, one of them does.  No command has to  *)
(* be given, and no peer has to come or go.                                *)
Fairness == WF_vars(Progress)

Spec == Init /\ [][Next]_vars /\ Fairness

-----------------------------------------------------------------------------
(* Nothing is under way that concerns uri.                                 *)
Quiet(uri) ==
    /\ ~Busy(Ring) /\ up = ring /\ ~Writing(uri)
    /\ \A t \in Thread : \A i \in DOMAIN work[t] : work[t][i].uri # uri

Holds(n, uri, content) == n \in up /\ uri \in DOMAIN file[n] /\ file[n][uri] = content

Acknowledged == {u \in Regular : acked[u] \in Content /\ Quiet(u)}

(* A file whose put was acknowledged is on the peer that lookups find, or  *)
(* that peer refers to one that has it: whatever joined, left, or crashed  *)
(* with copies elsewhere.                                                  *)
Durable ==
    \A u \in Acknowledged :
        LET o == successor_of(u)
        IN  \/ Holds(o, u, acked[u])
            \/ /\ u \in DOMAIN meta[o] \ DOMAIN file[o]
               /\ Holds(begin(meta[o][u]).ref, u, acked[u])

(* The i-th successor of the peer responsible for a replicated file has    *)
(* the file and its metadata with index i, as far as there are peers and   *)
(* until one of them crashes.                                              *)
Along(n, i) == CHOOSE m \in ring : Cardinality({p \in ring \ {m} : Distance(n, p) < Distance(n, m)}) = i

ReplicaChain ==
    (\A n \in Node : alias[n] # None) => \A u \in Acknowledged :
        LET o == successor_of(u)
            repl == begin(meta[o][u]).repl
        IN  u \in DOMAIN meta[o] /\ Replicates(repl) =>
              \A i \in 0..(repl.count - 1) : i < Cardinality(ring) =>
                  /\ Holds(Along(o, i), u, acked[u])
                  /\ u \in DOMAIN meta[Along(o, i)]
                  /\ begin(meta[Along(o, i)][u]).repl = Replication(i, repl.count)

(* A file that was deleted is on no peer.                                  *)
Gone ==
    \A u \in Regular : acked[u] = None /\ Quiet(u) =>
        \A n \in up : u \notin DOMAIN file[n] \cup DOMAIN meta[n]

(* A directory that no two commands wrote to at once lists exactly the     *)
(* files that are in it, with the content of each.                         *)
Listed ==
    \A u \in Regular : LET d == Parent[u]
                           listing == Current(meta[successor_of(d)], d)
                       IN  Quiet(u) /\ Quiet(d) /\ acked[u] # Tainted /\ d \notin raced =>
                             IF acked[u] = None THEN u \notin DOMAIN listing
                             ELSE /\ u \in DOMAIN listing
                                  /\ listing[u].type = "file" /\ listing[u].hash = acked[u]

(* A get that overlaps no write and no change of the ring returns what was *)
(* put last, and nothing when nothing was.                                 *)
GetCorrect ==
    \A c \in Clients :
        cmd[c] # None /\ ~Busy(c) /\ cmd[c].op = "get"
        /\ cmd[c].uri \in cmd[c].alone =>
            IF cmd[c].expect = None THEN reply[c].code # "OK"
                                    ELSE reply[c] = Answer("OK", cmd[c].expect)

(* The value of a file is the hash that the peer responsible for it keeps. *)
Value(u) == LET md == Current(meta[successor_of(u)], u)
            IN  IF is_regular_file(md) THEN begin(md).hash ELSE None

AsStored(k) ==
    [op |-> IF k.op = "del" /\ k.uri \notin Regular THEN "clear" ELSE k.op,
     files |-> Touched(k) \cap Regular, alone |-> k.alone \cap Touched(k), data |-> k.data, source |-> k.uri]

Abstract == INSTANCE Store
    WITH File <- Regular, Client <- Clients,
         value <- [u \in Regular |-> Value(u)],
         contested <- {u \in Regular : acked[u] = Tainted},
         success <- [c \in Clients |-> reply[c].code = "OK"],
         running <- [c \in Clients |-> IF cmd[c] = None THEN None ELSE AsStored(cmd[c])]

(* While no peer comes or goes, the peers together are a Store.            *)
ImplementsStore == Abstract!Spec

(* Whatever commands are given and peers come and go, everything that is   *)
(* under way comes to its end, unless the callback of a failed predecessor,*)
(* which keeps the router locked, is in the way.                           *)
Settles ==
    []<>(\/ (\A t \in Thread : ~Busy(t)) /\ (\A c \in Clients : cmd[c] = None)
         \/ lock # None)
=============================================================================
