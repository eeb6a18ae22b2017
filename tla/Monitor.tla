------------------------------ MODULE Monitor -------------------------------
(***************************************************************************)
(* fs::monitor (chord.fs.monitor.cc) and what fs::Facade does with its     *)
(* events (on_fs_event, put_file_journal): a peer watches its own data     *)
(* directory and puts what the user changes there into the ring.           *)
(*                                                                         *)
(* The server threads of the peer write the same directory.  They tell the *)
(* monitor to ignore what they do with filters: a lock adds a filter, its  *)
(* end removes one.  Server threads and the poll thread change both lists  *)
(* of filters without a mutex, so an access to a list has a beginning and  *)
(* an end, and accesses that overlap are a data race.                      *)
(*                                                                         *)
(* External: libfswatch compares the directory with its last scan and      *)
(* calls process() if something changed; the poll thread then handles the  *)
(* events one after the other, and scans again when it is done.  Only      *)
(* regular files are modelled: events of directories are ignored.          *)
(***************************************************************************)
EXTENDS Integers, Sequences, FiniteSets

CONSTANTS
    Uri,           \* files, as numbers: events are handled in this order
    Owned,         \* the uris this peer is responsible for
    Content, None,
    Blank,         \* the content of an empty file
    Server,        \* threads that serve other peers
    MaxChanges,    \* bound on the user's changes and the calls of other peers
    MaxFailures    \* bound on the calls to other peers that fail

ASSUME MonitorAssumption ==
    /\ Uri \subseteq Nat /\ IsFiniteSet(Uri) /\ Owned \subseteq Uri
    /\ {None, Blank} \cap Content = {} /\ None \notin {Blank, "CREATED"}
    /\ "poll" \notin Server

VARIABLES
    data,          \* data[u], the file of u in the data directory, or None
    hash,          \* hash[u], the hash in the metadata of u here, or None
    away,          \* away[u], u at the peer responsible for it
    journal,       \* journal[u], the file of u in the journal directory
    open,          \* open[t], where the file is that t has open, or None
    filters,       \* _filters: those of the locks held
    cow,           \* _filters_cow: and those there were since the last process()
    view,          \* view[t], the lists when t began its access, or None
    torn,          \* history: whether accesses have overlapped
    seen,          \* the files there were at the last scan
    dirty,         \* the files written since
    found,         \* found[u], the flag of the event of u at that scan, or None
    queue,         \* the events left to handle
    pc,            \* pc[t], what thread t does next
    job,           \* job[t], the file it does it to, and its content
    ok,            \* whether the put of the poll thread succeeded
    skipped,       \* whether it sent no data, as the hashes were equal
    raced,         \* history: whether others wrote the file it took, meanwhile
    died,
    changes, failures

files == <<data, hash, away, journal, open>>
lists == <<filters, cow, view, torn>>
scans == <<seen, dirty, found, queue>>
steps == <<pc, job>>
puts == <<ok, skipped, raced>>
bounds == <<changes, failures>>
vars == <<files, lists, scans, steps, puts, died, bounds>>

Threads == Server \cup {"poll"}

Job(u, c) == [uri |-> u, data |-> c]

Init ==
    /\ data = [u \in Uri |-> None]
    /\ hash = [u \in Uri |-> None]
    /\ away = [u \in Uri |-> None]
    /\ journal = [u \in Uri |-> None]
    /\ open = [t \in Threads |-> None]
    /\ filters = << >> /\ cow = << >>
    /\ view = [t \in Threads |-> None] /\ torn = FALSE
    /\ seen = {} /\ dirty = {} /\ found = [u \in Uri |-> None] /\ queue = {}
    /\ pc = [t \in Threads |-> "idle"]
    /\ job = [t \in Threads |-> Job(None, None)]
    /\ ok = TRUE /\ skipped = FALSE /\ raced = FALSE /\ died = FALSE
    /\ changes = 0 /\ failures = 0

At(t, p) == ~died /\ pc[t] = p

Goes(t, p) ==
    /\ pc' = [pc EXCEPT ![t] = p]
    /\ job' = IF p = "idle" THEN [job EXCEPT ![t] = Job(None, None)] ELSE job

-----------------------------------------------------------------------------
(* The lists of filters.  A lock adds to both when it is constructed, and  *)
(* removes from the first when it is destroyed.  There are three: that of  *)
(* Service::put, which ignores CREATED, and those of fs::util::remove and  *)
(* Facade::put_file_journal, which ignore every event.                     *)
Filter(u, flag) == [path |-> u, flag |-> flag]

FlagOf(p) == IF p \in {"put", "put_cow"} THEN "CREATED" ELSE None

(* Assigning to a filter keeps its flag if the new one has none            *)
(* (filter::operator=): vector::erase, which moves what is behind forward, *)
(* and the assignment of cow both do it.                                   *)
Assigned(old, new) ==
    [path |-> new.path, flag |-> IF new.flag = None THEN old.flag ELSE new.flag]

Copied(old, new) ==
    [i \in 1 .. Len(new) |-> IF i <= Len(old) THEN Assigned(old[i], new[i]) ELSE new[i]]

(* The lists a thread is in at a step: nobody excludes the others.         *)
Adding == {"put", "remove", "journal"}
AddingCow == {"put_cow", "remove_cow", "journal_cow"}
Removing == {"put_end", "remove_end", "journal_end"}

Lists(p) ==
    (IF p \in Adding \cup Removing \cup {"copy"} THEN {"filters"} ELSE {})
        \cup (IF p \in AddingCow \cup {"filter", "copy"} THEN {"cow"} ELSE {})

After(p) ==
    CASE p = "put" -> "put_cow"         [] p = "put_cow" -> "create"
      [] p = "put_end" -> "record"      [] p = "remove" -> "remove_cow"
      [] p = "remove_cow" -> "unlink"   [] p = "journal" -> "journal_cow"
      [] p = "journal_cow" -> "shift"   [] OTHER -> "idle"

Overlaps(t) == \E s \in Threads : view[s] # None /\ Lists(pc[s]) \cap Lists(pc[t]) # {}

Seen(t) ==
    [filters |-> IF "filters" \in Lists(pc[t]) THEN filters ELSE << >>,
     cow |-> IF "cow" \in Lists(pc[t]) THEN cow ELSE << >>]

(* Accesses that overlap are undefined: one of the two changes may be      *)
(* lost, as if it had been made to the list there was at the beginning, or *)
(* the process dies of an iterator or a buffer that is gone.               *)
begin(t) ==
    /\ ~died /\ Lists(pc[t]) # {} /\ view[t] = None
    /\ view' = [view EXCEPT ![t] = Seen(t)]
    /\ torn' = (torn \/ Overlaps(t))
    /\ died' \in IF Overlaps(t) THEN BOOLEAN ELSE {FALSE}
    /\ UNCHANGED <<files, filters, cow, scans, steps, puts, bounds>>

Within(t, ps) == ~died /\ pc[t] \in ps /\ view[t] # None

Leaves(t) == view' = [view EXCEPT ![t] = None] /\ UNCHANGED torn

Now(t) == {Seen(t)} \cup (IF torn THEN {view[t]} ELSE {})

add_filter(t) ==
    LET f == Filter(job[t].uri, FlagOf(pc[t]))
    IN  /\ \/ /\ Within(t, Adding)
              /\ \E old \in Now(t) : filters' = Append(old.filters, f)
              /\ UNCHANGED cow
           \/ /\ Within(t, AddingCow)
              /\ \E old \in Now(t) : cow' = Append(old.cow, f)
              /\ UNCHANGED filters
        /\ Leaves(t) /\ Goes(t, After(pc[t]))
        /\ UNCHANGED <<files, scans, puts, died, bounds>>

(* Mutant: the filter in front is erased.                                  *)
MatchesAny(f, u) == TRUE

(* Filters are equal if their paths are: the first is erased, whoever      *)
(* added it.                                                               *)
Matches(f, u) == f.path = u

Erased(list, u) ==
    LET matching == {i \in DOMAIN list : Matches(list[i], u)}
        first == CHOOSE i \in matching : \A j \in matching : i <= j
    IN  IF matching = {} THEN list
        ELSE [i \in 1 .. (Len(list) - 1) |->
                IF i < first THEN list[i] ELSE Assigned(list[i], list[i + 1])]

remove_filter(t) ==
    /\ Within(t, Removing)
    /\ \E old \in Now(t) : filters' = Erased(old.filters, job[t].uri)
    /\ UNCHANGED cow
    /\ Leaves(t) /\ Goes(t, After(pc[t]))
    /\ UNCHANGED <<files, scans, puts, died, bounds>>

-----------------------------------------------------------------------------
(* What others write, while the poll thread has it, is not its doing.      *)
Writes(t, u) == raced' = (raced \/ (t # "poll" /\ job["poll"].uri = u))

(* A file that is moved or removed is still the one open elsewhere.        *)
Unlinks(u, directory) ==
    open' = [t \in Threads |->
               IF job[t].uri = u /\ open[t] = directory THEN None ELSE open[t]]

(* Service::put: the file is created if it is not there, and opened and    *)
(* written unless the metadata has its hash; then the metadata is made     *)
(* from the file.                                                          *)
create(t) ==
    LET u == job[t].uri
    IN  /\ At(t, "create")
        /\ data' = IF data[u] = None THEN [data EXCEPT ![u] = Blank] ELSE data
        /\ dirty' = IF data[u] = None THEN dirty \cup {u} ELSE dirty
        /\ Writes(t, u)
        /\ Goes(t, "truncate")
        /\ UNCHANGED <<hash, away, journal, open, lists, seen, found, queue>>
        /\ UNCHANGED <<ok, skipped, died, bounds>>

(* file_hashes_equal, and otherwise ofstream::open.                        *)
truncate(t) ==
    LET u == job[t].uri
        equal == hash[u] = job[t].data
    IN  /\ At(t, "truncate")
        /\ IF equal
           THEN Goes(t, "put_end") /\ UNCHANGED <<data, dirty, open>>
           ELSE /\ data' = [data EXCEPT ![u] = Blank]
                /\ dirty' = dirty \cup {u}
                /\ open' = [open EXCEPT ![t] = "data"]
                /\ Goes(t, "write")
        /\ skipped' = IF t = "poll" THEN equal ELSE skipped
        /\ Writes(t, u)
        /\ UNCHANGED <<hash, away, journal, lists, seen, found, queue, ok, died, bounds>>

(* The data goes to the file that was opened, wherever it is by now.       *)
write(t) ==
    LET u == job[t].uri
        c == job[t].data
    IN  /\ At(t, "write")
        /\ data' = IF open[t] = "data" THEN [data EXCEPT ![u] = c] ELSE data
        /\ journal' = IF open[t] = "journal" THEN [journal EXCEPT ![u] = c] ELSE journal
        /\ dirty' = IF open[t] = "data" THEN dirty \cup {u} ELSE dirty
        /\ open' = [open EXCEPT ![t] = None]
        /\ Writes(t, u)
        /\ Goes(t, "put_end")
        /\ UNCHANGED <<hash, away, lists, seen, found, queue, ok, skipped, died, bounds>>

(* MetadataBuilder::for_path throws if the file is gone.                   *)
record(t) ==
    LET u == job[t].uri
    IN  /\ At(t, "record")
        /\ hash' = IF data[u] = None THEN hash ELSE [hash EXCEPT ![u] = data[u]]
        /\ ok' = IF t = "poll" THEN data[u] # None ELSE ok
        /\ Goes(t, IF t = "poll" THEN "settle" ELSE "idle")
        /\ UNCHANGED <<data, away, journal, open, lists, scans, skipped, raced, died, bounds>>

(* Service::del and handle_del_file: a file without metadata is removed at *)
(* once and without a lock; of the others the metadata goes first.         *)
del(t) ==
    LET u == job[t].uri
        there == data[u] # None
        tracked == hash[u] # None
    IN  /\ At(t, "del")
        /\ hash' = [hash EXCEPT ![u] = None]
        /\ IF there /\ ~tracked
           THEN data' = [data EXCEPT ![u] = None] /\ Unlinks(u, "data") /\ Writes(t, u)
           ELSE UNCHANGED <<data, open, raced>>
        /\ Goes(t, IF there /\ tracked THEN "remove" ELSE "idle")
        /\ UNCHANGED <<away, journal, lists, scans, ok, skipped, died, bounds>>

unlink(t) ==
    LET u == job[t].uri
    IN  /\ At(t, "unlink")
        /\ data' = [data EXCEPT ![u] = None]
        /\ Unlinks(u, "data")
        /\ Writes(t, u)
        /\ Goes(t, "remove_end")
        /\ UNCHANGED <<hash, away, journal, lists, scans, ok, skipped, died, bounds>>

-----------------------------------------------------------------------------
(* Facade::put_file_journal: under a lock, move the file to the journal,   *)
(* put it from there, and remove it if that succeeded.  The events are     *)
(* handled in the order of their paths.                                    *)
put_file_journal(u) ==
    /\ At("poll", "idle")
    /\ u \in queue /\ \A v \in queue : u <= v
    /\ queue' = queue \ {u}
    /\ pc' = [pc EXCEPT !["poll"] = "journal"]
    /\ job' = [job EXCEPT !["poll"] = Job(u, None)]
    /\ UNCHANGED <<files, lists, seen, dirty, found, puts, died, bounds>>

(* Mutant: a file that is gone is waited for.                              *)
ShiftWaits ==
    LET u == job["poll"].uri
    IN  /\ At("poll", "shift") /\ data[u] # None
        /\ data' = [data EXCEPT ![u] = None]
        /\ journal' = [journal EXCEPT ![u] = data[u]]
        /\ open' = [t \in Threads |->
                      IF job[t].uri # u THEN open[t]
                      ELSE IF open[t] = "data" THEN "journal" ELSE None]
        /\ raced' = FALSE
        /\ Goes("poll", "read")
        /\ UNCHANGED <<hash, away, died, lists, scans, ok, skipped, bounds>>

(* file::rename throws if a server thread or the user has removed the file *)
(* since the scan, and nobody catches it in the poll thread.               *)
shift ==
    LET u == job["poll"].uri
    IN  /\ At("poll", "shift")
        /\ IF data[u] = None
           THEN died' = TRUE /\ UNCHANGED <<files, steps, raced>>
           ELSE /\ data' = [data EXCEPT ![u] = None]
                /\ journal' = [journal EXCEPT ![u] = data[u]]
                /\ open' = [t \in Threads |->
                              IF job[t].uri # u THEN open[t]
                              ELSE IF open[t] = "data" THEN "journal" ELSE None]
                /\ raced' = FALSE
                /\ Goes("poll", "read")
                /\ UNCHANGED <<hash, away, died>>
        /\ UNCHANGED <<lists, scans, ok, skipped, bounds>>

(* Client::put reads the file; Service::put of the peer responsible for it *)
(* is called, here or elsewhere.                                           *)
read ==
    LET u == job["poll"].uri
    IN  /\ At("poll", "read")
        /\ pc' = [pc EXCEPT !["poll"] = IF u \in Owned THEN "put" ELSE "send"]
        /\ job' = [job EXCEPT !["poll"] = Job(u, journal[u])]
        /\ skipped' = FALSE
        /\ UNCHANGED <<files, lists, scans, ok, raced, died, bounds>>

send ==
    LET u == job["poll"].uri
    IN  /\ At("poll", "send")
        /\ \/ /\ away' = [away EXCEPT ![u] = job["poll"].data]
              /\ ok' = TRUE
              /\ UNCHANGED failures
           \/ /\ failures < MaxFailures
              /\ failures' = failures + 1
              /\ ok' = FALSE
              /\ UNCHANGED away
        /\ Goes("poll", "settle")
        /\ UNCHANGED <<data, hash, journal, open, lists, scans, skipped, raced, died, changes>>

(* Mutant: the file is removed whatever the status.                        *)
SettleAnyway ==
    LET u == job["poll"].uri
    IN  /\ At("poll", "settle")
        /\ journal' = [journal EXCEPT ![u] = None] /\ Unlinks(u, "journal")
        /\ ok' = TRUE /\ skipped' = FALSE /\ raced' = FALSE
        /\ Goes("poll", "journal_end")
        /\ UNCHANGED <<data, hash, away, lists, scans, died, bounds>>

settle ==
    LET u == job["poll"].uri
    IN  /\ At("poll", "settle")
        /\ IF ok
           THEN journal' = [journal EXCEPT ![u] = None] /\ Unlinks(u, "journal")
           ELSE UNCHANGED <<journal, open>>
        /\ ok' = TRUE /\ skipped' = FALSE /\ raced' = FALSE
        /\ Goes("poll", "journal_end")
        /\ UNCHANGED <<data, hash, away, lists, scans, died, bounds>>

-----------------------------------------------------------------------------
(* What a scan finds.                                                      *)
There == {u \in Uri : data[u] # None}

Flag(u) ==
    IF u \in There \ seen THEN "CREATED"
    ELSE IF u \in seen \ There THEN "REMOVED"
    ELSE IF u \in There \cap dirty THEN "UPDATED"
    ELSE None

Events == {u \in Uri : Flag(u) # None}

scan ==
    /\ At("poll", "idle") /\ queue = {} /\ Events # {}
    /\ found' = [u \in Uri |-> Flag(u)]
    /\ seen' = There /\ dirty' = {}
    /\ Goes("poll", "filter")
    /\ UNCHANGED <<files, lists, queue, puts, died, bounds>>

(* process(): the filters there were at any time since the call before.    *)
Ignored(list, u) ==
    \E i \in DOMAIN list : list[i].path = u /\ list[i].flag \in {None, found[u]}

(* on_fs_event: a file removed that has metadata is deleted under a uri    *)
(* made from its path in the host's file system, which names nothing in    *)
(* the ring.  The others are put.                                          *)
Handled(list) == {u \in Uri : found[u] \notin {None, "REMOVED"} /\ ~Ignored(list, u)}

process ==
    /\ Within("poll", {"filter"})
    /\ \E old \in Now("poll") : queue' = Handled(old.cow)
    /\ found' = [u \in Uri |-> None]
    /\ Leaves("poll") /\ Goes("poll", "copy")
    /\ UNCHANGED <<files, filters, cow, seen, dirty, puts, died, bounds>>

copy ==
    /\ Within("poll", {"copy"})
    /\ \E old \in Now("poll") : cow' = Copied(old.cow, old.filters)
    /\ Leaves("poll") /\ Goes("poll", "idle")
    /\ UNCHANGED <<files, filters, scans, puts, died, bounds>>

-----------------------------------------------------------------------------
(* The user changes a file in the data directory, or removes it.           *)
Edit(u, c) ==
    /\ ~died /\ changes < MaxChanges
    /\ changes' = changes + 1
    /\ c = None => data[u] # None
    /\ data' = [data EXCEPT ![u] = c]
    /\ IF c = None THEN Unlinks(u, "data") ELSE UNCHANGED open
    /\ dirty' = dirty \cup {u}
    /\ Writes("user", u)
    /\ UNCHANGED <<hash, away, journal, lists, seen, found, queue, steps>>
    /\ UNCHANGED <<ok, skipped, died, failures>>

(* Another peer puts or deletes a file, which this one is responsible for  *)
(* or a replica of.                                                        *)
Call(t, p, u, c) ==
    /\ At(t, "idle") /\ changes < MaxChanges
    /\ changes' = changes + 1
    /\ pc' = [pc EXCEPT ![t] = p]
    /\ job' = [job EXCEPT ![t] = Job(u, c)]
    /\ UNCHANGED <<files, lists, scans, puts, died, failures>>

Serves(t) ==
    \/ begin(t) \/ add_filter(t) \/ remove_filter(t)
    \/ create(t) \/ truncate(t) \/ write(t) \/ record(t)
    \/ del(t) \/ unlink(t)

Polls ==
    \/ Serves("poll") \/ scan \/ process \/ copy
    \/ \E u \in Uri : put_file_journal(u)
    \/ shift \/ read \/ send \/ settle

Next ==
    \/ Polls
    \/ \E t \in Server : Serves(t)
    \/ \E u \in Uri, c \in Content \cup {None} : Edit(u, c)
    \/ \E t \in Server, u \in Uri :
          Call(t, "del", u, None) \/ \E c \in Content : Call(t, "put", u, c)

(* The poll thread scans again and again, and threads are not starved.     *)
Fairness == WF_vars(Polls) /\ \A t \in Server : WF_vars(Serves(t))

Spec == Init /\ [][Next]_vars /\ Fairness

-----------------------------------------------------------------------------
(* Locks and filters agree although calls interleave, remove_filter may    *)
(* erase the filter of another lock, and filters change their flags when   *)
(* they move: a path has as many filters as there are locks on it, and the *)
(* list that process() uses has those of all locks whose constructor is    *)
(* done.  Nothing is claimed once two threads were in a list at the same   *)
(* time: no mutex keeps them apart, and a filter may be lost for good.     *)
Positions(list, u) == {i \in DOMAIN list : list[i].path = u}

Filtering(list, u) == Cardinality(Positions(list, u))

Constructed(t) ==
    (IF pc[t] \in {"create", "truncate", "write", "put_end"} THEN {"put"} ELSE {})
        \cup (IF pc[t] \in {"unlink", "remove_end"} THEN {"remove"} ELSE {})
        \cup (IF t = "poll" /\ pc[t] \notin {"idle", "filter", "copy", "journal", "journal_cow"}
              THEN {"journal"} ELSE {})

Added(t) ==
    Constructed(t)
        \cup (IF pc[t] = "put_cow" THEN {"put"} ELSE {})
        \cup (IF pc[t] = "remove_cow" THEN {"remove"} ELSE {})
        \cup (IF pc[t] = "journal_cow" THEN {"journal"} ELSE {})

Kinds == {"put", "remove", "journal"}

LocksConstructed(u) ==
    {l \in Threads \X Kinds : job[l[1]].uri = u /\ l[2] \in Constructed(l[1])}

LocksAdded(u) == {l \in Threads \X Kinds : job[l[1]].uri = u /\ l[2] \in Added(l[1])}

Shielded ==
    ~torn =>
        \A u \in Uri :
            /\ Filtering(filters, u) = Cardinality(LocksAdded(u))
            /\ Filtering(cow, u) >= Cardinality(LocksConstructed(u))

(* The peer does not answer its own writes for ever, even if filters are   *)
(* lost: when users and other peers stop, the directory comes to rest.     *)
Quiet == died \/ (Events = {} /\ queue = {} /\ \A t \in Threads : pc[t] = "idle")

EchoEnds == <>[]Quiet

(* put_file_journal logs "successfully put after fs_event, removing".  If  *)
(* data was sent, what it removes from the journal is in the ring.  If the *)
(* hash was that of the metadata, because the file was written by a put or *)
(* because the user saved it unchanged, no data is sent, and the file that *)
(* was moved away comes back empty.  Others may always write meanwhile.    *)
Held(u) == IF u \in Owned THEN data[u] ELSE away[u]

SuccessfullyPut ==
    [][\A u \in Uri :
          journal[u] # None /\ journal'[u] = None /\ ~raced
            => Held(u) = IF skipped THEN Blank ELSE journal[u]]_vars
=============================================================================
