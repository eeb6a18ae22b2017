----------------------------- MODULE FileService -----------------------------
(***************************************************************************)
(* fs::Service and fs::Client of every peer (chord.fs.service.cc,          *)
(* chord.fs.client.cc), over its database (Metadata) and data directory.   *)
(*                                                                         *)
(* A handler calls other peers and waits for them, so one command is a     *)
(* chain of nested calls.  `work[t]' is what is left of the chain of       *)
(* thread t: its head is the next call or local step, and handling a call  *)
(* puts the calls it makes in front of the rest.  `reply[t]' is what the   *)
(* last call returned; a handler that ignores it ends in a step "ret" that *)
(* returns its own status.                                                 *)
(*                                                                         *)
(* Lookups (ChordFacade::successor) are those of a ring in its ideal shape *)
(* (CalmIdeal of Overlay).  They are made when a call is sent, not when it *)
(* is handled.                                                             *)
(***************************************************************************)
EXTENDS Metadata, Sequences, SequencesExt

CONSTANTS
    Size,          \* identifiers on the ring
    Node,          \* peers, as identifiers
    Uris,          \* files and directories; Root is the root directory
    Parent,        \* Parent[u], the directory of u; at most two levels deep
    Regular,       \* the uris that are put as files
    Position,      \* Position[u], crypto::sha256 of a uri
    Content,       \* contents a file may be put with
    Blank,         \* the content of an empty or half-written file
    Thread         \* threads of control

ASSUME FileServiceAssumption ==
    /\ Size \in Nat \ {0} /\ Node \subseteq 0..(Size - 1) /\ IsFiniteSet(Node)
    /\ Uris \subseteq Nat /\ IsFiniteSet(Uris) /\ Root \in Uris
    /\ Parent \in [Uris -> Uris] /\ \A u \in Uris : Parent[Parent[u]] = Root
    /\ Regular \subseteq Uris \ {Root}
    /\ Position \in [Uris -> 0..(Size - 1)]
    /\ Blank \notin Content /\ None \notin Content \cup {Blank} \cup Node

VARIABLES
    ring,          \* the peers lookups find
    up,            \* the peers that answer calls
    alias,         \* context.uuid() of a peer
    lock,          \* the peer whose router a callback keeps locked, or None
    meta,          \* meta[n], the database of n
    file,          \* file[n], the regular files in its data directory
    dirs,          \* dirs[n], the directories in it
    work, reply

peers == <<ring, up, alias, lock>>
disk == <<meta, file, dirs>>
served == <<ring, up, alias, lock, meta, file, dirs, work, reply>>

-----------------------------------------------------------------------------
(* Lookups.                                                                *)
Distance(from, to) == (to - from) % Size

Nearest(members, from) ==
    CHOOSE n \in members : \A m \in members : Distance(from, n) <= Distance(from, m)

successor(n) == Nearest(ring, (n + 1) % Size)

successor_of(uri) == Nearest(ring, Position[uri])

(* The peer that answers a lookup of a uri: the predecessor of the owner.  *)
answers(uri) == CHOOSE n \in ring : successor(n) = successor_of(uri)

Ancestors(uri) == {Parent[uri], Root}

-----------------------------------------------------------------------------
(* Calls and local steps.  `via' says how the peer called is found, `need' *)
(* what the reply before must be for the step to be made at all, `holds'   *)
(* that the thread has the lock of the router of `by'.                     *)
Step(op, by, uri) ==
    [op |-> op, by |-> by, via |-> "node", to |-> by, uri |-> uri, src |-> None,
     repl |-> NONE, reb |-> FALSE, md |-> NoMetadata, rec |-> FALSE, data |-> None,
     need |-> "any", holds |-> FALSE]

ToOwner(op, by, uri) == [Step(op, by, uri) EXCEPT !.via = "owner"]
ToSuccessor(op, by, uri, src) == [Step(op, by, uri) EXCEPT !.via = "successor", !.src = src]
ToNode(op, by, to, uri, src) == [Step(op, by, uri) EXCEPT !.to = to, !.src = src]

WithMetadata(step, md) == [step EXCEPT !.md = md]

(* The Put that ends a read-modify-write of the database.                  *)
Store(n, uri, md) == WithMetadata(Step("store", n, uri), md)

Ret(n, code) == [Step("ret", n, Root) EXCEPT !.data = code]

When(condition, step) == IF condition THEN << step >> ELSE << >>

(* client::init_source; context.uuid() is the alias of the peer.           *)
init_source(src, n) == IF src = None THEN alias[n] ELSE src

(* context.node(): the endpoint is never that of another peer.             *)
this(n) == IF alias[n] = n THEN n ELSE None

Answer(code, data) == [code |-> code, data |-> data]

Code(code) == Answer(code, None)

is_successful(r) == r.code \in {"OK", "ALREADY_EXISTS"}

Wanted(t, k) ==
    \/ k.need = "any"
    \/ k.need = "ok" /\ reply[t].code = "OK"
    \/ k.need = "successful" /\ is_successful(reply[t])
    \/ k.need = "known" /\ reply[t].code \in {"OK", "NOT_FOUND"}

Call(t) == Head(work[t])
Busy(t) == work[t] # << >>
Runs(t) == Busy(t) /\ Call(t).by \in up /\ Wanted(t, Call(t))

Arrives(t, op) ==
    Busy(t) /\ Call(t).op = op /\ Call(t).via = "node" /\ Runs(t) /\ Call(t).to \in up

(* The head is done; `steps' come before what was left after it.           *)
Then(t, steps) ==
    /\ work' = [work EXCEPT ![t] = steps \o Tail(@)]
    /\ UNCHANGED reply

Done(t, r) ==
    /\ work' = [work EXCEPT ![t] = Tail(@)]
    /\ reply' = [reply EXCEPT ![t] = r]

(* An exception nobody catches: the handler, up to its "ret", is left.     *)
Throws(t) ==
    LET rest == Tail(work[t])
        rets == {i \in DOMAIN rest : rest[i].op = "ret"}
    IN  /\ work' = [work EXCEPT ![t] =
              IF rets = {} THEN << >> ELSE SubSeq(rest, First(rets) + 1, Len(rest))]
        /\ reply' = [reply EXCEPT ![t] = Code("UNKNOWN")]

(* The peer that makes the step is gone, or it is not wanted any more.     *)
Skipped(t) ==
    /\ Busy(t) /\ ~Runs(t)
    /\ Done(t, IF Call(t).by \in up THEN reply[t] ELSE Code("UNAVAILABLE"))
    /\ UNCHANGED <<peers, disk>>

Unreachable(t) ==
    /\ Runs(t) /\ Call(t).via = "node" /\ Call(t).to \notin up
    /\ Done(t, Code("UNAVAILABLE"))
    /\ UNCHANGED <<peers, disk>>

(* Service::successor takes the lock of the own router and of the router   *)
(* of the peer that answers.  Router::mtx is recursive: the thread that    *)
(* has it is not stopped.                                                  *)
Consults(k) ==
    {k.by} \cup (IF k.via = "owner" /\ k.by \in ring THEN {answers(k.uri)} ELSE {})

(* Mutant: a lookup waits until the peer that leaves is gone.              *)
BlockedByLeave(k) == up # ring

Blocked(k) == lock # None /\ lock \in Consults(k) /\ ~k.holds

(* The data of a put is read from the file of the peer that sends it.      *)
Reads(k) == k.op = "put" /\ k.data = None

Sent(k) ==
    [k EXCEPT !.via = "node", !.need = "any",
              !.to = IF k.via = "owner" THEN successor_of(k.uri) ELSE successor(k.by),
              !.data = IF Reads(k) THEN file[k.by][k.uri] ELSE @]

(* A del for the replicas is not sent to the peer itself.  A file that     *)
(* cannot be opened is reported by put(node, uri, path), not in the        *)
(* handler of put.                                                         *)
LookupDone(t) ==
    LET k == Call(t)
        self == k.op = "del" /\ k.via = "successor" /\ successor(k.by) = k.by
        missing == Reads(k) /\ k.uri \notin DOMAIN file[k.by]
    IN  /\ Runs(t) /\ k.via # "node" /\ ~Blocked(k)
        /\ \/ self /\ Done(t, reply[t])
           \/ missing /\ k.via = "owner" /\ Done(t, Code("CANCELLED"))
           \/ missing /\ k.via = "successor" /\ Throws(t)
           \/ ~self /\ ~missing /\ Then(t, << Sent(k) >>)
        /\ UNCHANGED <<peers, disk>>

Returned(t) ==
    /\ Arrives(t, "ret")
    /\ Done(t, Code(Call(t).data))
    /\ UNCHANGED <<peers, disk>>

Stored(t) ==
    LET k == Call(t)
    IN  /\ Arrives(t, "store")
        /\ meta' = [meta EXCEPT ![k.to] = Assign(Single(k.uri, k.md), @)]
        /\ Then(t, << >>)
        /\ UNCHANGED <<peers, file, dirs>>

(* Mutant: the source of a request is not looked at.                       *)
FromAnyone(t) == FALSE

(* Service::is_valid: a call that has come back to where it began.         *)
FromSelf(t) == Call(t).src = alias[Call(t).to]

Refused(t) ==
    /\ \E op \in {"put", "add", "del_meta", "del", "dir", "mov"} : Arrives(t, op)
    /\ FromSelf(t)
    /\ Done(t, Code("ALREADY_EXISTS"))
    /\ UNCHANGED <<peers, disk>>

Accepts(t, op) == Arrives(t, op) /\ ~FromSelf(t)

-----------------------------------------------------------------------------
(* Service::put.  file_hashes_equal decides whether the data is sent at    *)
(* all; if it is, the file is opened, and so emptied, before it is filled. *)
(* Mutant: a file that is there is taken for the one that is put.          *)
FileIsThere(n, uri, data) == is_regular_file(Current(meta[n], uri))

file_hashes_equal(n, uri, data) ==
    LET md == Current(meta[n], uri)
    IN  is_regular_file(md) /\ begin(md).hash = data

PutBegins(t) ==
    LET k == Call(t)
        n == k.to
        equal == file_hashes_equal(n, k.uri, k.data)
    IN  /\ Accepts(t, "put")
        /\ file' = [file EXCEPT ![n] =
               IF equal /\ k.uri \in DOMAIN @ THEN @ ELSE Assign(Single(k.uri, Blank), @)]
        /\ dirs' = [dirs EXCEPT ![n] = @ \cup Ancestors(k.uri)]
        /\ Then(t, << [k EXCEPT !.op = "received", !.by = n,
                               !.data = IF equal THEN None ELSE @] >>)
        /\ UNCHANGED <<peers, meta>>

(* The metadata of the file goes to the directory, the file to the next    *)
(* peer of the replication, and one that has become superfluous is looked  *)
(* for after that.                                                         *)
Put(t) ==
    LET k == Call(t)
        n == k.to
        content == IF k.data = None THEN file[n][k.uri] ELSE k.data
        md == Single(k.uri, Entry("file", content, None, k.repl))
        listed == Assign([d \in Dots |-> create_directory(md)], md)
        next == Increased(k.repl)
    IN  /\ Arrives(t, "received") /\ k.uri \in DOMAIN file[n]
        /\ file' = [file EXCEPT ![n][k.uri] = content]
        /\ Then(t, << Store(n, k.uri, Merged(Current(meta[n], k.uri), md)) >>
              \o When(k.repl.index = 0,
                      WithMetadata([ToOwner("add", n, Parent[k.uri]) EXCEPT !.src = k.src], listed))
              \o When(Replicates(next),
                      [ToSuccessor("put", n, k.uri, init_source(k.src, n))
                          EXCEPT !.repl = next, !.reb = k.reb])
              \o When(k.reb /\ ~has_next(k.repl), [Step("tidy", n, k.uri) EXCEPT !.src = k.src])
              \o << Ret(n, "OK") >>)
        /\ UNCHANGED <<peers, meta, dirs>>

(* MetadataBuilder::for_path throws when the file has been removed.        *)
PutFails(t) ==
    /\ Arrives(t, "received") /\ Call(t).uri \notin DOMAIN file[Call(t).to]
    /\ Done(t, Code("UNKNOWN"))
    /\ UNCHANGED <<peers, disk>>

(* The end of put when rebalancing: the successor of the last replica.     *)
PutTidies(t) ==
    LET k == Call(t)
        next == successor(k.by)
    IN  /\ Arrives(t, "tidy") /\ ~Blocked([k EXCEPT !.via = "owner"])
        /\ Then(t, When(next # successor_of(k.uri),
                        ToNode("del", k.by, next, k.uri, init_source(k.src, k.by))))
        /\ UNCHANGED <<peers, disk>>

-----------------------------------------------------------------------------
(* Service::meta.                                                          *)
Known(n, uri, md) == uri \in DOMAIN meta[n] /\ equal_basic(meta[n][uri], md)

AddRefused(t) ==
    /\ Accepts(t, "add") /\ Known(Call(t).to, Call(t).uri, Call(t).md)
    /\ Done(t, Code("ALREADY_EXISTS"))
    /\ UNCHANGED <<peers, disk>>

(* handle_meta_add: the directory learns of a uri that is new here, but as *)
(* of a directory; the entries that replicate go to the next peer.         *)
Add(t) ==
    LET k == Call(t)
        n == k.to
        md == IF is_mkdir(k.uri, k.md) THEN Single(Dot, create_directory(k.md)) ELSE k.md
        parent == Single(k.uri, create_directory(k.md))
        next == increase_replication_and_clean(k.md)
    IN  /\ Accepts(t, "add") /\ ~Known(n, k.uri, k.md)
        /\ Then(t, << Store(n, k.uri, Merged(Current(meta[n], k.uri), md)) >>
              \o When(/\ added(meta[n], k.uri, md) /\ Parent[k.uri] # k.uri
                      /\ max_replication(k.md).index = 0,
                      WithMetadata([ToOwner("add", n, Parent[k.uri]) EXCEPT !.src = k.src], parent))
              \o When(next # NoMetadata,
                      WithMetadata(ToSuccessor("add", n, k.uri, init_source(k.src, n)), next))
              \o << Ret(n, "OK") >>)
        /\ UNCHANGED <<peers, disk>>

(* An empty request, or a key that is missing, makes the handler throw,    *)
(* which meta catches.                                                     *)
DelMetaFails(t) ==
    LET k == Call(t)
    IN  /\ Accepts(t, "del_meta")
        /\ k.md = NoMetadata \/ k.uri \notin DOMAIN meta[k.to]
        /\ Done(t, Code("NOT_FOUND"))
        /\ UNCHANGED <<peers, disk>>

(* handle_meta_del; the next peer is asked even when nothing is left to    *)
(* delete there.                                                           *)
DelMeta(t) ==
    LET k == Call(t)
        n == k.to
        next == increase_replication_and_clean(deleted_entries(meta[n], k.uri, DOMAIN k.md))
    IN  /\ Accepts(t, "del_meta") /\ k.md # NoMetadata /\ k.uri \in DOMAIN meta[n]
        /\ Then(t, << Store(n, k.uri, del_entries(meta[n], k.uri, DOMAIN k.md)[k.uri]) >>
              \o When(~is_empty(next),
                      WithMetadata(ToSuccessor("del_meta", n, k.uri, init_source(k.src, n)), next))
              \o << Ret(n, "OK") >>)
        /\ UNCHANGED <<peers, disk>>

(* handle_meta_dir: names, types and hashes; node_ref is not in a          *)
(* MetaResponse.                                                           *)
Dir(t) ==
    LET k == Call(t)
    IN  /\ Accepts(t, "dir")
        /\ Done(t, IF k.uri \in DOMAIN meta[k.to]
                   THEN Answer("OK", IF is_directory(meta[k.to][k.uri]) THEN "dir" ELSE "file")
                   ELSE Code("NOT_FOUND"))
        /\ UNCHANGED <<peers, disk>>

-----------------------------------------------------------------------------
(* Service::del.                                                           *)
Here(n, uri) == uri \in DOMAIN file[n] \cup dirs[n]

Inside(n, dir) == {u \in DOMAIN file[n] \cup dirs[n] : u # dir /\ Parent[u] = dir}

LocallyEmpty(n, dir) == dir \in dirs[n] /\ Inside(n, dir) = {}

(* The entry the kind of a deletion depends on.                            *)
Element(md, uri) == IF is_directory(md) THEN {"dir"} ELSE {md[u].type : u \in DOMAIN md \cap {uri}}

Deletes(t, type) ==
    /\ Accepts(t, "del") /\ Call(t).uri \in DOMAIN meta[Call(t).to]
    /\ Element(meta[Call(t).to][Call(t).uri], Call(t).uri) = type

(* A file without metadata: what a shallow copy refers to.                 *)
DelReferenced(t) ==
    LET k == Call(t)
    IN  /\ Accepts(t, "del") /\ k.uri \in DOMAIN file[k.to] \ DOMAIN meta[k.to]
        /\ file' = [file EXCEPT ![k.to] = Without(@, {k.uri})]
        /\ Done(t, Code("OK"))
        /\ UNCHANGED <<peers, meta, dirs>>

DelFails(t) ==
    LET k == Call(t)
        unknown == k.uri \notin DOMAIN file[k.to] \cup DOMAIN meta[k.to]
    IN  /\ \/ Accepts(t, "del") /\ unknown /\ Done(t, Code("UNKNOWN"))
           \/ Deletes(t, {}) /\ Done(t, Code("NOT_FOUND"))
           \/ /\ Deletes(t, {"dir"}) /\ ~k.rec /\ Inside(k.to, k.uri) # {}
              /\ Done(t, Code("FAILED_PRECONDITION"))
        /\ UNCHANGED <<peers, disk>>

(* handle_del_dir and, in it, handle_del_recursive, which stops at the     *)
(* first failure.                                                          *)
DelDir(t) ==
    LET k == Call(t)
        n == k.to
        names == SetToSortSeq(DOMAIN meta[n][k.uri] \ Dots, <)
        delete(i) == [ToOwner("del", n, names[i]) EXCEPT
                         !.rec = TRUE, !.need = IF i = 1 THEN "any" ELSE "successful"]
    IN  /\ Deletes(t, {"dir"}) /\ (k.rec \/ Inside(n, k.uri) = {})
        /\ Then(t, (IF k.rec /\ ~LocallyEmpty(n, k.uri)
                    THEN [i \in DOMAIN names |-> delete(i)] ELSE << >>)
              \o << [k EXCEPT !.op = "deldir", !.by = n], Ret(n, "OK") >>)
        /\ UNCHANGED <<peers, disk>>

(* The rest of handle_del_dir, once the directory has been emptied.        *)
DelDirHere(t) ==
    LET k == Call(t)
        n == k.to
        md == meta[n][k.uri]
    IN  /\ Arrives(t, "deldir") /\ k.uri \in DOMAIN meta[n]
        /\ meta' = [meta EXCEPT ![n] = del(@, k.uri)]
        /\ Then(t, When(Replicates(Increased(max_replication(md))),
                        [ToSuccessor("del", n, k.uri, init_source(k.src, n)) EXCEPT !.rec = k.rec])
              \o << Step("rmdir", n, k.uri) >>
              \o When(k.src = None /\ Parent[k.uri] # k.uri,
                      WithMetadata(ToOwner("del_meta", n, Parent[k.uri]),
                                   Single(k.uri, Entry("dir", None, None, NONE)))))
        /\ UNCHANGED <<peers, file, dirs>>

DelDirThrows(t) ==
    /\ Arrives(t, "deldir") /\ Call(t).uri \notin DOMAIN meta[Call(t).to]
    /\ Throws(t)
    /\ UNCHANGED <<peers, disk>>

RemovesDir(t) ==
    LET k == Call(t)
    IN  /\ Arrives(t, "rmdir")
        /\ dirs' = [dirs EXCEPT ![k.to] = IF LocallyEmpty(k.to, k.uri) THEN @ \ {k.uri} ELSE @]
        /\ Then(t, << >>)
        /\ UNCHANGED <<peers, meta, file>>

(* handle_del_file.  A file that is only referred to is deleted where it   *)
(* is.  (Mutant first: it is left there.)                                  *)
KeepsReferred(n, ref) == FALSE

RefersElsewhere(n, ref) == ref \notin {None, this(n)}

DelFile(t) ==
    LET k == Call(t)
        n == k.to
        md == meta[n][k.uri]
        ref == md[k.uri].ref
        source == init_source(k.src, n)
        most == max_replication(md)
    IN  /\ Deletes(t, {"file"})
        /\ meta' = [meta EXCEPT ![n] = del(@, k.uri)]
        /\ Then(t, When(RefersElsewhere(n, ref), ToNode("del", n, ref, k.uri, source))
              \o << Step("rmfile", n, k.uri) >>
              \o When(Replicates(most) /\ has_next(most), ToSuccessor("del", n, k.uri, source))
              \o When(k.src = None, WithMetadata(ToOwner("del_meta", n, Parent[k.uri]), md))
              \o << Ret(n, "OK") >>)
        /\ UNCHANGED <<peers, file, dirs>>

RemovesFile(t) ==
    LET k == Call(t)
    IN  /\ Arrives(t, "rmfile")
        /\ file' = [file EXCEPT ![k.to] = Without(@, {k.uri})]
        /\ Then(t, << >>)
        /\ UNCHANGED <<peers, meta, dirs>>

-----------------------------------------------------------------------------
(* Service::mov: a put from the local file, then a del.  The name moved to *)
(* is in `data'.  (Mutant first: the two in the other order.)              *)
MovDeletesFirst(t) ==
    LET k == Call(t)
        n == k.to
    IN  /\ Accepts(t, "mov")
        /\ IF k.uri \in DOMAIN meta[n] /\ k.uri \in DOMAIN file[n]
           THEN Then(t, << ToOwner("del", n, k.uri),
                           [ToOwner("put", n, k.data) EXCEPT !.data = file[n][k.uri], !.need = "ok"] >>)
           ELSE Done(t, Code("NOT_FOUND"))
        /\ UNCHANGED <<peers, disk>>

Mov(t) ==
    LET k == Call(t)
        n == k.to
    IN  /\ Accepts(t, "mov")
        /\ IF k.uri \in DOMAIN meta[n] /\ k.uri \in DOMAIN file[n]
           THEN Then(t, << [ToOwner("put", n, k.data) EXCEPT !.data = file[n][k.uri]],
                           [ToOwner("del", n, k.uri) EXCEPT !.need = "ok"] >>)
           ELSE Done(t, Code("NOT_FOUND"))
        /\ UNCHANGED <<peers, disk>>

-----------------------------------------------------------------------------
(* Service::get.  A file that is not there is fetched from the peer that   *)
(* the metadata refers to, or from the next replica, into a file that is   *)
(* created first.                                                          *)
Fetch(n, uri, call, entry) ==
    << call, WithMetadata(Step("fetched", n, uri), Single(uri, entry)) >>

(* Mutant: a reference is taken for one to the peer itself.                *)
AsksItself(n, uri, entry) == ToNode("get", n, n, uri, None)

AsksFor(n, uri, entry) ==
    IF entry.ref # None THEN ToNode("get", n, entry.ref, uri, None) ELSE ToSuccessor("get", n, uri, None)

GetHere(t) ==
    LET k == Call(t)
    IN  /\ Arrives(t, "get") /\ k.uri \in DOMAIN file[k.to]
        /\ Done(t, Answer("OK", file[k.to][k.uri]))
        /\ UNCHANGED <<peers, disk>>

GetFails(t) ==
    LET k == Call(t)
        unknown == k.uri \notin DOMAIN meta[k.to]
        nowhere == begin(meta[k.to][k.uri]).ref = None /\ ~Replicates(begin(meta[k.to][k.uri]).repl)
    IN  /\ Arrives(t, "get") /\ k.uri \notin DOMAIN file[k.to]
        /\ \/ unknown /\ Done(t, Code("UNKNOWN"))
           \/ ~unknown /\ nowhere /\ Done(t, Code("CANCELLED"))
        /\ UNCHANGED <<peers, disk>>

(* get_from_reference_or_replication.                                      *)
GetElsewhere(t) ==
    LET k == Call(t)
        n == k.to
        entry == begin(meta[n][k.uri])
    IN  /\ Arrives(t, "get") /\ k.uri \in DOMAIN meta[n] \ DOMAIN file[n]
        /\ entry.ref # None \/ Replicates(entry.repl)
        /\ file' = [file EXCEPT ![n] = Assign(Single(k.uri, Blank), @)]
        /\ dirs' = [dirs EXCEPT ![n] = @ \cup Ancestors(k.uri)]
        /\ Then(t, Fetch(n, k.uri, AsksFor(n, k.uri, entry), entry))
        /\ UNCHANGED <<peers, meta>>

(* The reply to that get; a reference is dropped once the file is here,    *)
(* and the peer it named is told to delete the file.                       *)
Fetched(t) ==
    LET k == Call(t)
        n == k.to
        entry == k.md[k.uri]
        r == reply[t]
        here == [entry EXCEPT !.ref = None, !.hash = r.data]
        serve == [Step("get", n, k.uri) EXCEPT !.need = "ok"]
    IN  /\ Arrives(t, "fetched")
        /\ file' = [file EXCEPT ![n] =
               IF r.code = "OK" THEN Assign(Single(k.uri, r.data), @)
               ELSE IF entry.ref # None /\ Replicates(entry.repl) THEN Assign(Single(k.uri, Blank), @)
               ELSE @]
        /\ \/ r.code = "OK" /\ entry.ref = None /\ Then(t, << serve >>)
           \/ /\ r.code = "OK" /\ entry.ref # None
              /\ Then(t, << Store(n, k.uri, Merged(Current(meta[n], k.uri), Single(k.uri, here))),
                            ToNode("del", n, entry.ref, k.uri, None), serve >>)
           \/ /\ r.code # "OK" /\ entry.ref # None /\ Replicates(entry.repl)
              /\ Then(t, Fetch(n, k.uri, ToSuccessor("get", n, k.uri, None), [entry EXCEPT !.ref = None]))
           \/ /\ r.code # "OK" /\ (entry.ref = None \/ ~Replicates(entry.repl))
              /\ Done(t, IF entry.ref = None THEN r ELSE Code("CANCELLED"))
        /\ UNCHANGED <<peers, meta, dirs>>

(* What a thread may do next.                                              *)
Serve(t) ==
    \/ Skipped(t) \/ Unreachable(t) \/ LookupDone(t) \/ Returned(t) \/ Stored(t) \/ Refused(t)
    \/ PutBegins(t) \/ Put(t) \/ PutFails(t) \/ PutTidies(t)
    \/ AddRefused(t) \/ Add(t) \/ DelMetaFails(t) \/ DelMeta(t) \/ Dir(t)
    \/ DelReferenced(t) \/ DelFails(t) \/ DelDir(t) \/ DelDirHere(t) \/ DelDirThrows(t)
    \/ RemovesDir(t) \/ DelFile(t) \/ RemovesFile(t) \/ Mov(t)
    \/ GetHere(t) \/ GetFails(t) \/ GetElsewhere(t) \/ Fetched(t)
=============================================================================
