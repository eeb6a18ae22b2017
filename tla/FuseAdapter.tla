---------------------------- MODULE FuseAdapter -----------------------------
(***************************************************************************)
(* chord::fuse::Adapter (fuse/chord.fuse.adapter.cc): the file system of   *)
(* the ring, mounted.  A file that is opened is fetched into the journal   *)
(* directory, read and written there, and put back when it is closed.      *)
(*                                                                         *)
(* The mount runs as README.md says, with `chord_fuse -s': one call at a   *)
(* time, so a call is one step.  `store' is the ring as fs::Facade shows   *)
(* it (FileFacade models it): one content per uri, which other peers write *)
(* too, and calls of which may fail.                                       *)
(*                                                                         *)
(* External: libfuse passes the current name of an open file to a call,    *)
(* removes no open file (it renames it) and lets nothing be renamed onto   *)
(* an open one.  Only regular files are modelled.                          *)
(***************************************************************************)
EXTENDS Naturals, FiniteSets

CONSTANTS
    Uri, Content, None,
    Blank,         \* the content of an empty or half-fetched file
    Handle,        \* open files of the kernel
    Inode,         \* files in the journal, open ones that were removed included
    MaxForeign,    \* bound on what other peers do
    MaxFailures,   \* bound on the calls that fail
    MaxCrashes     \* bound on the times the process ends

OpenFile == [uri : Uri, inode : Inode, moved : BOOLEAN]

ASSUME FuseAdapterAssumption ==
    /\ {None, Blank} \cap Content = {} /\ None # Blank
    /\ None \notin Inode /\ None \notin OpenFile
    /\ IsFiniteSet(Inode) /\ IsFiniteSet(Uri) /\ IsFiniteSet(Handle)
    /\ Cardinality(Inode) > Cardinality(Uri) + Cardinality(Handle)

VARIABLES
    store,         \* store[u], what the ring holds under u, or None
    journal,       \* journal[u], the journal file of u, or None
    content,       \* content[i], what is in the journal file i
    handle,        \* handle[h], the OpenFile, or None
    died,          \* why the process ended, or None while it runs
    latest,        \* latest[u], the content last written to u
    spoiled,       \* uris of which nothing is promised any more
    foreign, failures, crashes

vars == <<store, journal, content, handle, died, latest, spoiled, foreign, failures, crashes>>

Open == {h \in Handle : handle[h] # None}
OpenAt(u) == {h \in Open : handle[h].uri = u}

Init ==
    /\ store \in [Uri -> Content \cup {None}]
    /\ journal = [u \in Uri |-> None]
    /\ content = [i \in Inode |-> Blank]
    /\ handle = [h \in Handle |-> None]
    /\ died = None
    /\ latest = store
    /\ spoiled = {}
    /\ foreign = 0 /\ failures = 0 /\ crashes = 0

-----------------------------------------------------------------------------
Fresh == CHOOSE i \in Inode :
            /\ \A u \in Uri : journal[u] # i
            /\ \A h \in Open : handle[h].inode # i

(* Whether a call of the file system succeeds.  One that fails leaves the  *)
(* uris it is about spoiled; the ring may have done what it asked for.     *)
Outcome(ok, uris) ==
    IF ok
    THEN UNCHANGED <<failures, spoiled>>
    ELSE /\ failures < MaxFailures
         /\ failures' = failures + 1
         /\ spoiled' = spoiled \cup uris

(* Mutant: a file that is there already is not uploaded.                   *)
PutNew(u, c, ok) ==
    /\ Outcome(ok, {u})
    /\ store' = IF store[u] = None THEN [store EXCEPT ![u] = c] ELSE store

(* fs->put(journal_path, uri) of content c.                                *)
Put(u, c, ok) ==
    /\ Outcome(ok, {u})
    /\ store' \in IF ok THEN {[store EXCEPT ![u] = c]}
                  ELSE {store, [store EXCEPT ![u] = c]}

(* chord::file::file_size throws if the file is not there, out of a        *)
(* callback of libfuse: the process is terminated.                         *)
file_size(u) == died' = IF journal[u] = None THEN "exception" ELSE died

clean_journal(uris) == journal' = [u \in Uri |-> IF u \in uris THEN None ELSE journal[u]]

running == died = None
others == <<foreign, crashes>>

-----------------------------------------------------------------------------
(* A file left in the journal is opened as it is, unless O_TRUNC is given. *)
(* If the put fails the descriptor is not given back.                      *)
create(h, u, trunc) ==
    LET i == IF journal[u] = None THEN Fresh ELSE journal[u]
        c == IF trunc \/ journal[u] = None THEN Blank ELSE content[i]
    IN  /\ running /\ handle[h] = None /\ store[u] = None
        /\ journal' = [journal EXCEPT ![u] = i]
        /\ content' = [content EXCEPT ![i] = c]
        /\ \E ok \in BOOLEAN :
             /\ Put(u, c, ok)
             /\ handle' = IF ok THEN [handle EXCEPT ![h] = [uri |-> u, inode |-> i, moved |-> FALSE]]
                          ELSE handle
        /\ latest' = [latest EXCEPT ![u] = c]
        /\ UNCHANGED <<died, others>>

(* The null fuse_file_info is dereferenced in open_local.                  *)
mknod(u) ==
    /\ running /\ store[u] = None
    /\ died' = "null"
    /\ UNCHANGED <<store, journal, content, handle, latest, spoiled, failures, others>>

(* fs->get(uri, journal_path), and what open(2) does to the file then.  A  *)
(* get that fails has created the journal file already.                    *)
get(u, i, ok, trunc) ==
    /\ Outcome(ok, {u})
    /\ journal' \in IF ok THEN {[journal EXCEPT ![u] = i]}
                    ELSE {journal, [journal EXCEPT ![u] = i]}
    /\ content' = [content EXCEPT ![i] = IF ok /\ ~trunc THEN store[u] ELSE Blank]

open(h, u, trunc) ==
    /\ running /\ handle[h] = None /\ store[u] # None
    /\ \/ /\ journal[u] # None
          /\ handle' = [handle EXCEPT ![h] = [uri |-> u, inode |-> journal[u], moved |-> FALSE]]
          /\ content' = IF trunc THEN [content EXCEPT ![journal[u]] = Blank] ELSE content
          /\ latest' = IF trunc THEN [latest EXCEPT ![u] = Blank] ELSE latest
          /\ UNCHANGED <<journal, failures, spoiled>>
       \/ /\ journal[u] = None
          /\ \E ok \in BOOLEAN :
               /\ get(u, Fresh, ok, trunc)
               /\ latest' = IF ok /\ trunc THEN [latest EXCEPT ![u] = Blank] ELSE latest
               /\ handle' = IF ok THEN [handle EXCEPT ![h] = [uri |-> u, inode |-> Fresh, moved |-> FALSE]]
                            ELSE handle
    /\ UNCHANGED <<store, died, others>>

(* write and truncate go to the open file, whatever its name is by now,    *)
(* and then log the size of the file under that name.  A truncate by path  *)
(* has no open file: truncate then reads a null fi, which is a Crash.      *)
write(h, c) ==
    /\ running /\ h \in Open
    /\ content' = [content EXCEPT ![handle[h].inode] = c]
    /\ file_size(handle[h].uri)
    /\ latest' = IF handle[h].moved THEN latest ELSE [latest EXCEPT ![handle[h].uri] = c]
    /\ UNCHANGED <<store, journal, handle, spoiled, failures, others>>

truncate(h) == write(h, Blank)

(* What is put is the file under the name, not the one that is open.       *)
flush(h) ==
    LET u == handle[h].uri
    IN  /\ running /\ h \in Open
        /\ file_size(u)
        /\ IF journal[u] = None
           THEN UNCHANGED <<store, spoiled, failures>>
           ELSE \E ok \in BOOLEAN : Put(u, content[journal[u]], ok)
        /\ UNCHANGED <<journal, content, handle, latest, others>>

(* Mutant: the journal is cleaned when the put succeeded.                  *)
CleanWhenStored(ok) == ok

(* `if(!status) return -ENOENT': flush returns 0 when it succeeded, and    *)
(* the journal is cleaned when it did not.                                 *)
CleanAfter(ok) == ~ok

release(h) ==
    LET u == handle[h].uri
    IN  /\ running /\ h \in Open
        /\ file_size(u)
        /\ IF journal[u] = None
           THEN UNCHANGED <<store, journal, handle, spoiled, failures>>
           ELSE \E ok \in BOOLEAN :
                  /\ Put(u, content[journal[u]], ok)
                  /\ clean_journal(IF CleanAfter(ok) THEN {u} ELSE {})
                  /\ handle' = [handle EXCEPT ![h] = None]
        /\ UNCHANGED <<content, latest, others>>

(* Mutant: the journal of the target is forgotten.                         *)
CleansSource(src, dst) == {src}

Cleans(src, dst) == {src, dst}

(* An open file follows its name, but what was written to it and not put   *)
(* is lost with the journal.                                               *)
rename(src, dst) ==
    /\ running /\ src # dst /\ store[src] # None /\ OpenAt(dst) = {}
    /\ \/ /\ store' = [store EXCEPT ![dst] = store[src], ![src] = None]
          /\ clean_journal(Cleans(src, dst))
          /\ handle' = [h \in Handle |->
                IF h \in OpenAt(src) THEN [handle[h] EXCEPT !.uri = dst, !.moved = TRUE]
                ELSE handle[h]]
          /\ latest' = [latest EXCEPT ![dst] = latest[src], ![src] = None]
          /\ spoiled' = (spoiled \ {src, dst}) \cup
                           (IF OpenAt(src) # {} \/ src \in spoiled THEN {dst} ELSE {})
          /\ UNCHANGED failures
       \/ /\ Outcome(FALSE, {src, dst})
          /\ store' \in {store, [store EXCEPT ![dst] = store[src], ![src] = None]}
          /\ UNCHANGED <<journal, handle, latest>>
    /\ UNCHANGED <<content, died, others>>

unlink(u) ==
    /\ running /\ store[u] # None /\ OpenAt(u) = {}
    /\ \/ /\ store' = [store EXCEPT ![u] = None]
          /\ clean_journal({u})
          /\ latest' = [latest EXCEPT ![u] = None]
          /\ spoiled' = spoiled \ {u}
          /\ UNCHANGED failures
       \/ /\ Outcome(FALSE, {u})
          /\ store' \in {store, [store EXCEPT ![u] = None]}
          /\ UNCHANGED <<journal, latest>>
    /\ UNCHANGED <<content, handle, died, others>>

-----------------------------------------------------------------------------
(* Another peer puts or deletes a file: nobody tells this one.             *)
Foreign(u, c) ==
    /\ foreign < MaxForeign
    /\ foreign' = foreign + 1
    /\ store[u] # c
    /\ store' = [store EXCEPT ![u] = c]
    /\ latest' = [latest EXCEPT ![u] = c]
    /\ spoiled' = IF journal[u] = None THEN spoiled ELSE spoiled \cup {u}
    /\ UNCHANGED <<journal, content, handle, died, failures, crashes>>

(* The process is killed, or dies of the null fi of a truncate by path, or *)
(* is restarted after it ended.  The journal is on disk and is not looked  *)
(* at.                                                                     *)
Crash ==
    /\ running /\ crashes < MaxCrashes
    /\ crashes' = crashes + 1
    /\ died' = "killed"
    /\ UNCHANGED <<store, journal, content, handle, latest, spoiled, foreign, failures>>

Restart ==
    /\ ~running
    /\ died' = None
    /\ handle' = [h \in Handle |-> None]
    /\ spoiled' = spoiled \cup {handle[h].uri : h \in Open}
    /\ UNCHANGED <<store, journal, content, latest, foreign, failures, crashes>>

Next ==
    \/ \E h \in Handle, u \in Uri, trunc \in BOOLEAN : create(h, u, trunc) \/ open(h, u, trunc)
    \/ \E h \in Handle : truncate(h) \/ flush(h) \/ release(h)
    \/ \E h \in Handle, c \in Content : write(h, c)
    \/ \E u, v \in Uri : rename(u, v)
    \/ \E u \in Uri : mknod(u) \/ unlink(u)
    \/ \E u \in Uri, c \in Content \cup {None} : Foreign(u, c)
    \/ Crash \/ Restart

Spec == Init /\ [][Next]_vars

-----------------------------------------------------------------------------
(* What was written last through the mount is in the ring once nobody has  *)
(* the file open, however often it was opened, closed and renamed -- unless *)
(* it was renamed while it was open, another peer wrote it while it was in *)
(* the journal, a call about it failed (release then deletes the journal   *)
(* file, the only copy) or the process ended while it was open.            *)
WritesStored ==
    running => \A u \in Uri \ spoiled : OpenAt(u) = {} => store[u] = latest[u]

(* "We re-use files from journal" (open): a file that no handle has open   *)
(* is in the journal as it is in the ring, so that opening it again        *)
(* operates on the latest version.  It is so although release never cleans *)
(* the journal of a file it has put, unless another peer wrote the file, a *)
(* call about it failed, or the process ended while it was open.           *)
Coherent ==
    \A u \in Uri \ spoiled :
        running /\ OpenAt(u) = {} /\ journal[u] # None => content[journal[u]] = store[u]

(* A handle writes to the very file that flush puts, whoever else has it   *)
(* open and closes it, until the file is renamed.                          *)
Attached ==
    \A h \in Open : ~handle[h].moved /\ handle[h].uri \notin spoiled
                        => journal[handle[h].uri] = handle[h].inode

=============================================================================
