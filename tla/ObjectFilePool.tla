--------------------------- MODULE ObjectFilePool ---------------------------
(***************************************************************************)
(* The pool of object files (pkg/objectfile/pool.go, object_file.go).      *)
(*                                                                         *)
(* The pool caches an ObjectFile by value, so what it hands out later are  *)
(* copies that share the descriptor and the RWMutex of the first one. Only *)
(* that first one, the original, has the finalizer that closes the         *)
(* descriptor; it runs when no user holds the original any more, copies or *)
(* not.                                                                    *)
(***************************************************************************)
EXTENDS Naturals, Sequences, FiniteSets

CONSTANTS
    Users,     \* goroutines that open and read object files
    Nesting,   \* those that hold ELF() while they call Reader(), as Extract does
    Paths,
    BuildID,   \* path |-> build ID of the file
    MaxFiles   \* bound: descriptors opened in a behaviour

Builds == {BuildID[p] : p \in Paths}

ASSUME PoolAssumption == IsFiniteSet(Users) /\ Nesting \subseteq Users /\ MaxFiles \in Nat

VARIABLES
    known,   \* buildIDCache: paths whose build ID is cached
    cached,  \* objCache: build ID |-> the object file cached, 0 if none
    files,   \* the originals, in the order they were opened: [build, state, readers]
    user     \* user |-> [at, path, file, original, began]

poolVars == <<known, cached, files, user>>

\* A file is "open" until its finalizer runs. "closing" is a finalizer that waits for the
\* mutex in close, "released" one that has left close and not closed the descriptor yet.
Open(n) == files[n].state # "closed"
NoUse == [at |-> "idle", path |-> CHOOSE p \in Paths : TRUE, file |-> 0, original |-> FALSE, began |-> "none"]
Holding(u, n, original) ==
    user' = [user EXCEPT ![u] = [NoUse EXCEPT !.at = "have", !.file = n, !.original = original]]

PoolInit ==
    /\ known = {}
    /\ cached = [b \in Builds |-> 0]
    /\ files = <<>>
    /\ user = [u \in Users |-> NoUse]

-----------------------------------------------------------------------------
(* Opening. *)

\* Pool.Open of a path whose build ID is known: a copy of the cached object file, or an
\* error if the pool has none.
OpenKnown(u, p) ==
    /\ user[u].at = "idle" /\ p \in known
    /\ IF cached[BuildID[p]] # 0 THEN Holding(u, cached[BuildID[p]], FALSE) ELSE UNCHANGED user
    /\ UNCHANGED <<known, cached, files>>

\* Pool.Open of another path: NewFile opens it and looks for its build ID; if that is
\* cached the new descriptor is closed and a copy returned.
OpenPath(u, p) ==
    /\ user[u].at = "idle" /\ p \notin known
    /\ IF cached[BuildID[p]] # 0 THEN Holding(u, cached[BuildID[p]], FALSE)
       ELSE user' = [user EXCEPT ![u] = [NoUse EXCEPT !.at = "new", !.path = p]]
    /\ UNCHANGED <<known, cached, files>>

\* The rest of NewFile: an original with a finalizer; a copy goes to the cache.
NewFile(u) ==
    /\ user[u].at = "new" /\ Len(files) < MaxFiles
    /\ LET p == user[u].path IN
       /\ files' = Append(files, [build |-> BuildID[p], state |-> "open", readers |-> 0])
       /\ known' = known \cup {p}
       /\ cached' = [cached EXCEPT ![BuildID[p]] = Len(files) + 1]
       /\ Holding(u, Len(files) + 1, TRUE)

-----------------------------------------------------------------------------
(* Reading. *)

\* RLock of a sync.RWMutex waits behind a writer that waits.
RLock(n) ==
    /\ files[n].state # "closing"
    /\ files' = [files EXCEPT ![n].readers = @ + 1]

\* ELF() or Reader(): a copy does not see that the original was closed.
ELF(u) ==
    /\ user[u].at = "have"
    /\ RLock(user[u].file)
    /\ user' = [user EXCEPT ![u].at = "read", ![u].began = files[user[u].file].state]
    /\ UNCHANGED <<known, cached>>

\* Reader() below ELF().
Reader(u) ==
    /\ u \in Nesting /\ user[u].at = "read"
    /\ RLock(user[u].file)
    /\ user' = [user EXCEPT ![u].at = "readTwice"]
    /\ UNCHANGED <<known, cached>>

\* The release functions.
Release(u) ==
    /\ user[u].at = IF u \in Nesting THEN "readTwice" ELSE "read"
    /\ files' = [files EXCEPT ![user[u].file].readers = @ - IF user[u].at = "read" THEN 1 ELSE 2]
    /\ user' = [user EXCEPT ![u].at = "have", ![u].began = "none"]
    /\ UNCHANGED <<known, cached>>

\* Mutant: a mapping keeps the reference to the original it opened.
DropCopies(u) ==
    /\ user[u].at = "have" /\ ~user[u].original
    /\ user' = [user EXCEPT ![u] = NoUse]
    /\ UNCHANGED <<known, cached, files>>

\* After the deferred HoldOn the reference is dropped.
Drop(u) ==
    /\ user[u].at = "have"
    /\ user' = [user EXCEPT ![u] = NoUse]
    /\ UNCHANGED <<known, cached, files>>

-----------------------------------------------------------------------------
(* Caches and finalizers. *)

\* Entries expire when they were not accessed for some time: a path first, because
\* every access to it is followed by one to its object file.
ExpirePath(p) ==
    /\ p \in known
    /\ known' = known \ {p}
    /\ UNCHANGED <<cached, files, user>>

ExpireFile(b) ==
    /\ cached[b] # 0 /\ \A p \in known : BuildID[p] # b
    /\ cached' = [cached EXCEPT ![b] = 0]
    /\ UNCHANGED <<known, files, user>>

\* The garbage collector finds the original unreachable; the one finalizer goroutine
\* calls close, which asks for the mutex.
Finalize(n) ==
    /\ n \in DOMAIN files /\ files[n].state = "open"
    /\ \A m \in DOMAIN files : files[m].state \in {"open", "closed"}
    /\ \A u \in Users : ~(user[u].file = n /\ user[u].original)
    /\ files' = [files EXCEPT ![n].state = "closing"]
    /\ UNCHANGED <<known, cached, user>>

\* Mutant: close does not take the mutex.
CloseNow(n) ==
    /\ n \in DOMAIN files /\ files[n].state = "closing"
    /\ files' = [files EXCEPT ![n].state = "released"]
    /\ UNCHANGED <<known, cached, user>>

\* close gets the mutex, marks the original, which nobody has any more, as closed, and
\* releases the mutex. The elf.File it closes does not own the descriptor.
Close(n) ==
    /\ n \in DOMAIN files /\ files[n].state = "closing" /\ files[n].readers = 0
    /\ files' = [files EXCEPT ![n].state = "released"]
    /\ UNCHANGED <<known, cached, user>>

\* The finalizer goes on, without the mutex, to f.Close(), which closes the descriptor.
CloseFile(n) ==
    /\ n \in DOMAIN files /\ files[n].state = "released"
    /\ files' = [files EXCEPT ![n].state = "closed"]
    /\ UNCHANGED <<known, cached, user>>

Use(u) == NewFile(u) \/ ELF(u) \/ Reader(u) \/ Release(u)

PoolNext ==
    \/ \E u \in Users : Use(u) \/ Drop(u) \/ \E p \in Paths : OpenKnown(u, p) \/ OpenPath(u, p)
    \/ \E p \in Paths : ExpirePath(p)
    \/ \E b \in Builds : ExpireFile(b)
    \/ \E n \in 1..MaxFiles : Finalize(n) \/ Close(n) \/ CloseFile(n)

\* Users go on and drop what they hold, and the garbage collector runs.
Fairness ==
    /\ \A u \in Users : WF_poolVars(NewFile(u) \/ Reader(u) \/ Release(u)) /\ SF_poolVars(Drop(u))
    /\ SF_poolVars(\E n \in 1..MaxFiles : Finalize(n))
    /\ WF_poolVars(\E n \in 1..MaxFiles : Close(n) \/ CloseFile(n))

PoolSpec == PoolInit /\ [][PoolNext]_poolVars
FairPool == PoolSpec /\ Fairness

-----------------------------------------------------------------------------
(* Properties. *)

Reading(n) == {u \in Users : user[u].file = n /\ user[u].at \in {"read", "readTwice"}}

\* The caches, the descriptors and the users have their types, and every mutex counts
\* its readers.
PoolTypeOK ==
    /\ known \subseteq Paths
    /\ cached \in [Builds -> 0..Len(files)]
    /\ \A u \in Users : user[u].at \in {"idle", "new", "have", "read", "readTwice"} /\ user[u].file \in 0..Len(files)
    /\ \A n \in DOMAIN files :
         /\ files[n].state \in {"open", "closing", "released", "closed"}
         /\ files[n].readers = Cardinality(Reading(n)) + Cardinality({u \in Reading(n) : user[u].at = "readTwice"})

\* A read that began before the finalizer got the mutex has its descriptor until the
\* release, though close and f.Close() are two steps and only the first waits for readers:
\* the finalizer takes them in that order, and the copies share the mutex.
ReadsStaySound == \A n \in DOMAIN files : \A u \in Reading(n) : user[u].began = "open" => Open(n)

\* A finalizer waits for a user that is about to ask for a second read lock.
Stuck(n) == n \in DOMAIN files /\ files[n].state = "closing" /\ \E u \in Reading(n) \cap Nesting : user[u].at = "read"

\* Every descriptor is closed in the end, though it was cached and copied, unless the
\* one finalizer goroutine and a user that reads twice wait for each other.
FilesClose ==
    \A n \in 1..MaxFiles :
      n \in DOMAIN files ~> (n \in DOMAIN files /\ files[n].state = "closed") \/ \E m \in 1..MaxFiles : Stuck(m)

-----------------------------------------------------------------------------
(* Statements of the repository that the code does not live up to. *)

\* pool.go:145: Open "creates a new ObjectFile reference" and "the file will be closed
\* when the reference is released": while a user has a reference its file is open.
HeldFilesAreOpen == \A u \in Users : user[u].file # 0 => Open(user[u].file)

\* object_file.go:117: close "closes the underlying file descriptor": who gets the mutex
\* after it finds the descriptor closed, and who finds it open keeps it.
OpenReadsStayOpen == \A n \in DOMAIN files : \A u \in Reading(n) : user[u].began # "closed" => Open(n)

\* object_file.go:85: "Parallel reads are allowed.": a user that reads gets on with it.
ReadsReturn == \A u \in Users : user[u].at = "read" ~> user[u].at = "have"
=============================================================================
