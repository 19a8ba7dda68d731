------------------------------ MODULE DbFiles -------------------------------
(***************************************************************************)
(* The database files (internal/db: db.go, migrate.go, encrypt.go): how    *)
(* the service and the hourly run-rules command open imap.db, split a      *)
(* layout older than 0.6.0, add missing columns and rebuild cache.db, and  *)
(* how `imap-mcp db encrypt` replaces a plaintext imap.db.  Processes die  *)
(* between any two steps.  Rows are counted, not told apart.               *)
(***************************************************************************)
EXTENDS Integers, FiniteSets

CONSTANTS
    Proc,           \* processes that open the files
    Server,         \* those of them that open cache.db, too (run-rules when it can)
    Object,         \* tables and triggers of the cache
    MaxWrites,      \* bound: rows ever stored
    MaxDeaths       \* bound: deaths

\* The bounds count; a row is there from the start.
ParamAssumption == Server \subseteq Proc /\ MaxWrites \in Nat \ {0} /\ MaxDeaths \in Nat

VARIABLES
    key,        \* the configuration holds an encryption key
    file,       \* imap.db
    wal,        \* rows in imap.db-wal, not yet in the file
    index,      \* the message index: "none", "built" with its graph edges, "unbuilt", "restarted"
    backups,    \* rows of each whole backup of the old layout
    cache,      \* cache.db: the age of each object, and whether user_version is the program's
    proc,       \* [Proc -> its opener; todo: the cache's objects it has still to drop]
    enc,        \* the encrypt command: its step and the rows of its copy
    written,    \* rows a process was told are stored
    intruded,   \* a process opened imap.db while encrypt had it
    deaths

dbVars == <<key, file, wal, index, backups, cache, proc, enc, written, intruded, deaths>>

Closed == [step |-> "closed", key |-> FALSE, before |-> 0, lost |-> FALSE, todo |-> {}]
Idle   == [step |-> "idle", rows |-> 0]
CacheOf(age) == [objects |-> [o \in Object |-> age], current |-> age = "new"]

\* Every layout the program has ever left behind, and no file at all; the
\* oldest kept everything in imap.db.
Init ==
    /\ key \in BOOLEAN
    /\ file \in [kind : {"plain"}, layout : {"legacy", "kgless", "current"}, rows : {1}]
             \cup {[kind |-> "none", layout |-> "none", rows |-> 0]}
             \cup {f \in [kind : {"cipher"}, layout : {"kgless", "current"}, rows : {1}] : key}
    /\ wal = 0 /\ written = file.rows /\ index = CASE file.layout = "current" -> "built" [] file.layout = "kgless" -> "unbuilt" [] OTHER -> "none"
    /\ backups = {} /\ cache \in {CacheOf(age) : age \in IF file.layout \in {"legacy", "none"} THEN {"none"} ELSE {"old", "new"}}
    /\ proc = [p \in Proc |-> Closed] /\ enc = Idle /\ intruded = FALSE /\ deaths = 0

Readable == file.rows + wal
IsOpen(p) == proc[p].step \in {"backup", "split", "columns", "rescan", "cache", "drop", "create", "run"}
Locked   == enc.step \in {"copy", "swap"}
Goto(p, s) == proc' = [proc EXCEPT ![p].step = s]

-----------------------------------------------------------------------------
(* migrateLegacy                                                           *)

\* A process reads the configuration, and whether there is a key.
Start(p) ==
    /\ proc[p].step = "closed" /\ proc' = [proc EXCEPT ![p] = [Closed EXCEPT !.step = "migrate", !.key = key]]
    /\ UNCHANGED <<key, file, wal, index, backups, cache, enc, written, intruded, deaths>>

Detect(p) ==
    /\ proc[p].step = "migrate"
    /\ Goto(p, IF file.kind # "plain" THEN "open" ELSE IF Locked THEN "closed"
               ELSE IF file.layout = "legacy" THEN "backup" ELSE "open")
    /\ UNCHANGED <<key, file, wal, index, backups, cache, enc, written, intruded, deaths>>

\* The copy, and the fingerprint it and the split are compared with.
Backup(p) ==
    /\ proc[p].step = "backup" /\ file.kind = "plain"
    /\ backups' = backups \cup {Readable}
    /\ proc' = [proc EXCEPT ![p].step = "split", ![p].before = Readable]
    /\ UNCHANGED <<key, file, wal, index, cache, enc, written, intruded, deaths>>

\* One IMMEDIATE transaction, which does nothing when it finds the split done
\* and is rolled back when the state has changed.
Split(p) ==
    /\ proc[p].step = "split" /\ file.kind = "plain"
    /\ IF file.layout = "legacy" /\ proc[p].before = Readable
       THEN file' = [file EXCEPT !.layout = "bare"] /\ Goto(p, "open") /\ index' = "none"
       ELSE Goto(p, IF file.layout = "legacy" THEN "closed" ELSE "open") /\ UNCHANGED <<file, index>>
    /\ UNCHANGED <<key, wal, backups, cache, enc, written, intruded, deaths>>

-----------------------------------------------------------------------------
(* openFile and migrateState                                               *)

\* Refused: plaintext with a key, ciphertext without one, and a wrong state
\* of the lock.  A missing file is created, encrypted where there is a key.
Refused(p) == (file.kind = "plain" /\ proc[p].key) \/ (file.kind = "cipher" /\ ~proc[p].key)

Open(p) ==
    /\ proc[p].step = "open"
    /\ Goto(p, IF Refused(p) THEN "closed" ELSE IF Locked THEN "wait" ELSE "columns")
    /\ file' = IF file.kind = "none" THEN [kind |-> IF proc[p].key THEN "cipher" ELSE "plain", layout |-> "empty", rows |-> 0] ELSE file
    /\ intruded' = (intruded \/ (enc.step # "idle" /\ ~Refused(p)))
    /\ UNCHANGED <<key, wal, index, backups, cache, enc, written, deaths>>

\* The lock is waited for five seconds.  A file that was replaced meanwhile
\* stays open under no name.
Wait(p, late) ==
    /\ proc[p].step = "wait" /\ (late \/ ~Locked)
    /\ proc' = [proc EXCEPT ![p].step = IF late THEN "closed" ELSE "columns", ![p].lost = ~late /\ file.kind = "cipher"]
    /\ UNCHANGED <<key, file, wal, index, backups, cache, enc, written, intruded, deaths>>

\* The schema creates what is missing, columns are added to what is there,
\* one statement after another.
AddColumns(p) ==
    LET late == file.layout = "kgless" /\ ~proc[p].lost IN
    /\ proc[p].step = "columns"
    /\ Goto(p, IF late THEN "rescan" ELSE IF p \in Server THEN "cache" ELSE "run")
    /\ file' = IF late \/ (file.layout \in {"empty", "bare"} /\ ~proc[p].lost) THEN [file EXCEPT !.layout = "current"] ELSE file
    /\ UNCHANGED <<key, wal, index, backups, cache, enc, written, intruded, deaths>>

RestartScan(p) ==
    /\ proc[p].step = "rescan" /\ Goto(p, IF p \in Server THEN "cache" ELSE "run")
    /\ index' = IF proc[p].lost THEN index ELSE "restarted"
    /\ UNCHANGED <<key, file, wal, backups, cache, enc, written, intruded, deaths>>

-----------------------------------------------------------------------------
(* ensureCacheSchema: what is stale is dropped object by object, and the   *)
(* version is stored last.                                                 *)

\* user_version, read once: another one has the old objects dropped.
ReadVersion(p) ==
    /\ proc[p].step = "cache"
    /\ proc' = [proc EXCEPT ![p].step = "drop", ![p].todo = IF cache.current THEN {} ELSE Object]
    /\ UNCHANGED <<key, file, wal, index, backups, cache, enc, written, intruded, deaths>>

\* Nothing is dropped from a cache found empty.
Empty == \A o \in Object : cache.objects[o] = "none"

DropObject(p, o) ==
    /\ proc[p].step = "drop" /\ o \in proc[p].todo /\ ~(proc[p].todo = Object /\ Empty)
    /\ proc' = [proc EXCEPT ![p].todo = @ \ {o}] /\ cache' = [cache EXCEPT !.objects[o] = "none"]
    /\ UNCHANGED <<key, file, wal, index, backups, enc, written, intruded, deaths>>

CreateCache(p) ==
    /\ proc[p].step = "drop" /\ (proc[p].todo = {} \/ (proc[p].todo = Object /\ Empty))
    /\ proc' = [proc EXCEPT ![p].step = "create", ![p].todo = {}]
    /\ cache' = [cache EXCEPT !.objects = [o \in Object |-> IF @[o] = "none" THEN "new" ELSE @[o]]]
    /\ UNCHANGED <<key, file, wal, index, backups, enc, written, intruded, deaths>>

SetVersion(p) ==
    /\ proc[p].step = "create" /\ cache' = [cache EXCEPT !.current = TRUE] /\ Goto(p, "run")
    /\ UNCHANGED <<key, file, wal, index, backups, enc, written, intruded, deaths>>

-----------------------------------------------------------------------------
(* At work.  A process whose file or whose log was taken from its path     *)
(* writes where nobody will read.                                          *)

Write(p) ==
    /\ proc[p].step = "run" /\ written < MaxWrites /\ ~(Locked /\ ~proc[p].lost)
    /\ written' = written + 1 /\ wal' = IF proc[p].lost THEN wal ELSE wal + 1
    /\ UNCHANGED <<key, file, index, backups, cache, proc, enc, intruded, deaths>>

\* The last one to close moves the log into the file.
Close(p) ==
    LET last == ~proc[p].lost /\ \A q \in Proc \ {p} : ~IsOpen(q) \/ proc[q].lost IN
    /\ proc[p].step = "run" /\ proc' = [proc EXCEPT ![p] = Closed]
    /\ file' = IF last THEN [file EXCEPT !.rows = Readable] ELSE file
    /\ wal' = IF last THEN 0 ELSE wal
    /\ UNCHANGED <<key, index, backups, cache, enc, written, intruded, deaths>>

Die(p) ==
    /\ deaths < MaxDeaths /\ deaths' = deaths + 1 /\ proc[p].step # "closed" /\ proc' = [proc EXCEPT ![p] = Closed]
    /\ UNCHANGED <<key, file, wal, index, backups, cache, enc, written, intruded>>

-----------------------------------------------------------------------------
(* Encrypt                                                                 *)

SetKey ==
    /\ ~key /\ key' = TRUE
    /\ UNCHANGED <<file, wal, index, backups, cache, proc, enc, written, intruded, deaths>>

\* Leaving WAL mode fails while another process has the file open.
\* Variant: the lock is taken whoever has it open.
LockableAnyway == file.kind = "plain"
Lockable == file.kind = "plain" /\ \A p \in Proc : ~IsOpen(p) \/ proc[p].lost

LockExclusive ==
    /\ enc.step = "idle" /\ key /\ Lockable
    /\ enc' = [Idle EXCEPT !.step = "copy"]
    /\ file' = [file EXCEPT !.rows = Readable] /\ wal' = 0
    /\ UNCHANGED <<key, index, backups, cache, proc, written, intruded, deaths>>

\* VACUUM INTO, the key and the digests checked; whole or given up.
Copy ==
    /\ enc.step = "copy" /\ enc' \in {[step |-> "swap", rows |-> file.rows], Idle}
    /\ UNCHANGED <<key, file, wal, index, backups, cache, proc, written, intruded, deaths>>

\* The rename: whoever has the plaintext file open keeps a file without a name.
Swap ==
    /\ enc.step = "swap" /\ enc' = [enc EXCEPT !.step = "sweep"]
    /\ file' = [file EXCEPT !.kind = "cipher", !.rows = enc.rows]
    /\ proc' = [p \in Proc |-> [proc[p] EXCEPT !.lost = @ \/ IsOpen(p)]]
    /\ UNCHANGED <<key, wal, index, backups, cache, written, intruded, deaths>>

\* The sidecars are removed by name, whosever they are by now.
Sweep ==
    /\ enc.step = "sweep" /\ enc' = Idle
    /\ wal' = 0 /\ proc' = [p \in Proc |-> [proc[p] EXCEPT !.lost = @ \/ IsOpen(p)]]
    /\ UNCHANGED <<key, file, index, backups, cache, written, intruded, deaths>>

EncryptDies ==
    /\ enc.step # "idle" /\ enc' = Idle /\ deaths < MaxDeaths /\ deaths' = deaths + 1
    /\ UNCHANGED <<key, file, wal, index, backups, cache, proc, written, intruded>>

Encrypt == LockExclusive \/ Copy \/ Swap \/ Sweep \/ EncryptDies

Next ==
    \/ SetKey \/ Encrypt
    \/ \E p \in Proc : \/ Start(p) \/ Detect(p) \/ (\E late \in BOOLEAN : Wait(p, late)) \/ Backup(p) \/ Split(p) \/ Open(p) \/ AddColumns(p) \/ RestartScan(p)
                       \/ ReadVersion(p) \/ CreateCache(p) \/ SetVersion(p) \/ Write(p) \/ Close(p) \/ Die(p)
                       \/ \E o \in Object : DropObject(p, o)

Spec == Init /\ [][Next]_dbVars

-----------------------------------------------------------------------------
\* The files, the processes and the command keep their types.
TypeOK ==
    /\ file.kind \in {"none", "plain", "cipher"} /\ file.layout \in {"none", "empty", "legacy", "bare", "kgless", "current"}
    /\ {file.rows, wal, written} \subseteq 0 .. MaxWrites /\ index \in {"none", "built", "unbuilt", "restarted"}
    /\ cache.objects \in [Object -> {"none", "old", "new"}] /\ enc.step \in {"idle", "copy", "swap", "sweep"} /\ deaths \in 0 .. MaxDeaths
    /\ \A p \in Proc : proc[p].step \in {"closed", "migrate", "backup", "split", "open", "wait", "columns", "rescan", "cache", "drop", "create", "run"}

\* No row that was stored is lost to a split, an upgrade, an encryption or the
\* death of any of them, unless a process opened imap.db while encrypt was at
\* work (migrate.go:51-55, encrypt.go:37-41); and an old layout gives way only
\* to a backup that holds its rows.
NothingLost ==
    /\ ~intruded => Readable = written
    /\ file.layout = "bare" => Readable \in backups

\* A process works only on a file in the form its key calls for, and one
\* never encrypted has the current layout, an index scanned anew if it came
\* without the graph's columns (unless a process died or intruded); a cache
\* marked current holds no object of an old one, and its users find every
\* object there unless another process is rebuilding it, or died doing so
\* (db.go:84-104, 239-288, 323-328).
AtWork(p) == proc[p].step = "run" /\ ~proc[p].lost
FilesFit ==
    /\ cache.current => \A o \in Object : cache.objects[o] # "old"
    /\ \A p \in Server : proc[p].step = "run" =>
          /\ cache.current
          /\ deaths > 0 \/ (\E q \in Server : proc[q].step = "drop") \/ \A o \in Object : cache.objects[o] = "new"
    /\ \A p \in Proc : AtWork(p) =>
          /\ (file.kind = "cipher") = proc[p].key
          /\ file.kind = "plain" => file.layout = "current"
          /\ index = "unbuilt" => intruded \/ deaths > 0 \/ \E q \in Proc : proc[q].step = "rescan"

=============================================================================
