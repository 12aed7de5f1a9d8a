--------------------------- MODULE PyIcebergBackend ---------------------------
(***************************************************************************)
(* maintenance/iceberg_ops.py, PyIcebergBackend: maintenance of a real     *)
(* table while a writer keeps committing to it.  Each call loads the table *)
(* first (_table) and acts afterwards on what it loaded; writers, and      *)
(* other maintenance tasks, act in between.                                *)
(*                                                                         *)
(* The table is append-only: apply_layout rewrites nothing, so a snapshot  *)
(* holds the files of all commits up to its own.  Snapshots are numbered   *)
(* by commit, and stamped by one clock that never goes back; several       *)
(* commits may share a tick of it.                                         *)
(***************************************************************************)
EXTENDS Integers, Sequences, FiniteSets

CONSTANTS
    Files,        \* the data files that writers may produce
    Tasks,        \* maintenance tasks, which may overlap
    Targets,      \* target_file_mb of the layouts applied
    CreatedWith,  \* target_file_mb the table was created with
    KeepLast,     \* keep_last
    OrphanGrace,  \* age below which delete_orphan_files spares a file
    TaskTime,     \* bound on the time from loading the table to deleting
    MaxClock      \* bound on the clock

ASSUME LakeAssumption ==
    /\ KeepLast \in Nat /\ OrphanGrace \in Nat
    /\ TaskTime \in Nat /\ MaxClock \in Nat

VARIABLES
    clock,
    written,  \* when each file was written, or Never
    storage,  \* the files in the object store
    commits,  \* all commits so far: their time and the files they added
    live,     \* the snapshots that have not been expired
    target,   \* write.target-file-size-bytes, in MB
    tasks     \* where each task stands: the snapshots of the table it loaded,
              \* and for an orphan deletion the time it loaded it

lakeVars == <<clock, written, storage, commits, live, target, tasks>>

Never == -1

Idle == [pc |-> "idle", seen |-> {}, at |-> 0]

\* The files of snapshot n, and of all the snapshots in a set.
FilesOf(n) == UNION {commits[i].files : i \in 1..n}
Referenced(snapshots) == UNION {FilesOf(n) : n \in snapshots}

-----------------------------------------------------------------------------
LakeInit ==
    /\ clock = 0
    /\ written = [f \in Files |-> Never]
    /\ storage = {}
    /\ commits = <<>>
    /\ live = {}
    /\ target = CreatedWith
    /\ tasks = [t \in Tasks |-> Idle]

\* Time passes.  A task does not hold a loaded table for longer than TaskTime.
Tick ==
    /\ clock < MaxClock
    /\ \A t \in Tasks :
           tasks[t].pc = "delete_orphan_files" => clock < tasks[t].at + TaskTime
    /\ clock' = clock + 1
    /\ UNCHANGED <<written, storage, commits, live, target, tasks>>

\* A writer uploads a data file; no snapshot refers to it yet.
WriteFile(f) ==
    /\ written[f] = Never
    /\ written' = [written EXCEPT ![f] = clock]
    /\ storage' = storage \cup {f}
    /\ UNCHANGED <<clock, commits, live, target, tasks>>

\* A writer commits files: a new snapshot.  Iceberg does not look whether the
\* files are still there.
CommitFiles(files) ==
    /\ \A f \in files : written[f] # Never
    /\ commits' = Append(commits, [time |-> clock, files |-> files])
    /\ live' = live \cup {Len(commits) + 1}
    /\ UNCHANGED <<clock, written, storage, target, tasks>>

\* apply_layout: only the table property changes; no file and no partition does.
ApplyLayout(mb) ==
    /\ \E t \in Tasks : tasks[t].pc = "idle"
    /\ target' = mb
    /\ UNCHANGED <<clock, written, storage, commits, live, tasks>>

-----------------------------------------------------------------------------
(* expire_snapshots(keep_last)                                             *)

\* Loads the table, and returns early if there is nothing to expire.
LoadForExpiry(t) ==
    /\ tasks[t].pc = "idle"
    /\ tasks' = [tasks EXCEPT ![t] =
           IF Cardinality(live) <= KeepLast
           THEN [Idle EXCEPT !.pc = "expired"]
           ELSE [Idle EXCEPT !.pc = "expire_snapshots", !.seen = live]]
    /\ UNCHANGED <<clock, written, storage, commits, live, target>>

\* snapshots[-(keep_last + 1)], of the snapshots sorted by time.
IsCutoff(c, snapshots) ==
    c \in snapshots /\ Cardinality({i \in snapshots : i > c}) = KeepLast

\* Mutant of Expired: the snapshot with the cutoff's own time goes as well.
ExpiredInclusive(snapshots) ==
    {i \in snapshots : \E c \in snapshots :
        IsCutoff(c, snapshots) /\ commits[i].time <= commits[c].time}

\* expire_older_than(cutoff): strictly older than the cutoff, so that the
\* snapshot the cutoff was taken from stays.
Expired(snapshots) ==
    {i \in snapshots : \E c \in snapshots :
        IsCutoff(c, snapshots) /\ commits[i].time < commits[c].time}

\* Commits the expiry of what was loaded.
ExpireSnapshots(t) ==
    /\ tasks[t].pc = "expire_snapshots"
    /\ live' = live \ Expired(tasks[t].seen)
    /\ tasks' = [tasks EXCEPT ![t].pc = "expired", ![t].seen = {}]
    /\ UNCHANGED <<clock, written, storage, commits, target>>

-----------------------------------------------------------------------------
(* delete_orphan_files()                                                   *)

LoadForOrphans(t) ==
    /\ tasks[t].pc = "expired"
    /\ tasks' = [tasks EXCEPT ![t] =
           [pc |-> "delete_orphan_files", seen |-> live, at |-> clock]]
    /\ UNCHANGED <<clock, written, storage, commits, live, target>>

\* Mutant of Orphans: no age is asked for.
OrphansOfAnyAge(snapshots) == storage \ Referenced(snapshots)

\* What no loaded snapshot refers to, old enough to be no one's work.
Orphans(snapshots) ==
    {f \in storage \ Referenced(snapshots) : written[f] + OrphanGrace < clock}

DeleteOrphanFiles(t) ==
    /\ tasks[t].pc = "delete_orphan_files"
    /\ storage' = storage \ Orphans(tasks[t].seen)
    /\ tasks' = [tasks EXCEPT ![t] = Idle]
    /\ UNCHANGED <<clock, written, commits, live, target>>

\* A call fails (the catalog, a conflicting commit, a killed task).
TaskFails(t) ==
    /\ tasks[t].pc # "idle"
    /\ tasks' = [tasks EXCEPT ![t] = Idle]
    /\ UNCHANGED <<clock, written, storage, commits, live, target>>

Maintain ==
    \/ \E mb \in Targets : ApplyLayout(mb)
    \/ \E t \in Tasks : \/ LoadForExpiry(t) \/ ExpireSnapshots(t)
                        \/ LoadForOrphans(t) \/ DeleteOrphanFiles(t)
                        \/ TaskFails(t)

LakeNext ==
    \/ Tick
    \/ \E f \in Files : WriteFile(f)
    \/ \E files \in SUBSET Files : CommitFiles(files)
    \/ Maintain

LakeSpec == LakeInit /\ [][LakeNext]_lakeVars

-----------------------------------------------------------------------------
\* Type correctness.
LakeTypeOK ==
    /\ clock \in Nat
    /\ written \in [Files -> Nat \cup {Never}]
    /\ storage \subseteq Files
    /\ commits \in Seq([time : Nat, files : SUBSET Files])
    /\ live \subseteq DOMAIN commits
    /\ tasks \in [Tasks -> [pc : {"idle", "expire_snapshots", "expired",
                                  "delete_orphan_files"},
                            seen : SUBSET (DOMAIN commits), at : Nat]]

\* "Keeping the most recent keep_last": no expiry, however stale the table it
\* loaded and whatever other tasks expire, removes one of the newest KeepLast
\* snapshots, and the current snapshot is there even if KeepLast is 0.
NewestSnapshotsSurvive ==
    \A n \in DOMAIN commits :
        n > Len(commits) - KeepLast \/ n = Len(commits) => n \in live

\* "Keeping the most recent keep_last" and no other: of the snapshots that an
\* expiry loaded, no more than keep_last remain.  (Snapshots of the same tick
\* cannot be told apart by a cutoff; where there are none, nothing stands in
\* the way of the exact number, which is also the one that is returned.)
ExpiryTrims ==
    [][\A t \in Tasks :
          /\ tasks[t].pc = "expire_snapshots" /\ tasks'[t].pc = "expired"
          /\ \A m, n \in tasks[t].seen : commits[m].time = commits[n].time => m = n
          => Cardinality(tasks[t].seen \cap live') <= KeepLast]_lakeVars

\* A reader finds every file of the table in the object store, except for what
\* was committed so long after it was written that an orphan deletion could
\* take it for garbage: a commit within OrphanGrace - TaskTime of the write is
\* safe, although deletion works from a table loaded before that commit.
OnlyLateCommitsDangle ==
    \A i \in DOMAIN commits : \A f \in commits[i].files :
        f \in storage \/ commits[i].time > written[f] + OrphanGrace - TaskTime
=============================================================================
