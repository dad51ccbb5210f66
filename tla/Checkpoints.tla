------------------------------ MODULE Checkpoints ------------------------------
(***************************************************************************)
(* The checkpoints of a run (checkpoint.py): before a tool of the run      *)
(* writes or deletes, the gate (policy/privilege.py, _snapshot) saves what *)
(* is there as a blob and appends an entry to the manifest; undo replays   *)
(* the entries from the last one back to the step to return to.            *)
(*                                                                         *)
(* A snapshot and the tool after it run without an await between them.     *)
(* The process may die in a snapshot or in an undo; an undo may be         *)
(* repeated.  The tree is a path that can be a file or a directory, and    *)
(* the files that can be in it.                                            *)
(***************************************************************************)
EXTENDS Naturals, Sequences, FiniteSets

CONSTANTS Top, Inner,          \* a path; the paths below it
          Contents,            \* what a file may contain
          Absent, Dir, NoBlob, \* no file; a directory; the entry of a new file
          MaxStep, MaxEntries, \* bounds on a run
          KeepSteps            \* gc(keep_steps)

VARIABLES disk,
          manifest, \* the entries, each with the place of its snapshot's first line
          blobs, step,
          phase,    \* "running", "ended", "reverting", "reverted", "raised"
          target,   \* the step to return to
          todo,     \* the entries still to be replayed
          before,   \* history: the tree before each step
          loose,    \* history: steps that changed files without an entry (shell, failed snapshot)
          low,      \* history: the earliest step an undo went back to
          cut       \* history: the earliest step gc has kept

store == <<manifest, blobs>>
runVars == <<step, before, loose>>
undo == <<target, todo, low>>
vars == <<disk, store, runVars, phase, undo, cut>>

Paths == {Top} \cup Inner
Under(p) == IF p = Top THEN Paths ELSE {p}
IsFile(d, p) == d[p] \in Contents
Trees == {d \in [Paths -> Contents \cup {Absent, Dir}] :
              \A p \in Inner : d[p] # Dir /\ (d[p] # Absent => d[Top] = Dir)}
\* Two trees with the same files; empty directories do not count.
SameFile(d, e, p) == IsFile(d, p) \/ IsFile(e, p) => d[p] = e[p]
SameFiles(d, e) == \A p \in Paths : SameFile(d, e, p)

Init ==
    /\ disk \in Trees
    /\ manifest = {} /\ blobs = {}
    /\ step = 1 /\ before = <<disk>> /\ loose = {}
    /\ phase = "running"
    /\ target = 0 /\ todo = {} /\ low = MaxStep + 1 /\ cut = 0

NextStep ==
    /\ phase = "running" /\ step < MaxStep
    /\ step' = step + 1
    /\ before' = Append(before, disk)
    /\ UNCHANGED <<disk, store, loose, phase, undo, cut>>

-------------------------------------------------------------------------------
\* write_file makes the directories above the file; it fails on a directory, and
\* below a file.
CanWrite(d, p) == d[p] # Dir /\ (p \in Inner => ~IsFile(d, Top))
Written(d, p, c) == [d EXCEPT ![p] = c, ![Top] = IF p \in Inner THEN Dir ELSE c]
Deleted(d, p) == [q \in Paths |-> IF q \in Under(p) THEN Absent ELSE d[q]]

\* snapshot: the files at and below the path, in the order the directory lists them, or
\* that there is none.
Targets(p) == {q \in Under(p) : IsFile(disk, q)}
Entry(p, b) == [no |-> Cardinality(manifest) + 1, step |-> step, path |-> p, blob |-> b]
Entries(p) == IF Targets(p) = {} THEN {Entry(p, NoBlob)} ELSE {Entry(q, disk[q]) : q \in Targets(p)}
Record(es) ==
    /\ manifest' = manifest \cup es
    /\ blobs' = (blobs \cup {e.blob : e \in es}) \ {NoBlob}

Tool(p, d) ==
    /\ phase = "running"
    /\ Cardinality(manifest) + Cardinality(Entries(p)) <= MaxEntries
    /\ Record(Entries(p))
    /\ disk' = d
    /\ UNCHANGED <<runVars, phase, undo, cut>>

WriteFile(p, c) == Tool(p, IF CanWrite(disk, p) THEN Written(disk, p, c) ELSE disk)
DeletePath(p) == Tool(p, Deleted(disk, p))

\* run_command does what it likes, and a snapshot that raises OSError does not stop
\* the tool; others may write in the sandbox as well.
Unrecorded ==
    /\ phase # "reverting" /\ step \notin loose
    /\ disk' \in Trees
    /\ loose' = loose \cup {step}
    /\ UNCHANGED <<store, step, before, phase, undo, cut>>

\* The process dies in the middle of a snapshot, before the tool is called.
DieInSnapshot(p) ==
    /\ phase = "running"
    /\ \E es \in SUBSET Entries(p) :
         Cardinality(manifest) + Cardinality(es) <= MaxEntries /\ Record(es)
    /\ phase' = "ended"
    /\ UNCHANGED <<disk, runVars, undo, cut>>

RunEnds ==
    /\ phase = "running" /\ phase' = "ended"
    /\ UNCHANGED <<disk, store, runVars, undo, cut>>

-------------------------------------------------------------------------------
\* revert_to: 409 while the run is under way; the latest entries first.
From(s) == {e \in manifest : e.step >= s}
MutLatest(es) == {e \in es : \A f \in es : e.no <= f.no}
Latest(es) == {e \in es : \A f \in es : f.no <= e.no}

BeginUndo(s) ==
    /\ phase \in {"ended", "reverted", "raised"}
    /\ phase' = "reverting"
    /\ target' = s
    /\ todo' = From(s)
    /\ low' = IF s < low THEN s ELSE low
    /\ UNCHANGED <<disk, store, runVars, cut>>

\* `auc undo`, which may be given while the page is idle, and the button of the page.
UndoByCommand == \E s \in 1..step : BeginUndo(s)
UndoOnPage == \E s \in 1..step : BeginUndo(s)

\* A new file is deleted, with everything below it; a lost blob is a warning; a file
\* cannot be written where a directory is.
Restored(e) ==
    \/ e.blob = NoBlob /\ disk' = Deleted(disk, e.path)
    \/ e.blob \in blobs /\ CanWrite(disk, e.path) /\ disk' = Written(disk, e.path, e.blob)
    \/ e.blob # NoBlob /\ e.blob \notin blobs /\ UNCHANGED disk
UndoEntry ==
    /\ phase = "reverting"
    /\ \E e \in Latest(todo) :
         \/ Restored(e) /\ todo' = todo \ {e} /\ UNCHANGED phase
         \/ /\ e.blob \in blobs /\ ~CanWrite(disk, e.path)
            /\ phase' = "raised" /\ todo' = {} /\ UNCHANGED disk
    /\ UNCHANGED <<store, runVars, target, low, cut>>

UndoEnds ==
    /\ phase = "reverting" /\ todo = {}
    /\ phase' = "reverted"
    /\ UNCHANGED <<disk, store, runVars, undo, cut>>

DieInUndo ==
    /\ phase = "reverting"
    /\ phase' = "ended" /\ todo' = {}
    /\ UNCHANGED <<disk, store, runVars, target, low, cut>>

\* gc: the manifest is cut to the last steps, then the blobs nobody refers to go.
MutLive(kept, gone) == {e.blob : e \in kept} \ {e.blob : e \in gone}
Live(kept, gone) == {e.blob : e \in kept}
Gc ==
    /\ phase = "ended"
    /\ LET steps == {e.step : e \in manifest} IN
         /\ Cardinality(steps) > KeepSteps
         /\ \E cutoff \in steps :
              /\ Cardinality({s \in steps : s >= cutoff}) = KeepSteps
              /\ manifest' = From(cutoff)
              /\ blobs' = blobs \cap Live(From(cutoff), manifest \ From(cutoff))
              /\ cut' = cutoff
    /\ UNCHANGED <<disk, runVars, phase, undo>>

Next ==
    \/ NextStep \/ Unrecorded \/ RunEnds
    \/ \E p \in Paths : DeletePath(p) \/ DieInSnapshot(p) \/ \E c \in Contents : WriteFile(p, c)
    \/ UndoByCommand \/ UndoOnPage
    \/ UndoEntry \/ UndoEnds \/ DieInUndo \/ Gc

Spec == Init /\ [][Next]_vars

-------------------------------------------------------------------------------
(* Properties.                                                                *)

\* An undo that comes to its end, perhaps after others that died half way, gives back
\* the files as they were before the step, unless something wrote past the
\* checkpoints since, gc dropped the step, or an earlier undo went further back.
UndoRestores ==
    phase = "reverted" /\ target = low /\ target >= cut /\ (\A s \in loose : s < target)
        => SameFiles(disk, before[target])

\* checkpoint.py:185 promises the state before the step: the undo does not stop half way.
UndoComesToItsEnd == loose = {} => phase # "raised"
===============================================================================
