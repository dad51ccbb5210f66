------------------------------- MODULE CodeIndex -------------------------------
(***************************************************************************)
(* The symbol index (code_index.py) and the vectors made from it           *)
(* (index_vector.py), as the search tools use them (tools/index_tools.py): *)
(* several AuC processes, each with an index in memory that it loads once, *)
(* refreshes before every query and saves, while files are edited, created *)
(* and deleted.                                                            *)
(*                                                                         *)
(* Abstractions: the symbols of a file are its text; an edit gives a file  *)
(* a modification time it never had.  A tool call runs without a break in  *)
(* its process, so only other processes and the editor interleave with it. *)
(***************************************************************************)
EXTENDS Naturals, FiniteSets

CONSTANTS Python, Other,  \* files in Python, and in the languages of tree-sitter
          Procs,
          Grammars,       \* the processes that have tree-sitter
          Nothing,        \* no file, no entry, no index
          MaxEdits, MaxFaults

VARIABLES src,      \* the files: Nothing, or modification time and text
          disk,     \* symbols.json
          vdisk,    \* vectors.json
          index,    \* a process's index: Nothing before it is loaded, or file -> entry
          vectors,  \* its vectors: Nothing before they are loaded, or file -> text
          pc, kind, \* what it does, for which kind of query
          todo,     \* the files of its scan still to be looked at
          seen,     \* the files it found
          at,       \* the file whose time it has read, with that time
          changed,  \* whether it has anything to save
          calm,     \* nothing outside came between the start of its query and the answer
          edits, faults

vars == <<src, disk, vdisk, index, vectors, pc, kind, todo, seen, at, changed, calm, edits, faults>>
outside == <<src, edits, faults>>

Files == Python \cup Other
NoFiles == [f \in Files |-> Nothing]
\* Without tree-sitter a process sees Python only.
ByTreeSitter(p) == IF p \in Grammars THEN Other ELSE {}
Handled(p) == Python \cup ByTreeSitter(p)

Init ==
    /\ src \in [Files -> {Nothing, [mtime |-> 0, text |-> 0]}]
    /\ disk = Nothing /\ vdisk = Nothing
    /\ index = [p \in Procs |-> Nothing] /\ vectors = [p \in Procs |-> Nothing]
    /\ pc = [p \in Procs |-> "idle"] /\ kind = [p \in Procs |-> "symbols"]
    /\ todo = [p \in Procs |-> {}] /\ seen = [p \in Procs |-> {}]
    /\ at = [p \in Procs |-> Nothing]
    /\ changed = [p \in Procs |-> FALSE] /\ calm = [p \in Procs |-> FALSE]
    /\ edits = 0 /\ faults = 0

-------------------------------------------------------------------------------
(* refresh.                                                                   *)

\* A query: load once, an unreadable file counting as none, and list the files.
Query(p) ==
    /\ pc[p] = "idle"
    /\ \E k \in {"symbols", "semantic"} : kind' = [kind EXCEPT ![p] = k]
    /\ index' = [index EXCEPT ![p] =
                   IF @ # Nothing THEN @ ELSE IF disk = Nothing THEN NoFiles ELSE disk]
    /\ todo' = [todo EXCEPT ![p] = {f \in Handled(p) : src[f] # Nothing}]
    /\ seen' = [seen EXCEPT ![p] = {}]
    /\ changed' = [changed EXCEPT ![p] = FALSE]
    /\ calm' = [calm EXCEPT ![p] = TRUE]
    /\ pc' = [pc EXCEPT ![p] = "scan"]
    /\ UNCHANGED <<disk, vdisk, vectors, at, outside>>

\* The entry of a file whose modification time is still that of the entry is kept.
MutCurrent(e, mtime) == e # Nothing
Current(e, mtime) == e # Nothing /\ e.mtime = mtime
Stat(p, f) ==
    /\ pc[p] = "scan" /\ f \in todo[p]
    /\ todo' = [todo EXCEPT ![p] = @ \ {f}]
    /\ IF src[f] = Nothing THEN UNCHANGED <<seen, at, pc>>
       ELSE /\ seen' = [seen EXCEPT ![p] = @ \cup {f}]
            /\ IF Current(index[p][f], src[f].mtime) THEN UNCHANGED <<at, pc>>
               ELSE /\ at' = [at EXCEPT ![p] = [file |-> f, mtime |-> src[f].mtime]]
                    /\ pc' = [pc EXCEPT ![p] = "read"]
    /\ UNCHANGED <<disk, vdisk, index, vectors, kind, changed, calm, outside>>

\* FileEntry: symbols, imports and references are those of the text that was parsed.
Entry(mtime, text) == [mtime |-> mtime, text |-> text]
\* The text is read after the time; a file that has gone keeps its old entry this once.
Parse(p) ==
    /\ pc[p] = "read"
    /\ LET f == at[p].file IN
         IF src[f] = Nothing THEN UNCHANGED <<index, changed>>
         ELSE /\ index' = [index EXCEPT ![p][f] = Entry(at[p].mtime, src[f].text)]
              /\ changed' = [changed EXCEPT ![p] = TRUE]
    /\ at' = [at EXCEPT ![p] = Nothing]
    /\ pc' = [pc EXCEPT ![p] = "scan"]
    /\ UNCHANGED <<disk, vdisk, vectors, kind, todo, seen, calm, outside>>

\* The entries of files that were not found go, and the index is saved whole; the save
\* may fail without a word.
Swept(p) == [f \in Files |-> IF f \in seen[p] THEN index[p][f] ELSE Nothing]
Sweep(p) ==
    /\ pc[p] = "scan" /\ todo[p] = {}
    /\ index' = [index EXCEPT ![p] = Swept(p)]
    /\ IF ~changed[p] /\ Swept(p) = index[p] THEN UNCHANGED <<disk, faults>>
       ELSE \/ disk' = Swept(p) /\ UNCHANGED faults
            \/ faults < MaxFaults /\ faults' = faults + 1 /\ UNCHANGED disk
    /\ pc' = [pc EXCEPT ![p] = IF kind[p] = "symbols" THEN "answer" ELSE "build"]
    /\ UNCHANGED <<src, vdisk, vectors, kind, todo, seen, at, changed, calm, edits>>

-------------------------------------------------------------------------------
(* The vectors, built anew for every semantic query.                          *)

Texts(p) == [f \in Files |-> IF index[p][f] = Nothing THEN Nothing ELSE index[p][f].text]

\* build leaves the new vectors in memory but does not count as having loaded them; a
\* process that searches for the first time depends on what it finds in the file.
Loaded(p) == vectors[p] # Nothing
Build(p) ==
    /\ pc[p] = "build"
    /\ \/ vdisk' = Texts(p) /\ UNCHANGED faults
          /\ calm' = [q \in Procs |-> calm[q] /\ (pc[q] # "search" \/ Loaded(q))]
       \/ /\ faults < MaxFaults /\ faults' = faults + 1
          /\ calm' = [calm EXCEPT ![p] = @ /\ Loaded(p)]
          /\ UNCHANGED vdisk
    /\ vectors' = [vectors EXCEPT ![p] = IF Loaded(p) THEN Texts(p) ELSE @]
    /\ pc' = [pc EXCEPT ![p] = "search"]
    /\ UNCHANGED <<src, disk, index, kind, todo, seen, at, changed, edits>>
Search(p) ==
    /\ pc[p] = "search"
    /\ vectors' = [vectors EXCEPT ![p] =
                     IF Loaded(p) THEN @ ELSE IF vdisk = Nothing THEN Texts(p) ELSE vdisk]
    /\ pc' = [pc EXCEPT ![p] = "answer"]
    /\ UNCHANGED <<disk, vdisk, index, kind, todo, seen, at, changed, calm, outside>>

\* find_symbol, find_references and outline; search.
Told(p) == IF kind[p] = "symbols" THEN Texts(p) ELSE vectors[p]
Answered(p) ==
    /\ pc[p] = "answer"
    /\ pc' = [pc EXCEPT ![p] = "idle"] /\ kind' = [kind EXCEPT ![p] = "symbols"]
    /\ seen' = [seen EXCEPT ![p] = {}] /\ changed' = [changed EXCEPT ![p] = FALSE]
    /\ calm' = [calm EXCEPT ![p] = FALSE]
    /\ UNCHANGED <<disk, vdisk, index, vectors, todo, at, outside>>

-------------------------------------------------------------------------------
\* An editor, a command or another run writes, creates or deletes a file.
Edit(f) ==
    /\ edits < MaxEdits /\ edits' = edits + 1
    /\ \/ src' = [src EXCEPT ![f] = [mtime |-> edits', text |-> edits']]
       \/ src[f] # Nothing /\ src' = [src EXCEPT ![f] = Nothing]
    /\ calm' = [p \in Procs |-> FALSE]
    /\ UNCHANGED <<disk, vdisk, index, vectors, pc, kind, todo, seen, at, changed, faults>>

\* A process ends between two calls, or in the middle of one, and another one starts.
Restart(p) ==
    /\ faults < MaxFaults /\ faults' = faults + 1
    /\ index[p] # Nothing
    /\ index' = [index EXCEPT ![p] = Nothing]
    /\ vectors' = [vectors EXCEPT ![p] = Nothing]
    /\ pc' = [pc EXCEPT ![p] = "idle"] /\ kind' = [kind EXCEPT ![p] = "symbols"]
    /\ at' = [at EXCEPT ![p] = Nothing]
    /\ todo' = [todo EXCEPT ![p] = {}] /\ seen' = [seen EXCEPT ![p] = {}]
    /\ changed' = [changed EXCEPT ![p] = FALSE] /\ calm' = [calm EXCEPT ![p] = FALSE]
    /\ UNCHANGED <<src, disk, vdisk, edits>>

Next ==
    \/ \E p \in Procs :
         \/ Query(p) \/ Parse(p) \/ Sweep(p) \/ Build(p) \/ Search(p) \/ Answered(p) \/ Restart(p)
         \/ \E f \in Files : Stat(p, f)
    \/ \E f \in Files : Edit(f)
Spec == Init /\ [][Next]_vars

-------------------------------------------------------------------------------
(* Property.                                                                  *)

\* Whatever older index was loaded, and whichever process saved it in which order, a query
\* during which no file changed is answered from the files as they are: an edit that fell
\* between the reading of a file's time and of its text does no harm afterwards.  The first
\* semantic query of a process also needs its vectors saved and not replaced by others.
AnswersAreCurrent ==
    \A p \in Procs : pc[p] = "answer" /\ calm[p] =>
        Told(p) = [f \in Files |-> IF f \in Handled(p) /\ src[f] # Nothing
                                  THEN src[f].text ELSE Nothing]
===============================================================================
