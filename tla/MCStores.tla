------------------------------- MODULE MCStores -------------------------------
(***************************************************************************)
(* Instances of the modules about what AuC keeps on disk for the user, side*)
(* by side: Checkpoints, Worktrees, ConversationFiles, Repl, Settings,     *)
(* Roles, PromptOverlay and CodeIndex.  `part` says which of them moves in *)
(* a behaviour; the others keep one of their initial states.               *)
(***************************************************************************)
EXTENDS Naturals, Sequences, FiniteSets

CONSTANTS Top, Inner, Contents, Absent, Dir, NoBlob, MaxStep, MaxEntries, KeepSteps,
          Names, MaxWorkers, MaxRuns,
          Convs, Procs, MaxOps, MaxDeaths,
          Messages, NoText, MaxTurns,
          Requests, MaxChoices, None,
          Python, Other, Grammars, Nothing, MaxEdits, MaxFaults,
          Ids, Core, Default, Unknown, MaxChanges,
          MaxTime, MaxProposals, MaxApplies

\* A file is in one place, what it holds is no mark, and steps and seconds are counted.
ASSUME TreeAssumption ==
    /\ Top \notin Inner /\ IsFiniteSet(Inner)
    /\ Absent \notin Contents /\ Dir \notin Contents /\ NoBlob \notin Contents /\ Dir # Absent
    /\ MaxStep \in Nat /\ MaxTime \in Nat \ {0}

\* Tasks are known by their places in the list.
ASSUME NamesAssumption == Names \subseteq Nat \ {0}

\* Absent is no conversation, no call and nothing a file can hold.
ASSUME AbsentAssumption ==
    /\ Absent \notin Convs
    /\ Absent \notin [msgs : {0, 1}, usage : {0, 1}]
    /\ Absent \notin [kind : {"create", "save", "append", "usage", "delete", "activate"}, conv : Convs]

\* Nothing is no entry, no index and no set of vectors.
ASSUME NothingAssumption ==
    /\ Nothing \notin [mtime : Nat, text : Nat]
    /\ Nothing \notin [Python \cup Other -> [mtime : Nat, text : Nat] \cup {Nothing}]
    /\ Nothing \notin [Python \cup Other -> Nat \cup {Nothing}]

\* None is no choice and no provider; the package has the role there always is.
ASSUME NoneAssumption == None \notin Nat /\ None \notin {"anthropic", "openai"}
ASSUME RolesAssumption == Core \subseteq Ids /\ Default \in Core

VARIABLES part,
          disk, manifest, blobs, step, cphase, target, todo, before, loose, low, cut,
          main, merging, branch, tree, dirty, opts, wphase, wat, status, merged, runs, died, lost,
          file, row, active, call, at, held, ops, deaths, together, suspect,
          history, last, planMode, phase, text, interrupts, store, saved, turns, asPlan, raised,
          rloose,
          sfile, cfg, running, pc, sheld, cli, next, saving, writer, applied,
          src, symbols, vdisk, index, vectors, ipc, kind, itodo, seen, iat, changed, calm,
          edits, faults,
          meta, prompt, current, legacy, chosen, roleAt, job, change, clash, done,
          clock, proposed, draft, overlay, replaced, opc, id, otext, due, was, ocalm, collided

checkpointVars == <<disk, manifest, blobs, step, cphase, target, todo, before, loose, low, cut>>
worktreeVars == <<main, merging, branch, tree, dirty, opts, wphase, wat, status, merged, runs,
                  died, lost>>
fileVars == <<file, row, active, call, at, held, ops, deaths, together, suspect>>
replVars == <<history, last, planMode, phase, text, interrupts, store, saved, turns, asPlan,
              raised, rloose>>
settingVars == <<sfile, cfg, running, pc, sheld, cli, next, saving, writer, applied>>
indexVars == <<src, symbols, vdisk, index, vectors, ipc, kind, itodo, seen, iat, changed, calm,
               edits, faults>>
userVars == <<checkpointVars, worktreeVars, fileVars, replVars>>
roleVars == <<meta, prompt, current, legacy, chosen, roleAt, job, change, clash, done>>
overlayVars == <<clock, proposed, draft, overlay, replaced, opc, id, otext, due, was, ocalm,
                 collided>>
systemVars == <<settingVars, indexVars, roleVars, overlayVars>>
vars == <<part, userVars, systemVars>>

C == INSTANCE Checkpoints WITH phase <- cphase
W == INSTANCE Worktrees WITH phase <- wphase, at <- wat
F == INSTANCE ConversationFiles
R == INSTANCE Repl WITH Texts <- Messages, loose <- rloose
S == INSTANCE Settings WITH file <- sfile, held <- sheld, saved <- saving
I == INSTANCE CodeIndex WITH disk <- symbols, pc <- ipc, todo <- itodo, at <- iat
L == INSTANCE Roles WITH active <- current, pc <- roleAt, next <- change
O == INSTANCE PromptOverlay WITH active <- overlay, history <- replaced, pc <- opc,
                                 text <- otext, before <- was, calm <- ocalm

Parts == {"checkpoints", "worktrees", "files", "repl", "settings", "index", "roles", "prompts"}
Init ==
    /\ part \in Parts
    /\ C!Init /\ (part = "checkpoints" \/ disk = [p \in C!Paths |-> Absent])
    \* The contents are interchangeable: a file that is there has the first.
    /\ \A p \in C!Paths : C!IsFile(disk, p) => disk[p] = CHOOSE c \in Contents : TRUE
    /\ W!Init
    /\ F!Init
    /\ R!Init /\ (part = "repl" \/ (~store /\ saved = <<>>))
    /\ S!Init /\ (part = "settings" \/ sfile = [l \in S!Layers |-> S!Empty])
    /\ I!Init /\ (part = "index" \/ src = I!NoFiles)
    /\ L!Init /\ (part = "roles" \/ (legacy = {} /\ chosen = None))
    /\ O!Init
NextUser ==
    /\ UNCHANGED <<part, systemVars>>
    /\ \/ /\ part = "checkpoints" /\ C!Next
          /\ UNCHANGED <<worktreeVars, fileVars, replVars>>
       \/ /\ part = "worktrees" /\ W!Next
          /\ UNCHANGED <<checkpointVars, fileVars, replVars>>
       \/ /\ part = "files" /\ F!Next
          /\ UNCHANGED <<checkpointVars, worktreeVars, replVars>>
       \/ /\ part = "repl" /\ R!Next
          /\ UNCHANGED <<checkpointVars, worktreeVars, fileVars>>
NextSystem ==
    /\ UNCHANGED <<part, userVars>>
    /\ \/ part = "settings" /\ S!Next /\ UNCHANGED <<indexVars, roleVars, overlayVars>>
       \/ part = "index" /\ I!Next /\ UNCHANGED <<settingVars, roleVars, overlayVars>>
       \/ part = "roles" /\ L!Next /\ UNCHANGED <<settingVars, indexVars, overlayVars>>
       \/ part = "prompts" /\ O!Next /\ UNCHANGED <<settingVars, indexVars, roleVars>>
Next == NextUser \/ NextSystem
Spec == Init /\ [][Next]_vars

\* Where the run looks no further: once the last step of a run has changed files past the
\* checkpoints, no undo has to give anything back, and that never changes.
UndoMatters == \A l \in loose : l < step \/ (cphase = "running" /\ step < MaxStep)

\* Checkpoints.UndoRestores and PromptOverlay.RevertGivesBack: an undo that ends gives back
\* the files of that step, and a revert the addition to the prompt that was replaced.
UndoRestores == C!UndoRestores /\ O!RevertGivesBack
\* Worktrees.FailuresKeepTheirTree: only a task reported as done and merged loses work.
FailuresKeepTheirTree == W!FailuresKeepTheirTree
\* Worktrees.MainIsWhole: a merge that conflicts leaves the main branch as it was.
MainIsWhole == W!MainIsWhole
\* ConversationFiles.ListShowsTheFiles: the list agrees with the files at rest.
ListShowsTheFiles == F!ListShowsTheFiles
\* Repl.OnlyTheLastTurnGoes: /retry and /edit take back the turn they replace.
OnlyTheLastTurnGoes == R!OnlyTheLastTurnGoes
\* Repl.PlanModeEnds: plan mode restricts the task it was asked for and no other.
PlanModeEnds == R!PlanModeEnds
\* Settings.SavedIsUsed and Roles.RoleIsUsed: the session uses what the files say after its
\* own save, and a run the role that was written or switched to.
SavedIsUsed == S!SavedIsUsed /\ L!RoleIsUsed
\* CodeIndex.AnswersAreCurrent: a query is answered from the files as they are.
AnswersAreCurrent == I!AnswersAreCurrent
===============================================================================
