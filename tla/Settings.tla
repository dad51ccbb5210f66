-------------------------------- MODULE Settings --------------------------------
(***************************************************************************)
(* The settings files of AuC (config.py), the web page's model and         *)
(* approval settings (web/model_settings.py, web/approval_settings.py and  *)
(* their endpoints in web/server.py), and the commands `auc config set`    *)
(* and `auc config migrate` (cli.py) of another process.                   *)
(*                                                                         *)
(* Abstractions: a choice is the model, address and key that were saved    *)
(* together, and is known by a number; the variables of Anthropic and      *)
(* those of OpenAI (and DeepSeek, which shares them) are two families of   *)
(* names in a file's env.  The process environment sets none of them.      *)
(* The key `config set` leaves out (it writes a reference to the           *)
(* environment in its place) is not told apart from the rest of a choice.  *)
(***************************************************************************)
EXTENDS Naturals, FiniteSets, FiniteSetsExt

CONSTANTS Requests,
          MaxChoices,  \* bound on the choices that are made
          None

VARIABLES file,      \* of each layer: its provider, the choice of each family, the approval
          cfg,       \* what the web session uses
          running,   \* session.active_run_id is set
          pc, held,  \* a request to save a model, and what it loaded after it wrote
          cli,       \* `config set`: None, or what it read
          next,      \* the next choice
          saved,     \* the choice last written by the web page, if no other process wrote since
          writer, applied  \* who wrote last; whose settings the session took since then

vars == <<file, cfg, running, pc, held, cli, next, saved, writer, applied>>

\* 0: the user's config.yaml, 1: the user's settings.json, 2: the project's local file (the
\* project's shared one, between these two, works as they do); later ones come first.
Layers == 0..2
Providers == {"anthropic", "openai"}
Modes == {"auto-approve"}
Empty == [provider |-> None, anthropic |-> None, openai |-> None, approval |-> None]

-------------------------------------------------------------------------------
(* load_model_config.                                                         *)

\* _deep_merge of the layers, one key at a time.
Giving(f, key) == {l \in Layers : f[l][key] # None}
MutMerged(f, key) == IF Giving(f, key) = {} THEN None ELSE f[Min(Giving(f, key))][key]
Merged(f, key) == IF Giving(f, key) = {} THEN None ELSE f[Max(Giving(f, key))][key]

\* _extract_model_fields: the provider that is named, or the one whose key is there; a
\* variable of Anthropic's before one of OpenAI's, whatever the provider.
Provider(f) ==
    IF Merged(f, "provider") # None THEN Merged(f, "provider")
    ELSE IF Merged(f, "anthropic") # None THEN "anthropic" ELSE "openai"
Choice(f) == IF Merged(f, "anthropic") # None THEN Merged(f, "anthropic") ELSE Merged(f, "openai")
Loaded(f) == [provider |-> Provider(f), choice |-> Choice(f)]

Init ==
    /\ file \in [Layers -> {Empty} \cup {[Empty EXCEPT !.provider = p, ![p] = 0] : p \in Providers}]
    /\ cfg = Loaded(file)
    /\ running = FALSE
    /\ pc = [t \in Requests |-> "idle"] /\ held = [t \in Requests |-> None]
    /\ cli = None /\ next = 1
    /\ saved = None /\ writer = None /\ applied = None

-------------------------------------------------------------------------------
(* The web page.                                                              *)

\* PUT /api/settings/model: the file of one layer is read, merged and written, and all
\* are loaded.  The check for a run comes after that, and the file stays written.
Chosen(f, p, n) == [f EXCEPT !.provider = p, ![p] = n]
Save(t, l, p) ==
    /\ pc[t] = "idle" /\ next <= MaxChoices /\ l \in 1..2
    /\ file' = [file EXCEPT ![l] = Chosen(@, p, next)]
    /\ saved' = [layer |-> l, provider |-> p, choice |-> next] /\ next' = next + 1
    /\ IF running
       THEN writer' = None /\ UNCHANGED <<pc, held>>
       ELSE /\ writer' = t /\ pc' = [pc EXCEPT ![t] = "close"]
            /\ held' = [held EXCEPT ![t] = Loaded(file')]
    /\ applied' = None
    /\ UNCHANGED <<cfg, running, cli>>

\* The old client has been closed: the session gets an agent and settings from what this
\* request loaded.
Reload(t) ==
    /\ pc[t] = "close"
    /\ cfg' = held[t] /\ applied' = t
    /\ pc' = [pc EXCEPT ![t] = "idle"] /\ held' = [held EXCEPT ![t] = None]
    /\ UNCHANGED <<file, running, cli, next, saved, writer>>

\* PUT /api/settings/approval, with no await between reading and writing.
Approving(f, m) == [f EXCEPT !.approval = m]
SaveApproval(l, m) ==
    /\ l \in 1..2 /\ file[l].approval # m
    /\ file' = [file EXCEPT ![l] = Approving(@, m)]
    /\ UNCHANGED <<cfg, running, pc, held, cli, next, saved, writer, applied>>

Run ==
    /\ running' = ~running
    /\ UNCHANGED <<file, cfg, pc, held, cli, next, saved, writer, applied>>

-------------------------------------------------------------------------------
(* Another process.                                                           *)

\* `auc config set` reads a file by itself and writes it anew from the model it found:
\* one family, and nothing of what else the file said.
ReadFile(l) ==
    /\ cli = None /\ l \in 1..2 /\ next <= MaxChoices
    /\ cli' = [layer |-> l,
               provider |-> Provider([k \in Layers |-> IF k = l THEN file[l] ELSE Empty])]
    /\ UNCHANGED <<file, cfg, running, pc, held, next, saved, writer, applied>>
Anew(p) == [Empty EXCEPT !.provider = p, ![p] = next]
WriteFile ==
    /\ cli # None /\ next <= MaxChoices
    /\ file' = [file EXCEPT ![cli.layer] = Anew(cli.provider)]
    /\ next' = next + 1 /\ cli' = None
    /\ saved' = None /\ writer' = None
    /\ UNCHANGED <<cfg, running, pc, held, applied>>

\* `auc config migrate`: config.yaml, on its own, becomes the user's settings.json, also
\* where there is one, and may be removed.
Migrate ==
    /\ cli = None /\ file[0] # Empty
    /\ LET p == Provider([k \in Layers |-> IF k = 0 THEN file[0] ELSE Empty]) IN
         \E yaml \in {Empty, file[0]} :
           file' = [file EXCEPT ![0] = yaml, ![1] = [Empty EXCEPT !.provider = p, ![p] = file[0][p]]]
    /\ saved' = None /\ writer' = None
    /\ UNCHANGED <<cfg, running, pc, held, cli, next, applied>>

Next ==
    \/ \E t \in Requests :
         \/ \E l \in Layers, p \in Providers : Save(t, l, p)
         \/ Reload(t)
    \/ \E l \in Layers : ReadFile(l) \/ \E m \in Modes : SaveApproval(l, m)
    \/ Run \/ WriteFile \/ Migrate
Spec == Init /\ [][Next]_vars

-------------------------------------------------------------------------------
(* Properties.                                                                *)

OneFamily == \E p \in Providers : \A q \in Providers \ {p}, l \in Layers : file[l][q] = None

\* When the save that wrote last is the one the session took, the session uses what the
\* files say, so that a restart changes nothing; and a choice saved in the local file is
\* the one in use, if all files speak of one family.
SavedIsUsed ==
    writer # None /\ writer = applied =>
      /\ cfg = Loaded(file)
      /\ saved.layer = 2 /\ OneFamily => cfg.choice = saved.choice /\ cfg.provider = saved.provider
===============================================================================
