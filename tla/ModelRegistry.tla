----------------------------- MODULE ModelRegistry -----------------------------
(***************************************************************************)
(* The registry of the models of one strategy (models/model_registry.py): rows in  *)
(* memory, one file per model and a manifest on disk that a new process reads.     *)
(* Writes of files may fail, and the process may die between any two of them or in  *)
(* the middle of one.                                                         *)
(***************************************************************************)
EXTENDS Naturals, Sequences, FiniteSets

CONSTANTS
    Trained,            \* the models
    NoModel, Torn,      \* a file that is not there, one written in part
    PathOf(_),          \* _model_path: name, version and the end of the training
    MaxRegistered,      \* bound on the registrations
    MaxMishaps          \* bound on failed writes and deaths

ASSUME RegistryAssumption == NoModel \notin Trained

VARIABLES
    rows,       \* the registry: per row its model, whether it is active, whether it is lazy
    files,      \* per path, the model saved there, NoModel or Torn
    manifest,   \* the rows on disk, unless it was written in part
    doing,      \* where a registration is
    mishaps,
    registered, \* the number of registrations
    promoted,   \* the model whose registration as active was the last completed
    disturbed   \* whether a write failed or was cut short since, or its file was replaced

rgVars == <<rows, files, manifest, doing, mishaps, registered, promoted, disturbed>>
Resting == [at |-> "idle"]
Paths == {PathOf(t) : t \in Trained}

Intact(table) == [whole |-> TRUE, rows |-> table]
Half == [whole |-> FALSE, rows |-> <<>>]

RegistryInit ==
    /\ rows = <<>> /\ files = [p \in Paths |-> NoModel] /\ manifest = Intact(<<>>)
    /\ doing = Resting /\ mishaps = 0 /\ registered = 0 /\ promoted = NoModel /\ disturbed = FALSE

Deactivated == [i \in DOMAIN rows |-> [rows[i] EXCEPT !.active = FALSE]]

(* Slip: the others stay active.                                             *)
RegisterBeside(t, active) ==
    /\ doing = Resting /\ registered < MaxRegistered
    /\ registered' = registered + 1
    /\ doing' = [at |-> "saving", model |-> t, active |-> active]
    /\ UNCHANGED <<rows, files, manifest, mishaps, promoted, disturbed>>

(* register: an active model first makes the others inactive.                  *)
Register(t, active) ==
    /\ doing = Resting /\ registered < MaxRegistered
    /\ registered' = registered + 1
    /\ doing' = [at |-> "saving", model |-> t, active |-> active]
    /\ rows' = IF active THEN Deactivated ELSE rows
    /\ UNCHANGED <<files, manifest, mishaps, promoted, disturbed>>

(* save_model: over whatever is at its path.                                  *)
SaveModel ==
    /\ doing.at = "saving"
    /\ LET path == PathOf(doing.model) IN
       /\ files' = [files EXCEPT ![path] = doing.model]
       /\ disturbed' = (disturbed \/ (promoted # NoModel /\ PathOf(promoted) = path))
    /\ doing' = [doing EXCEPT !.at = "appending"]
    /\ UNCHANGED <<rows, manifest, mishaps, registered, promoted>>

(* The row is appended, then the whole manifest written anew.                   *)
SaveManifest ==
    /\ doing.at = "appending"
    /\ LET all == Append(rows, [model |-> doing.model, active |-> doing.active, lazy |-> FALSE]) IN
       rows' = all /\ manifest' = Intact([i \in DOMAIN all |-> [model |-> all[i].model, active |-> all[i].active]])
    /\ promoted' = IF doing.active THEN doing.model ELSE promoted
    /\ disturbed' = IF doing.active THEN FALSE ELSE disturbed
    /\ doing' = Resting
    /\ UNCHANGED <<files, mishaps, registered>>

(* The disk refuses a write: the registration raises, whatever it did in memory.     *)
WriteFails ==
    /\ doing.at \in {"saving", "appending"} /\ mishaps < MaxMishaps
    /\ mishaps' = mishaps + 1 /\ disturbed' = TRUE
    /\ IF doing.at = "saving"
       THEN files' \in {files, [files EXCEPT ![PathOf(doing.model)] = Torn]} /\ UNCHANGED <<rows, manifest>>
       ELSE /\ rows' = Append(rows, [model |-> doing.model, active |-> doing.active, lazy |-> FALSE])
            /\ manifest' \in {manifest, Half} /\ UNCHANGED files
    /\ doing' = Resting
    /\ UNCHANGED <<registered, promoted>>

(* _load_manifest: the rows of the manifest, their models left on disk; of one that    *)
(* does not parse, none.                                                      *)
Loaded ==
    [i \in DOMAIN manifest.rows |->
        [model |-> manifest.rows[i].model, active |-> manifest.rows[i].active, lazy |-> TRUE]]

(* The process dies, in the middle of a write perhaps, and another begins.        *)
Restart ==
    /\ mishaps < MaxMishaps /\ mishaps' = mishaps + 1
    /\ files' \in IF doing.at = "saving" THEN {files, [files EXCEPT ![PathOf(doing.model)] = Torn]} ELSE {files}
    /\ manifest' \in IF doing.at = "appending" THEN {manifest, Half} ELSE {manifest}
    /\ disturbed' = (disturbed \/ files' # files \/ manifest' # manifest)
    /\ doing' = [at |-> "loading"]
    /\ UNCHANGED <<rows, registered, promoted>>

Load ==
    /\ doing.at = "loading"
    /\ rows' = Loaded /\ doing' = Resting
    /\ UNCHANGED <<files, manifest, mishaps, registered, promoted, disturbed>>

(* What a row's model predicts with: itself, or what is at its path by then.        *)
Behind(row) == IF row.lazy THEN files[PathOf(row.model)] ELSE row.model
ActiveRows == {i \in DOMAIN rows : rows[i].active}

(* get_active_model: of the active rows the last.                             *)
ActiveModel ==
    IF ActiveRows = {} THEN NoModel ELSE Behind(rows[CHOOSE i \in ActiveRows : \A j \in ActiveRows : j <= i])

RegistryNext ==
    \/ \E t \in Trained, active \in BOOLEAN : Register(t, active)
    \/ SaveModel \/ SaveManifest \/ WriteFails \/ Restart \/ Load

-----------------------------------------------------------------------------
(* Properties                                                               *)

(* The model a strategy was last given is the one it predicts with, in this process     *)
(* and in the next, whatever is registered beside it and wherever the process dies,  *)
(* unless a write failed or was cut short or its own file was replaced; and never     *)
(* are two models active.                                                      *)
ActiveModelSurvives ==
    /\ Cardinality(ActiveRows) <= 1
    /\ doing = Resting /\ ~disturbed => ActiveModel = promoted
=============================================================================
