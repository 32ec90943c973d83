----------------------------- MODULE ModelStore -----------------------------
(***************************************************************************)
(* The project model and the specification files generated from it:        *)
(* ProjectModelStore.mutate (project-model/store.ts) as transact() of the  *)
(* domain calls it, with SpecProjector.generate inside its mutator, and    *)
(* specs("generate"), which only writes the files.  Both run under the     *)
(* lock of the model, a FileLock of kind "model".                          *)
(*                                                                         *)
(* A model is the sequence of the calls that made its revisions.  A file   *)
(* holds the model it was rendered from; every revision changes every      *)
(* file, which is the case in which most can go wrong.  Files are not      *)
(* synced, so only the death of processes is looked at, not of machines.   *)
(***************************************************************************)
EXTENDS FileLock, Sequences, SequencesExt

CONSTANTS File,         \* the generated specification files
          Torn,         \* what a write that fails in the middle leaves in a file
          MaxModels     \* bound: how often the model is replaced

VARIABLES model,     \* the content of model.json
          file,      \* per file the model it was generated from
          work,      \* per process: the step of its call, the model it loaded, the one
                     \* it writes, what it has read of the files before
          accepted,  \* the models that successful calls have returned
          met,       \* two processes were inside the lock at once
          unrestored \* the files that a call has failed to put back, or died before it did

modelVars == <<model, file, work, accepted, met, unrestored>>

NoWork == [at |-> "load", old |-> << >>, new |-> << >>, backup |-> [f \in File |-> << >>],
           todo |-> {}]

ModelInit ==
    /\ model = << >>
    /\ file = [f \in File |-> << >>]
    /\ work = [p \in Proc |-> NoWork]
    /\ accepted = {}
    /\ met = FALSE
    /\ unrestored = {}

Working(p, step) == pc[p] = "inside" /\ work[p].at = step
GoOn(p, step) == work' = [work EXCEPT ![p].at = step]
Finish(p) == work' = [work EXCEPT ![p] = [NoWork EXCEPT !.at = "over"]]

\* What a call would still have to put back, were it to fail now: the files it has
\* generated from a model that has not replaced the one it loaded, or those whose
\* restoration is under way.
ToPutBack(p) ==
    {f \in File :
       \/ /\ work[p].at \in {"generate", "replace", "failed"}
          /\ Len(model) = Len(work[p].old)
          /\ f \notin work[p].todo
       \/ work[p].at = "restore" /\ f \in work[p].todo}

\* mutate loads the model and the mutator changes a copy of it.
LoadModel(p) ==
    /\ Working(p, "load")
    /\ Len(model) < MaxModels
    /\ work' = [work EXCEPT ![p] = [NoWork EXCEPT !.at = "backup", !.old = model,
                                                  !.new = Append(model, p)]]
    /\ UNCHANGED <<model, file, accepted, met, unrestored>>

\* The call generates the files of the current model, or throws before it does anything.
LoadToGenerate(p) ==
    /\ Working(p, "load")
    /\ \/ work' = [work EXCEPT ![p] = [NoWork EXCEPT !.at = "generateOnly", !.new = model,
                                                     !.todo = File]]
       \/ Finish(p)
    /\ UNCHANGED <<model, file, accepted, met, unrestored>>

GenerateOnly(p) ==
    /\ Working(p, "generateOnly")
    /\ \/ \E f \in work[p].todo :
             /\ file' = [file EXCEPT ![f] = work[p].new]
             /\ work' = [work EXCEPT ![p].todo = @ \ {f}]
             /\ unrestored' = unrestored \ {f}
       \/ UNCHANGED <<file, unrestored>> /\ Finish(p)
    /\ UNCHANGED <<model, accepted, met>>

BackupPaths(p) ==
    /\ Working(p, "backup")
    /\ work' = [work EXCEPT ![p] =
          [work[p] EXCEPT !.at = "generate", !.backup = file, !.todo = File]]
    /\ UNCHANGED <<model, file, accepted, met, unrestored>>

\* The files are renamed into place one after the other, before the model is.
GenerateFile(p) ==
    /\ Working(p, "generate")
    /\ \E f \in work[p].todo :
          /\ file' = [file EXCEPT ![f] = work[p].new]
          /\ work' = [work EXCEPT ![p] =
                [work[p] EXCEPT !.at = IF work[p].todo = {f} THEN "replace" ELSE work[p].at,
                                !.todo = work[p].todo \ {f}]]
    /\ UNCHANGED <<model, accepted, met, unrestored>>

\* writeUnlocked: the temporary file is synced and renamed.  All files are those of the
\* model again, whatever they were.
ReplaceModel(p) ==
    /\ Working(p, "replace")
    /\ model' = work[p].new
    /\ unrestored' = {}
    /\ GoOn(p, "sync")
    /\ UNCHANGED <<file, accepted, met>>

ReturnModel(p) ==
    /\ Working(p, "sync")
    /\ accepted' = accepted \cup {work[p].new}
    /\ Finish(p)
    /\ UNCHANGED <<model, file, met, unrestored>>

\* The mutator, the generation of a file, the rename or the sync of the directory fails;
\* what the mutator has saved is then to be restored.
ModelThrows(p) ==
    /\ pc[p] = "inside" /\ work[p].at \in {"backup", "generate", "replace", "sync"}
    /\ GoOn(p, IF work[p].at = "backup" THEN "over" ELSE "failed")
    /\ UNCHANGED <<model, file, accepted, met, unrestored>>

\* Mistake: the files are restored without a look at the model.
RestoreAnyway(p) ==
    /\ Working(p, "failed")
    /\ work' = [work EXCEPT ![p] = [work[p] EXCEPT !.at = "restore", !.todo = File]]
    /\ UNCHANGED <<model, file, accepted, met, unrestored>>

\* "A post-rename fsync failure may have published the model": if the revision is not the
\* one that was loaded, old files must not replace those of the committed model.
AfterFailure(p) ==
    /\ Working(p, "failed")
    /\ IF Len(model) # Len(work[p].old)
       THEN Finish(p)
       ELSE work' = [work EXCEPT ![p] = [work[p] EXCEPT !.at = "restore", !.todo = File]]
    /\ UNCHANGED <<model, file, accepted, met, unrestored>>

\* The model cannot be read again, or is malformed: the call throws before onError.
ReloadFails(p) ==
    /\ Working(p, "failed")
    /\ unrestored' = unrestored \cup ToPutBack(p)
    /\ Finish(p)
    /\ UNCHANGED <<model, file, accepted, met>>

Restored(p, f) ==
    work' = [work EXCEPT ![p] = IF work[p].todo = {f}
                                THEN [NoWork EXCEPT !.at = "over"]
                                ELSE [work[p] EXCEPT !.todo = work[p].todo \ {f}]]

RestorePath(p) ==
    /\ Working(p, "restore")
    /\ \E f \in work[p].todo :
          /\ file' = [file EXCEPT ![f] = work[p].backup[f]]
          /\ Restored(p, f)
    /\ UNCHANGED <<model, accepted, met, unrestored>>

\* restorePaths goes on to the next file when one fails, and throws at the end.  writeFile
\* writes in place: the file is what it was, or cut off.
RestorationFails(p) ==
    /\ Working(p, "restore")
    /\ \E f \in work[p].todo :
          /\ file' \in {file, [file EXCEPT ![f] = Torn]}
          /\ unrestored' = unrestored \cup {f}
          /\ Restored(p, f)
    /\ UNCHANGED <<model, accepted, met>>

ModelStep(p) ==
    /\ \/ LoadModel(p) \/ LoadToGenerate(p) \/ GenerateOnly(p) \/ BackupPaths(p)
       \/ GenerateFile(p) \/ ReplaceModel(p) \/ ReturnModel(p) \/ ModelThrows(p)
       \/ AfterFailure(p) \/ ReloadFails(p) \/ RestorePath(p) \/ RestorationFails(p)
    /\ UNCHANGED lockVars

\* A death in the middle of a restoring write is a RestorationFails before it.
DiesAtWork(p) ==
    /\ Dies(p)
    /\ work' = [work EXCEPT ![p] = NoWork]
    /\ unrestored' = unrestored \cup ToPutBack(p)

ModelLockStep(p) ==
    /\ \/ LockStep(p) /\ UNCHANGED <<work, unrestored>>
       \/ /\ Leave(p) /\ work[p].at = "over"
          /\ work' = [work EXCEPT ![p] = NoWork] /\ UNCHANGED unrestored
       \/ DiesAtWork(p)
    /\ met' = (met \/ ~Exclusive')
    /\ UNCHANGED <<model, file, accepted>>

ModelNext == \E p \in Proc \ dead : ModelStep(p) \/ ModelLockStep(p)

ModelSpec == Init /\ ModelInit /\ [][ModelNext]_<<lockVars, modelVars>>

----------------------------------------------------------------------------
(* Properties. *)

\* As long as the lock keeps its promise: what a successful call has returned stays part
\* of the model; and when no call is under way every file is that of the model, whatever
\* failed, but for those whose restoration itself has failed or was cut short, and those
\* only until they are generated again.  A call that has replaced the model leaves no file
\* behind that is older, not even of those.
FilesFollowTheModel ==
    ~met =>
       /\ \A m \in accepted : IsPrefix(m, model)
       /\ Inside = {} => \A f \in File \ unrestored : file[f] = model
       /\ \A p \in Inside : work[p].at = "sync" => \A f \in File : file[f] = model
=============================================================================
