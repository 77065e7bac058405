--------------------------- MODULE ContainerBuilder ---------------------------
(***************************************************************************)
(* ContainerBuilder::create (src/src/linglong/runtime/container_builder.cpp) *)
(* step by step: read the container config.json, add the builder's mounts, *)
(* apply the entries of ../config.d one loop round at a time               *)
(* (applyPatches, applyJSONPatch, applyExecutablePatch), convert to the    *)
(* OCI Config and append the caller's extra mounts.                       *)
(*                                                                         *)
(* The inputs of the call and the config representation are those of      *)
(* ContainerConfig.  Every Q_ASSERT(false) is compiled out (release        *)
(* build): the branch logs and returns; asserts records which config.d     *)
(* entries (0 for the directory itself) reached one.                      *)
(***************************************************************************)
EXTENDS ContainerConfig

VARIABLES
    file, entries, dirExists, hasRuntime, hasExtra,  \* the inputs of one call
    phase,    \* "load", "mounts", "patch", "convert" or "done"
    json,     \* the config being built (a record of ContainerCreate)
    i,        \* applyPatches' position in config.d, 1-based
    asserts,  \* entries whose processing reached Q_ASSERT(false)
    result    \* what create returned

inputs == <<file, entries, dirExists, hasRuntime, hasExtra>>
cvars == <<phase, json, i, asserts, result>>
vars == <<inputs, cvars>>

Configs == [version : OciVersions, mounts : Seq({"cfg", "root", "runtime",
            "appsTmpfs", "app", "patched", "video0"})]

TypeOK ==
    /\ file \in ConfigFiles
    /\ entries \in Seq(EntryKinds) /\ Len(entries) <= MaxEntries
    /\ phase \in {"load", "mounts", "patch", "convert", "done"}
    /\ json \in Configs \cup {NoMounts}
    /\ i \in 1..Len(entries) + 1
    /\ asserts \subseteq 0..Len(entries)
    /\ result \in Outcomes

Init ==
    /\ file \in ConfigFiles
    /\ entries \in UNION {[1..n -> EntryKinds] : n \in 0..MaxEntries}
    /\ dirExists \in BOOLEAN
    /\ hasRuntime \in BOOLEAN
    /\ hasExtra \in BOOLEAN
    /\ phase = "load"
    /\ json = NoMounts
    /\ i = 1
    /\ asserts = {}
    /\ result = NoOutcome

Return(kind, mounts) ==
    /\ phase' = "done"
    /\ result' = [kind |-> kind, mounts |-> mounts]

\* Mutant: json.at("mounts") used without the empty-array fallback.
LoadConfigNoDefault ==
    /\ phase = "load"
    /\ IF file.kind # "json"
       THEN Return("err", <<>>) /\ UNCHANGED json
       ELSE /\ json' = [version |-> file.version, mounts |-> file.mounts]
            /\ phase' = "mounts"
            /\ UNCHANGED result
    /\ UNCHANGED <<inputs, i, asserts>>

\* The default OCI config is opened (and never read); the container config
\* (LINGLONG_CONTAINER_CONFIG or the installed one) is opened and parsed.
LoadConfig ==
    /\ phase = "load"
    /\ IF file.kind # "json"
       THEN Return("err", <<>>) /\ UNCHANGED json
       ELSE /\ json' = [version |-> file.version,
                        mounts |-> IF file.mounts = NoMounts THEN <<>> ELSE file.mounts]
            /\ phase' = "mounts"
            /\ UNCHANGED result
    /\ UNCHANGED <<inputs, i, asserts>>

\* json["mounts"] (an empty array when absent) with "/", "/runtime" when
\* there is a runtime, the "/opt/apps/" tmpfs and the app's files pushed.
AddMounts ==
    /\ phase = "mounts"
    /\ json' = [json EXCEPT !.mounts = @ \o Builtins(hasRuntime)]
    /\ phase' = "patch"
    /\ UNCHANGED <<inputs, i, asserts, result>>

\* applyPatches on a directory that does not exist.
PatchDirMissing ==
    /\ phase = "patch"
    /\ ~dirExists
    /\ asserts' = asserts \cup {0}
    /\ phase' = "convert"
    /\ UNCHANGED <<inputs, json, i, result>>

\* applyExecutablePatch: the QProcess gets a program and the config written
\* to it, but is never started, so waitForFinished(200) returns false at
\* once and the "timeout or execute failed" branch is taken.
applyExecutablePatch(cfg) == [cfg |-> cfg, asserted |-> TRUE]

\* applyJSONPatch: a file that cannot be opened or parsed, or whose
\* ociVersion differs from the config's, is skipped; otherwise its RFC 6902
\* patch is applied.
PatchVersion(e) == IF e = "jsonAdd" THEN "1.0.1" ELSE "1.0.0"

\* Mutant: the ociVersion check left out.
applyJSONPatchAnyVersion(cfg, e) ==
    IF e \in {"unreadable", "jsonBad"}
    THEN [cfg |-> cfg, asserted |-> TRUE]
    ELSE [cfg |-> [cfg EXCEPT !.mounts = @ \o <<"patched">>], asserted |-> FALSE]

applyJSONPatch(cfg, e) ==
    IF e \in {"unreadable", "jsonBad"} \/ PatchVersion(e) # cfg.version
    THEN [cfg |-> cfg, asserted |-> TRUE]
    ELSE [cfg |-> [cfg EXCEPT !.mounts = @ \o <<"patched">>], asserted |-> FALSE]

\* One round of applyPatches' loop over entryInfoList(): directories are
\* skipped, executables run as a process, other files read as JSON patches.
ApplyPatch ==
    /\ phase = "patch"
    /\ dirExists
    /\ i <= Len(entries)
    /\ LET e == entries[i]
           r == CASE e = "subdir"  -> [cfg |-> json, asserted |-> FALSE]
                  [] e = "devices" -> applyExecutablePatch(json)
                  [] OTHER         -> applyJSONPatch(json, e)
       IN /\ json' = r.cfg
          /\ asserts' = IF r.asserted THEN asserts \cup {i} ELSE asserts
    /\ i' = i + 1
    /\ UNCHANGED <<inputs, phase, result>>

PatchesDone ==
    /\ phase = "patch"
    /\ dirExists
    /\ i > Len(entries)
    /\ phase' = "convert"
    /\ UNCHANGED <<inputs, json, i, asserts, result>>

\* json.get<Config>() fails for a config that is not an OCI config; the
\* caller's extra mounts are appended to the converted config's mounts.
Convert ==
    /\ phase = "convert"
    /\ IF ~file.oci
       THEN Return("err", <<>>)
       ELSE Return("ok", json.mounts \o (IF hasExtra THEN <<"extra">> ELSE <<>>))
    /\ UNCHANGED <<inputs, json, i, asserts>>

Next ==
    \/ LoadConfig
    \/ AddMounts
    \/ PatchDirMissing
    \/ ApplyPatch
    \/ PatchesDone
    \/ Convert

Spec == Init /\ [][Next]_vars

-----------------------------------------------------------------------------
(***************************************************************************)
(* Properties                                                              *)
(***************************************************************************)

\* The refinement mapping: the abstract out is what create returned, once
\* it has returned.
Abstract == INSTANCE ContainerCreate
                WITH out <- IF phase = "done" THEN result ELSE NoOutcome

\* Step by step, create does what ContainerCreate promises in one step:
\* the patches of config.d applied in order, each one best effort.
CreateRefinesSpec == Abstract!Spec

\* A config.d entry that is a valid patch for the config it meets (a JSON
\* patch of the config's ociVersion, or 20-devices on an 1.0.1 config)
\* never reaches a Q_ASSERT(false) branch of applyPatches.
ValidPatchesApply ==
    \A k \in asserts \ {0} :
        ~(\/ entries[k] = "devices" /\ file.version = "1.0.1"
          \/ entries[k] = "jsonAdd" /\ file.version = "1.0.1"
          \/ entries[k] = "jsonAddOld" /\ file.version = "1.0.0")
=============================================================================
