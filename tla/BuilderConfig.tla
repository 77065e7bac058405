----------------------------- MODULE BuilderConfig -----------------------------
(***************************************************************************)
(* loadConfig and saveConfig of the builder configuration                  *)
(* (src/src/linglong/builder/config.cpp): config.yaml files at a few paths *)
(* searched in order, and saves that rewrite one of them.                  *)
(*                                                                         *)
(* A file is what an ifstream reads from it: nothing (absent, or not       *)
(* openable), YAML that does not load as a BuilderConfig, or a config with *)
(* its version field.  The fields of a config are a model value.           *)
(***************************************************************************)
EXTENDS Naturals, Sequences, SequencesExt

CONSTANTS
    Search,    \* the paths loadConfig(files) is given, in order
    Cfgs,      \* builder configs (model values)
    MaxSaves   \* bound on the saves of one behaviour

Paths == ToSet(Search)

Contents == [kind : {"absent", "unopenable", "garbage"}]
                \cup [kind : {"cfg"}, cfg : Cfgs, version : {1, 2}]

Garbage == [kind |-> "garbage"]
Written(c) == [kind |-> "cfg", cfg |-> c, version |-> 1]

NoCfg == [kind |-> "none"]

Results == {NoCfg} \cup [kind : {"ok"}, cfg : Cfgs] \cup [kind : {"err"}]

\* loadConfig(file): an ifstream that does not open, and a config whose
\* version is not 1, are errors.  For YAML that does not load, config-> of
\* the error Result reads whatever the error holds: a version other than
\* 1 returns the version error, and 1 returns the error Result itself, so
\* the file is an error either way.
loadConfigFile(content) ==
    IF content.kind # "cfg" \/ content.version # 1
    THEN [kind |-> "err"]
    ELSE [kind |-> "ok", cfg |-> content.cfg]

VARIABLES
    files,   \* what each path holds
    loaded,  \* what loadConfig(files) returned since the last save
    saved,   \* what the last saveConfig returned: "ok", "err" or "none"
    saves    \* saves so far

bvars == <<files, loaded, saved, saves>>

TypeOK ==
    /\ files \in [Paths -> Contents]
    /\ loaded \in Results
    /\ saved \in {"none", "ok", "err"}
    /\ saves \in 0..MaxSaves

Init ==
    /\ files \in [Paths -> Contents]
    /\ loaded = NoCfg
    /\ saved = "none"
    /\ saves = 0

\* loadConfig(files): the first file that loads, or "all failed".
loadConfig ==
    LET k == SelectInSeq(Search, LAMBDA p : loadConfigFile(files[p]).kind = "ok")
    IN IF k = 0 THEN [kind |-> "err"] ELSE loadConfigFile(files[Search[k]])

Load ==
    /\ loaded' = loadConfig
    /\ UNCHANGED <<files, saved, saves>>

\* saveConfig(cfg, path): the ofstream truncates the file when it opens;
\* the YAML is streamed without checking the stream, so a failed write
\* (a full disk) still returns OK with the file cut; an exception from the
\* conversion after the open returns an error with the file emptied.
saveConfig(c, p) ==
    /\ saves < MaxSaves
    /\ saves' = saves + 1
    /\ \/ /\ files[p].kind = "unopenable"
          /\ saved' = "err"
          /\ UNCHANGED files
       \/ /\ files[p].kind # "unopenable"
          /\ \/ files' = [files EXCEPT ![p] = Written(c)] /\ saved' = "ok"
             \/ files' = [files EXCEPT ![p] = Garbage] /\ saved' = "ok"
             \/ files' = [files EXCEPT ![p] = Garbage] /\ saved' = "err"
    /\ loaded' = NoCfg

Next == Load \/ \E c \in Cfgs, p \in Paths : saveConfig(c, p)

Spec == Init /\ [][Next]_bvars

=============================================================================
