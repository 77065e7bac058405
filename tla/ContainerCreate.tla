--------------------------- MODULE ContainerCreate ---------------------------
(***************************************************************************)
(* What ContainerBuilder::create promises, as one atomic step: the         *)
(* container's OCI config is the base config.json with the builder's       *)
(* mounts added, then every patch of config.d applied in directory order   *)
(* on a best-effort basis, then the caller's extra mounts.  A patch that   *)
(* does not apply leaves the config as it was; an executable patch that   *)
(* runs replaces the config with what it prints.                          *)
(***************************************************************************)
EXTENDS ContainerConfig

\* What create may return for the given inputs.
Allowed(file, entries, dirExists, hasRuntime, hasExtra) ==
    IF file.kind # "json" \/ ~file.oci
    THEN {[kind |-> "err", mounts |-> <<>>]}
    ELSE LET base == [version |-> file.version,
                      mounts |-> (IF file.mounts = NoMounts THEN <<>> ELSE file.mounts)
                                 \o Builtins(hasRuntime)]
             patched == IF dirExists THEN PatchResults(base, entries) ELSE {base}
         IN {[kind |-> "ok",
              mounts |-> c.mounts \o (IF hasExtra THEN <<"extra">> ELSE <<>>)]
             : c \in patched}

VARIABLES
    file, entries, dirExists, hasRuntime, hasExtra,  \* the inputs of one call
    out                                              \* what create returned

Init ==
    /\ file \in ConfigFiles
    /\ entries \in UNION {[1..n -> EntryKinds] : n \in 0..MaxEntries}
    /\ dirExists \in BOOLEAN
    /\ hasRuntime \in BOOLEAN
    /\ hasExtra \in BOOLEAN
    /\ out = NoOutcome

Create ==
    /\ out = NoOutcome
    /\ out' \in Allowed(file, entries, dirExists, hasRuntime, hasExtra)
    /\ UNCHANGED <<file, entries, dirExists, hasRuntime, hasExtra>>

Spec == Init /\ [][Create]_<<file, entries, dirExists, hasRuntime, hasExtra, out>>
=============================================================================
