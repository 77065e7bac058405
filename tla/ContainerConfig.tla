--------------------------- MODULE ContainerConfig ---------------------------
(***************************************************************************)
(* The data ContainerBuilder::create works on, shared by the promise       *)
(* (ContainerCreate) and the step-by-step model (ContainerBuilder).  A     *)
(* config is a record of its ociVersion and its mounts (a sequence of      *)
(* mount names); config.json may lack the "mounts" key (NoMounts).         *)
(***************************************************************************)
EXTENDS Naturals, Sequences

CONSTANTS
    NoMounts,    \* config.json without a "mounts" key
    MaxEntries   \* bound on the entries of config.d

\* ociVersion values: the one 20-devices accepts, and an older one.
OciVersions == {"1.0.1", "1.0.0"}

\* config.json as found on disk: absent, not JSON, or a JSON config that
\* does (oci) or does not convert to ocppi's Config.
ConfigFiles == [kind : {"missing", "invalid"}] \cup
               [kind : {"json"}, version : OciVersions,
                mounts : {<<>>, <<"cfg">>, NoMounts}, oci : BOOLEAN]

\* Entries of config.d: a subdirectory, the executable 20-devices, a JSON
\* patch that appends a mount for either ociVersion, a file that is not
\* JSON, and a file that cannot be opened.
EntryKinds == {"subdir", "devices", "jsonAdd", "jsonAddOld", "jsonBad", "unreadable"}

\* The mounts create adds: "/", "/runtime" when there is a runtime, the
\* "/opt/apps/" tmpfs and the application's files.
Builtins(hasRuntime) ==
    <<"root">> \o (IF hasRuntime THEN <<"runtime">> ELSE <<>>) \o <<"appsTmpfs", "app">>

\* 20-devices prints the config with "mounts" merge-patched: RFC 7386
\* replaces the array, so its output holds only the /dev/video* mounts.
DevicesOutputs(cfg) ==
    IF cfg.version = "1.0.1"
    THEN {[cfg EXCEPT !.mounts = v] : v \in {<<>>, <<"video0">>}}
    ELSE {}

\* The configs one entry can leave.
EntryResults(cfg, e) ==
    CASE e = "jsonAdd" /\ cfg.version = "1.0.1" ->
            {[cfg EXCEPT !.mounts = @ \o <<"patched">>]}
      [] e = "jsonAddOld" /\ cfg.version = "1.0.0" ->
            {[cfg EXCEPT !.mounts = @ \o <<"patched">>]}
      [] e = "devices" -> {cfg} \cup DevicesOutputs(cfg)
      [] OTHER -> {cfg}

RECURSIVE PatchResults(_, _)
PatchResults(cfg, es) ==
    IF es = <<>> THEN {cfg}
    ELSE UNION {PatchResults(c, Tail(es)) : c \in EntryResults(cfg, Head(es))}

Outcomes == [kind : {"none", "err"}, mounts : {<<>>}] \cup
            [kind : {"ok"}, mounts : Seq({"cfg", "root", "runtime", "appsTmpfs",
                                          "app", "patched", "video0", "extra"})]

NoOutcome == [kind |-> "none", mounts |-> <<>>]
=============================================================================
