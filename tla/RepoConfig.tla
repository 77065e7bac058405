----------------------------- MODULE RepoConfig -----------------------------
(***************************************************************************)
(* Repository configuration of OSTreeRepo: the config the object holds in  *)
(* memory (cfg, remoteRepoName, remoteEndpoint), the endpoint of the API   *)
(* client it shares with RepoClient, and the two persisted copies: the     *)
(* config.yaml beside the repo and the "remote" section of the ostree      *)
(* repo config, which is the URL pull() fetches from.                      *)
(*                                                                         *)
(* The process owning the object can die at any step and be started       *)
(* again; memory is lost, the two files survive.  A URL is modelled by     *)
(* what it is built from: the endpoint of a repo and, when the code        *)
(* appends "/repos/<name>", the name.                                      *)
(***************************************************************************)
EXTENDS FiniteSets

CONSTANTS
    Names,      \* remote repo names (model values)
    Endpoints,  \* endpoint URLs (model values)
    NoSuffix,   \* a URL used as the endpoint itself
    NoRemote    \* no "remote" section for a name in the ostree config

Config == [defaultRepo : Names, repos : [Names -> Endpoints]]

\* The URL endpoint + "/repos/" + name, and the bare endpoint.
RepoUrl(endpoint, name) == [base |-> endpoint, repo |-> name]
BareUrl(endpoint) == [base |-> endpoint, repo |-> NoSuffix]
Urls == [base : Endpoints, repo : Names \cup {NoSuffix}]

VARIABLES
    up,              \* the owning process is running
    cfg,             \* OSTreeRepo::cfg
    remoteRepoName,  \* OSTreeRepo::remoteRepoName
    remoteEndpoint,  \* OSTreeRepo::remoteEndpoint
    clientEndpoint,  \* server of the shared ClientApi (RepoClient and push)
    cfgFile,         \* <root>/config.yaml
    ostreeRemote,    \* url of each remote section of <root>/repo/config
    last             \* the last step and whether it reported success

vars == <<up, cfg, remoteRepoName, remoteEndpoint, clientEndpoint,
          cfgFile, ostreeRemote, last>>

TypeOK ==
    /\ up \in BOOLEAN
    /\ cfg \in Config
    /\ remoteRepoName \in Names
    /\ remoteEndpoint \in Endpoints
    /\ clientEndpoint \in Endpoints
    /\ cfgFile \in Config
    /\ ostreeRemote \in [Names -> Urls \cup {NoRemote}]
    /\ last \in [op : {"init", "start", "setConfig", "crash"}, ok : BOOLEAN]

\* A repo that has not been started yet: a config.yaml and a repo config
\* in any state (the repo may not exist yet, or carry remotes of an older
\* configuration).
Init ==
    /\ up = FALSE
    /\ cfgFile \in Config
    /\ cfg = cfgFile
    /\ remoteRepoName = cfgFile.defaultRepo
    /\ remoteEndpoint = cfgFile.repos[cfgFile.defaultRepo]
    /\ clientEndpoint = remoteEndpoint
    /\ ostreeRemote \in [Names -> Urls \cup {NoRemote}]
    /\ last = [op |-> "init", ok |-> TRUE]

(***************************************************************************)
(* The constructor, with initCreateRepoIfNotExists: the object takes the   *)
(* config it is given (the config.yaml) and the API client, which the      *)
(* caller points at the default repo's endpoint.  initCreateRepoIfNotExists *)
(* replaces the default remote with endpoint/repos/name                    *)
(* (ostree_repo_remote_change writes the repo config), then rewrites the   *)
(* config with http2 and gpg-verify off.  It fails before the remote       *)
(* change ("early": mkpath, open and create) or after it ("late":          *)
(* write_config); the constructor only logs the failure and opens the repo *)
(* as it is.                                                               *)
(***************************************************************************)
InitRemote(remotes, name, endpoint, initErr) ==
    IF initErr = "early" THEN remotes
    ELSE [remotes EXCEPT ![name] = RepoUrl(endpoint, name)]

Start ==
    /\ ~up
    /\ \E initErr \in {"none", "early", "late"} :
        /\ up' = TRUE
        /\ cfg' = cfgFile
        /\ remoteRepoName' = cfgFile.defaultRepo
        /\ remoteEndpoint' = cfgFile.repos[cfgFile.defaultRepo]
        /\ clientEndpoint' = cfgFile.repos[cfgFile.defaultRepo]
        /\ ostreeRemote' = InitRemote(ostreeRemote, cfgFile.defaultRepo,
                                      cfgFile.repos[cfgFile.defaultRepo], initErr)
        /\ last' = [op |-> "start", ok |-> initErr = "none"]
        /\ UNCHANGED cfgFile

(***************************************************************************)
(* setConfig(new): nothing to do when new equals cfg.  Otherwise save      *)
(* config.yaml, copy the ostree config, set http2, gpg-verify and url of   *)
(* the new default remote (the bare endpoint), write the ostree config,    *)
(* point both API clients at the endpoint, and only then update the        *)
(* object's own fields.  A failed save or write returns at once.           *)
(***************************************************************************)
SetRemote(remotes, new) ==
    [remotes EXCEPT ![new.defaultRepo] = BareUrl(new.repos[new.defaultRepo])]

\* Mutant: cfg taken over before the ostree config is written.
setConfigCfgFirst(new) ==
    /\ up
    /\ \/ /\ new = cfg
          /\ last' = [op |-> "setConfig", ok |-> TRUE]
          /\ UNCHANGED <<up, cfg, remoteRepoName, remoteEndpoint,
                         clientEndpoint, cfgFile, ostreeRemote>>
       \/ /\ new # cfg
          /\ \E saveErr, writeErr \in BOOLEAN :
              /\ cfgFile' = IF saveErr THEN cfgFile ELSE new
              /\ IF saveErr \/ writeErr
                 THEN /\ last' = [op |-> "setConfig", ok |-> FALSE]
                      /\ cfg' = IF saveErr THEN cfg ELSE new
                      /\ UNCHANGED <<remoteRepoName, remoteEndpoint,
                                     clientEndpoint, ostreeRemote>>
                 ELSE /\ ostreeRemote' = SetRemote(ostreeRemote, new)
                      /\ clientEndpoint' = new.repos[new.defaultRepo]
                      /\ cfg' = new
                      /\ remoteRepoName' = new.defaultRepo
                      /\ remoteEndpoint' = new.repos[new.defaultRepo]
                      /\ last' = [op |-> "setConfig", ok |-> TRUE]
              /\ UNCHANGED up

setConfig(new) ==
    /\ up
    /\ \/ /\ new = cfg
          /\ last' = [op |-> "setConfig", ok |-> TRUE]
          /\ UNCHANGED <<up, cfg, remoteRepoName, remoteEndpoint,
                         clientEndpoint, cfgFile, ostreeRemote>>
       \/ /\ new # cfg
          /\ \E saveErr, writeErr \in BOOLEAN :
              /\ cfgFile' = IF saveErr THEN cfgFile ELSE new
              /\ IF saveErr \/ writeErr
                 THEN /\ last' = [op |-> "setConfig", ok |-> FALSE]
                      /\ UNCHANGED <<cfg, remoteRepoName, remoteEndpoint,
                                     clientEndpoint, ostreeRemote>>
                 ELSE /\ ostreeRemote' = SetRemote(ostreeRemote, new)
                      /\ clientEndpoint' = new.repos[new.defaultRepo]
                      /\ cfg' = new
                      /\ remoteRepoName' = new.defaultRepo
                      /\ remoteEndpoint' = new.repos[new.defaultRepo]
                      /\ last' = [op |-> "setConfig", ok |-> TRUE]
              /\ UNCHANGED up

\* The owning process dies; what it held in memory is gone.
Crash ==
    /\ up
    /\ up' = FALSE
    /\ last' = [op |-> "crash", ok |-> TRUE]
    /\ UNCHANGED <<cfg, remoteRepoName, remoteEndpoint, clientEndpoint,
                   cfgFile, ostreeRemote>>

Next ==
    \/ Start
    \/ \E new \in Config : setConfig(new)
    \/ Crash

Spec == Init /\ [][Next]_vars

-----------------------------------------------------------------------------
(***************************************************************************)
(* Properties                                                              *)
(***************************************************************************)

\* While the process runs, the fields of OSTreeRepo and the API client it
\* shares agree: pull (remoteRepoName), repoPullbyCmd (remoteEndpoint) and
\* search and push (the client) all address the default repo of cfg, also
\* after a setConfig that failed half way.
MemoryAndClientsAgree ==
    up =>
        /\ remoteRepoName = cfg.defaultRepo
        /\ remoteEndpoint = cfg.repos[cfg.defaultRepo]
        /\ clientEndpoint = remoteEndpoint

\* While the process runs and its last start or setConfig succeeded, the
\* config.yaml the next start loads is the config in use.
SavedConfigIsCurrent ==
    up /\ last.op \in {"start", "setConfig"} /\ last.ok => cfgFile = cfg
=============================================================================
