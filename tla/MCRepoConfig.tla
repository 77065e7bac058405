---------------------------- MODULE MCRepoConfig ----------------------------
(* Model-checking instance of RepoConfig: two remote names, two endpoints. *)
(*                                                                         *)
(* The builder's configuration files are checked beside it: a behaviour   *)
(* exercises one of the two, the other staying at rest.  They do not      *)
(* share state.                                                            *)
EXTENDS RepoConfig

CONSTANT Cfgs

VARIABLES files, loaded, saved, saves

bvars == <<files, loaded, saved, saves>>

\* The project's .ll-builder/config.yaml, the user's and the system's,
\* searched in that order; two saves reach a cut file in front of a valid
\* one.
B == INSTANCE BuilderConfig
         WITH Search <- <<"project", "user", "system">>, MaxSaves <- 2

RepoAtRest ==
    /\ up = FALSE
    /\ cfgFile = CHOOSE c \in Config : TRUE
    /\ cfg = cfgFile
    /\ remoteRepoName = cfgFile.defaultRepo
    /\ remoteEndpoint = cfgFile.repos[cfgFile.defaultRepo]
    /\ clientEndpoint = remoteEndpoint
    /\ ostreeRemote = [n \in Names |-> NoRemote]
    /\ last = [op |-> "init", ok |-> TRUE]

BuilderAtRest ==
    /\ files = [p \in {"project", "user", "system"} |-> [kind |-> "absent"]]
    /\ loaded = B!NoCfg /\ saved = "none" /\ saves = 0

ConfigsInit == (Init /\ BuilderAtRest) \/ (RepoAtRest /\ B!Init)

ConfigsNext ==
    \/ BuilderAtRest /\ Next /\ UNCHANGED bvars
    \/ RepoAtRest /\ B!Next /\ UNCHANGED vars

=============================================================================
