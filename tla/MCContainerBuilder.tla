------------------------- MODULE MCContainerBuilder -------------------------
(* ContainerBuilder for TLC: config.d holds up to two entries, enough for  *)
(* a JSON patch after 20-devices and for two patches of either version.   *)
(*                                                                         *)
(* The runtime's module list generator is checked beside it: a behaviour  *)
(* is one call of create, or one call of gen, the other component staying *)
(* at rest.  The two do not share state.                                   *)
EXTENDS ContainerBuilder

CONSTANT Unset

MCMaxEntries == 2

\* Locales with a territory, a codeset, a modifier, and a modifier after
\* the codeset.
MCLocales == {<<"e", "n">>, <<"e", "n", "_", "U", ".", "x">>,
              <<"e", "n", "@", "x">>, <<"e", "n", ".", "x", "@", "x">>}

VARIABLES lcAll, lang, policies, modules, done

mvars == <<lcAll, lang, policies, modules, done>>

M == INSTANCE ModuleList WITH Locales <- MCLocales

ContainerAtRest ==
    /\ file = [kind |-> "missing"] /\ entries = <<>>
    /\ dirExists = FALSE /\ hasRuntime = FALSE /\ hasExtra = FALSE
    /\ phase = "load" /\ json = NoMounts /\ i = 1 /\ asserts = {} /\ result = NoOutcome

ModulesAtRest ==
    /\ lcAll = Unset /\ lang = Unset /\ policies = <<>>
    /\ modules = <<>> /\ done = FALSE

RuntimeInit == (Init /\ ModulesAtRest) \/ (ContainerAtRest /\ M!Init)

RuntimeNext == (Next /\ UNCHANGED mvars) \/ (M!Next /\ UNCHANGED vars)

RuntimeTypeOK == TypeOK /\ M!TypeOK

\* See ModuleList.
ModulesLikeLocale == M!ModulesLikeLocale
=============================================================================
