------------------------------ MODULE ModuleList ------------------------------
(***************************************************************************)
(* ModuleListGenerator::gen and the two ModulePolicy implementations       *)
(* (src/libs/linglong/src/linglong/runtime/): the automatically enabled    *)
(* modules of an app, a map from module name to whether it is a develop   *)
(* module, built by letting each policy emplace its module in turn.        *)
(*                                                                         *)
(* A locale value is a sequence of characters.  A module name "lang_<l>"  *)
(* is the record [kind |-> "lang", lang |-> l] and "develop" the record   *)
(* [kind |-> "develop"]: the prefix "lang_" keeps the names distinct.     *)
(***************************************************************************)
EXTENDS Sequences, SequencesExt

CONSTANTS
    Locales,  \* non-empty values LC_ALL and LANG may hold
    Unset     \* an environment variable that is not set (getenv is null)

Values == {Unset, <<>>} \cup Locales

Policies == {"develop", "language"}

DevelopModule == [kind |-> "develop"]
LangModule(l) == [kind |-> "lang", lang |-> l]

\* getLocale: LC_ALL when it is set, else LANG when it is set, else "C".
\* The LC_* categories only produce a warning and are left out.
getLocale(lcAll, lang) ==
    IF lcAll # Unset THEN lcAll ELSE IF lang # Unset THEN lang ELSE <<"C">>

\* Everything before the first c of s (std::string::find and substr).
CutAt(s, c) ==
    LET pos == SelectInSeq(s, LAMBDA x : x = c)
    IN IF pos = 0 THEN s ELSE SubSeq(s, 1, pos - 1)

\* Mutant: the modifier left on the language.
getLanguageKeepsModifier(locale) == CutAt(locale, ".")

\* getLanguage: the locale cut at its codeset ('.'), then at its modifier.
getLanguage(locale) == CutAt(CutAt(locale, "."), "@")

\* std::map::emplace: a name already in the map keeps its value.
emplace(map, name, value) ==
    IF name \in DOMAIN map THEN map
    ELSE [n \in DOMAIN map \cup {name} |-> IF n = name THEN value ELSE map[n]]

\* DevelopModulePolicy and LanguageModulePolicy::appendModulesTo; the
\* Q_ASSERT on an empty language is compiled out.
appendModulesTo(policy, map, lcAll, lang) ==
    IF policy = "develop"
    THEN emplace(map, DevelopModule, TRUE)
    ELSE emplace(map, LangModule(getLanguage(getLocale(lcAll, lang))), FALSE)

VARIABLES
    lcAll,     \* getenv("LC_ALL")
    lang,      \* getenv("LANG")
    policies,  \* the generator's policies, in order
    modules,   \* what gen() returned
    done       \* whether gen() has returned

mvars == <<lcAll, lang, policies, modules, done>>

TypeOK ==
    /\ lcAll \in Values
    /\ lang \in Values
    /\ policies \in Seq(Policies) /\ Len(policies) <= 2
    /\ \A n \in DOMAIN modules : modules[n] \in BOOLEAN
    /\ done \in BOOLEAN

Init ==
    /\ lcAll \in Values
    /\ lang \in Values
    /\ policies \in UNION {[1..n -> Policies] : n \in 0..2}
    /\ modules = <<>>
    /\ done = FALSE

\* gen: each policy in order appends to an empty map.
gen ==
    /\ ~done
    /\ done' = TRUE
    /\ modules' = FoldLeft(LAMBDA map, p : appendModulesTo(p, map, lcAll, lang),
                           <<>>, policies)
    /\ UNCHANGED <<lcAll, lang, policies>>

Next == gen

Spec == Init /\ [][Next]_mvars

-----------------------------------------------------------------------------
(***************************************************************************)
(* The reference: locale(7) takes LC_ALL, then LANG, when non-null, else   *)
(* "C"; a locale is language[_territory][.codeset][@modifier] (POSIX 8.2), *)
(* and the language module is named after the part before the codeset and *)
(* the modifier.  Each policy in the list contributes its module once.     *)
(***************************************************************************)
RefLocale ==
    IF lcAll \notin {Unset, <<>>} THEN lcAll
    ELSE IF lang \notin {Unset, <<>>} THEN lang ELSE <<"C">>

RefLanguage(s) ==
    CHOOSE p \in {SubSeq(s, 1, n) : n \in 0..Len(s)} :
        /\ \A j \in 1..Len(p) : p[j] \notin {".", "@"}
        /\ Len(p) = Len(s) \/ s[Len(p) + 1] \in {".", "@"}

RefModules ==
    (IF "develop" \in ToSet(policies) THEN {DevelopModule} ELSE {})
        \cup (IF "language" \in ToSet(policies) THEN {LangModule(RefLanguage(RefLocale))} ELSE {})

\* When no locale variable is set to the empty string, gen() enables the
\* develop module as a develop module and the language module of the
\* effective locale as a non-develop one, and nothing else.
ModulesLikeLocale ==
    done /\ lcAll # <<>> /\ lang # <<>> =>
        /\ DOMAIN modules = RefModules
        /\ \A n \in DOMAIN modules : modules[n] = (n = DevelopModule)
=============================================================================
