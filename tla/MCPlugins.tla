----------------------------- MODULE MCPlugins -----------------------------
(* Three plugin files for TLC.  fa and fc have the same id: a new version     *)
(* under another file name, or a copy.  fa and fb share a command.           *)
EXTENDS Plugins

CONSTANTS fa, fb, fc

MCFiles == {fa, fb, fc}
MCIds == {"A", "B"}
MCCommands == {"!one", "!two", "!three"}
MCIdOf(f) == IF f = fb THEN "B" ELSE "A"
MCListOf(f) == CASE f = fa -> {"!one", "!two"}
                 [] f = fb -> {"!two"}
                 [] f = fc -> {"!three"}
MCWatchers == {fa, fc}
\* the usual configuration, the same in another order, a changed one, and
\* one with a duplicate id
MCConfigs == {<<fa, fb>>, <<fb, fa>>, <<fb, fc>>, <<fa, fb, fc>>}
=============================================================================
