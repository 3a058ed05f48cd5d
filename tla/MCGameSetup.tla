----------------------------- MODULE MCGameSetup -----------------------------
(* TLC's instance of GameSetup: every console with every kind of game, and *)
(* every way to choose a language.                                         *)
EXTENDS GameSetup

CONSTANTS English, NoLanguage

Plain ==
  [dsi |-> TRUE, doubleRAM |-> FALSE, onDebugger |-> FALSE,
   removeMonitor |-> FALSE, twlMode |-> 0, language |-> NoLanguage,
   twlCfg |-> NoLanguage, runCardEngine |-> TRUE, dsiCapable |-> FALSE,
   sdk5 |-> FALSE, params |-> TRUE, ique |-> FALSE, browser |-> FALSE,
   hook |-> TRUE]

Consoles ==
  {[Plain EXCEPT !.dsi = dsi, !.doubleRAM = double, !.onDebugger = debugger,
                 !.removeMonitor = remove, !.twlMode = mode,
                 !.dsiCapable = capable, !.sdk5 = sdk5, !.params = params,
                 !.browser = browser, !.ique = ique] :
     dsi, double, debugger, remove, capable, sdk5, params, browser,
     ique \in BOOLEAN, mode \in 0..2}

LanguageChoices ==
  {[Plain EXCEPT !.dsi = dsi, !.doubleRAM = double, !.twlMode = mode,
                 !.language = lang, !.twlCfg = cfg, !.ique = ique,
                 !.runCardEngine = run, !.hook = hook, !.dsiCapable = sdk5,
                 !.sdk5 = sdk5] :
     dsi, double, ique, run, hook, sdk5 \in BOOLEAN, mode \in {0, 2},
     lang, cfg \in {English, Chinese, NoLanguage}}

MCSetups == {s \in Consoles \cup LanguageChoices : Possible(s)}

MCLanguages == {English, Chinese}
=============================================================================
