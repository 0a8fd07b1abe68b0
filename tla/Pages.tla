-------------------------------- MODULE Pages --------------------------------
(***************************************************************************)
(* The pages of the web client on a form, and what they rest on, side by   *)
(* side: the analyses they show, the settings of the weights, the report   *)
(* with its caches, the cache of the web process, the clients of Google,   *)
(* and the sign-in's callback.  A behaviour is one of a single part, the   *)
(* others stay as they begin.                                              *)
(***************************************************************************)
EXTENDS Analyses, WeightingSettings, ReportPage, WebDataCache, FormsClient, SignInCallback

VARIABLE part

PageParts == {"analyses", "settings", "report", "cache", "reads", "sign_in"}
pagesVars == <<part, page, settingsVars, reportVars, cacheVars, readVars, signInVars>>

PagesInit ==
  /\ part \in PageParts
  /\ Init /\ SettingsInit /\ ReportInit /\ CacheInit /\ ReadInit /\ CallbackInit

InAnalyses ==
  /\ part = "analyses" /\ Next
  /\ UNCHANGED <<part, settingsVars, reportVars, cacheVars, readVars, signInVars>>
InSettings ==
  /\ part = "settings" /\ SettingsNext
  /\ UNCHANGED <<part, page, reportVars, cacheVars, readVars, signInVars>>
InReport ==
  /\ part = "report" /\ ReportNext
  /\ UNCHANGED <<part, page, settingsVars, cacheVars, readVars, signInVars>>
InCache ==
  /\ part = "cache" /\ CacheNext
  /\ UNCHANGED <<part, page, settingsVars, reportVars, readVars, signInVars>>
InReads ==
  /\ part = "reads" /\ ReadNext
  /\ UNCHANGED <<part, page, settingsVars, reportVars, cacheVars, signInVars>>
InSignIn ==
  /\ part = "sign_in" /\ CallbackNext
  /\ UNCHANGED <<part, page, settingsVars, reportVars, cacheVars, readVars>>

PagesNext == InAnalyses \/ InSettings \/ InReport \/ InCache \/ InReads \/ InSignIn
PagesSpec == PagesInit /\ [][PagesNext]_pagesVars
=============================================================================
