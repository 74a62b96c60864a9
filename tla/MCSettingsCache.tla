-------------------------- MODULE MCSettingsCache --------------------------
(* Model-checking instance of SettingsCache.                               *)
EXTENDS SettingsCache

\* The callers of the program: an ordinary one, the bootstrap (its own session, no
\* cache), a provider with a time limit and no cached fallback, and a provider under an
\* override.
ProgramCalls ==
    {KeyLookup,
     [KeyLookup EXCEPT !.useCache = FALSE, !.session = TRUE],
     [KeyLookup EXCEPT !.timeout = 1, !.fallback = FALSE],
     [KeyLookup EXCEPT !.override = TRUE]}
=============================================================================
