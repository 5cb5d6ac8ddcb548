-------------------------- MODULE MCCollectionCycle --------------------------
(* Small instances of CollectionCycle for TLC.                             *)
EXTENDS CollectionCycle, TLC

Args(profile, publish, exact, failFast) ==
  [profile |-> profile, publish |-> publish, exact |-> exact,
   override |-> FALSE, failFast |-> failFast]

\* the hourly timer, an exact DEX refresh (both: price step, then dex_depth), and the
\* route timer, which needs no intent lock
HourlyConfigs == { Args("depth", TRUE, FALSE, FALSE),
                   Args("dex_depth", TRUE, TRUE, TRUE),
                   Args("routes", TRUE, FALSE, FALSE) }

\* the nightly timer
DailyConfigs == { Args("daily", TRUE, FALSE, FALSE) }

Symmetric == Permutations(Runs)
=============================================================================
