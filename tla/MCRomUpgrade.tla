---------------------------- MODULE MCRomUpgrade ----------------------------
\* RomUpgrade with a few processes, for TLC.
EXTENDS RomUpgrade, TLC
CONSTANTS w1, w2, c1, c2, f1, f2

OneWeb    == {w1}
TwoWeb    == {w1, w2}
OneCron   == {c1}
TwoCron   == {c1, c2}
TwoFlash  == {f1, f2}

UpgradeAndFlash  == {"upgrade", "flash", "other"}
UpgradeAndCancel == {"upgrade", "cancel"}
AllButCancel     == {"upgrade", "flash", "upload", "other"}
OnlyFlash        == {"flash", "upload"}
OnlyUpgrade      == {"upgrade"}

\* processes of one kind are interchangeable
Symmetry == Permutations(Web) \cup Permutations(Cron) \cup Permutations(Flash)
=============================================================================
