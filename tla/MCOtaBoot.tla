----------------------------- MODULE MCOtaBoot -----------------------------
\* OtaBoot on two upgrades and a few power cuts, for TLC.
EXTENDS OtaBoot

\* other programs commit at any time, but for the moment between the unset of
\* flag_upgrade_push and its push
Commits == Running \ {"feed"}
NoCommits == {}
=============================================================================
