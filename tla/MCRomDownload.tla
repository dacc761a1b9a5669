--------------------------- MODULE MCRomDownload ---------------------------
\* RomDownload with two downloads of a user, for TLC.
EXTENDS RomDownload

\* one downloader and cancels, or both without
Usual == {[who |-> {"upgrade"}, starts |-> 2, cancels |-> 2, toggles |-> 1],
          [who |-> {"upgrade", "ota"}, starts |-> 2, cancels |-> 0, toggles |-> 0]}
\* both, and a cancel
Crossed == {[who |-> {"upgrade", "ota"}, starts |-> 2, cancels |-> 1, toggles |-> 0]}
=============================================================================
