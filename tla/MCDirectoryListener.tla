------------------------- MODULE MCDirectoryListener -------------------------
(* Small directories for DirectoryListener.  two and three are in a row, as *)
(* in x_2.png and y_3.jpg; after three, the largest Int32, the number of    *)
(* lowest is the next one; the number of unread cannot be converted; other  *)
(* is no image.                                                             *)
EXTENDS DirectoryListener, TLC

CONSTANTS two, three, lowest, unread, other

\* MCSplit: what separates documents.
SplitImages == {two, three, lowest, unread}
SplitNum == (two :> 2) @@ (three :> 3) @@ (lowest :> -4) @@ (unread :> NoNumber)

\* MCWatch: scan, watcher and restarts.
WatchImages == {two, three, lowest, other}
WatchValid == {two, three, lowest}
WatchNum == (two :> 2) @@ (three :> 3) @@ (lowest :> -4) @@ (other :> NoNumber)

ShortTimeouts == {0, 3}
=============================================================================
