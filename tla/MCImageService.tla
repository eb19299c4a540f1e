--------------------------- MODULE MCImageService ---------------------------
(* The numbers of two and three are in a row, that of zero is not next to  *)
(* either's; other is no image.                                            *)
EXTENDS ImageService, TLC

CONSTANTS zero, two, three, other

\* MCService: documents cut by their numbers, scans, tasks and restarts.
ServiceImages == {zero, two, other}
ServiceValid  == {zero, two}
ServiceNum    == (zero :> 0) @@ (two :> 2) @@ (other :> NoNumber)

\* MCTimeout: two images that belong together, and the clock.
TimeoutImages == {two, three}
TimeoutNum    == (two :> 2) @@ (three :> 3)
=============================================================================
