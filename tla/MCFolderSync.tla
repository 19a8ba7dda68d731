----------------------------- MODULE MCFolderSync -----------------------------
(* FolderSync on a folder of two messages. *)
EXTENDS FolderSync

CONSTANTS m1, m2, ticker, manual

TwoMessages == {m1, m2}
OneWorker == {ticker}
TwoWorkers == {ticker, manual}
===============================================================================
