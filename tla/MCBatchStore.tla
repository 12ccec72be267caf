---------------------------- MODULE MCBatchStore ----------------------------
(* Small instances of BatchStore.                                          *)
EXTENDS BatchStore

(* A recheck read the row a scan had inserted, and found the proxy dead.    *)
ScanAndRecheck == {Scanned, Rechecked(Scanned, FALSE)}
OnlyScans == {Scanned}
=============================================================================
