------------------------------ MODULE MCBackup ------------------------------
(* Two handles on two files, the second shared with another process.       *)
EXTENDS Backup

MCFiles == {"f1", "f2"}
MCHandles == {"h1", "h2"}
MCOthers == {"o"}
MCHome == [c \in MCHandles \cup MCOthers |-> IF c = "h1" THEN "f1" ELSE "f2"]
=============================================================================
