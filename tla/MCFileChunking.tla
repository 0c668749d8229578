--------------------------- MODULE MCFileChunking ---------------------------
(* FileChunking for TLC: four pages are cut into chunks of two, and a block  *)
(* of the list holds one entry.                                              *)
EXTENDS FileChunking

MCCutSize == <<1, 2, 2, 2>>
MCVersions == <<1, 1, 1, 2>>

=============================================================================
