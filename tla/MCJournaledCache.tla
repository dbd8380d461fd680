--------------------------- MODULE MCJournaledCache ---------------------------
(* Instance of JournaledCache for TLC: the .cfg gives the constants.         *)
EXTENDS JournaledCache
=============================================================================
