------------------------------ MODULE MCNoteExit ------------------------------
(***************************************************************************)
(* NoteExit for TLC.  Its sizes are all in the .cfg: a ring of two, so     *)
(* that a publication serves exactly one slot, and two epochs of two       *)
(* leaves, of which others may fill both.                                  *)
(***************************************************************************)
EXTENDS NoteExit
===============================================================================
