-------------------------- MODULE FileReplacement --------------------------
(***************************************************************************)
(* What becomes of a file that a module replaces, without temporary files, *)
(* copies or steps in between.  Where the new file can be renamed into its *)
(* place, the file keeps its content until it has the complete new one.    *)
(* Where it cannot, the file never gets the new content: it keeps what it  *)
(* has, or loses all of it where the module writes to it in place.         *)
(***************************************************************************)
VARIABLES
  file,    \* the content of the file
  way      \* what the module may do to it: "rename", "write" in place, "none"

absVars == <<file, way>>

Init ==
  /\ file \in {"absent", "dir", "old", "new"}
  /\ way \in {"rename", "write", "none"}

Replace == way = "rename" /\ file # "dir" /\ file' = "new" /\ UNCHANGED way

Empty == way = "write" /\ file # "dir" /\ file' = "empty" /\ UNCHANGED way

\* The administrator writes or removes the file.
Edit == file # "dir" /\ file' \in {"other", "absent"} /\ UNCHANGED way

Next == Replace \/ Empty \/ Edit

Spec == Init /\ [][Next]_absVars

=============================================================================
