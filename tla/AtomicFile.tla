------------------------------ MODULE AtomicFile ------------------------------
(***************************************************************************)
(* What a program may expect of a file it replaces as a whole: at any time *)
(* the file is what it was before, or all of what is being written.  A     *)
(* replacement under way may be abandoned, and is when the process ends.   *)
(***************************************************************************)
CONSTANTS Values, None

VARIABLES content,   \* what a reader finds
          pending    \* what is being written

InitFile == content \in Values \cup {None} /\ pending = None

Begin(v) == pending = None /\ pending' = v /\ UNCHANGED content
Commit   == pending # None /\ content' = pending /\ pending' = None
Abandon  == pending # None /\ pending' = None /\ UNCHANGED content

NextFile == (\E v \in Values : Begin(v)) \/ Commit \/ Abandon

Spec == InitFile /\ [][NextFile]_<<content, pending>>
=============================================================================
