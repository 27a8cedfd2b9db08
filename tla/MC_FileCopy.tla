----------------------------- MODULE MC_FileCopy -----------------------------
(* Files of up to two bytes over {0, 1}: a source whose bytes differ from  *)
(* the zeros map_file_out() writes, sizes 0, 1 and 2 for the lseek edge,   *)
(* and one power loss at any step.                                         *)
EXTENDS FileCopy

MC_Bytes == {0, 1}
MC_MaxSize == 2
=============================================================================
