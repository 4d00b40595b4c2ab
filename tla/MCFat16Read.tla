---------------------------- MODULE MCFat16Read -----------------------------
(***************************************************************************)
(* Two-byte clusters and files of none to four clusters that are scattered *)
(* over the disk; the last file's directory entry promises more bytes than *)
(* its chain holds, as after a lost cluster, and its chain ends in marks   *)
(* that the code knows and in two that it does not.                        *)
(***************************************************************************)
EXTENDS Fat16Read

(* Read for the entry of a mark: a cluster of the file, or that mark.      *)
Behind == [c \in BeyondTable |-> IF c = 65529 THEN 3 ELSE c]

Scattered == { [chain |-> <<3, 5, 2, 6>>, mark |-> 65535, filesize |-> 7, beyond |-> Behind] }

SmallVolumes ==
  { [chain |-> <<>>, mark |-> 65535, filesize |-> 0, beyond |-> Behind],
    [chain |-> <<4>>, mark |-> 65528, filesize |-> 1, beyond |-> Behind],
    [chain |-> <<2, 3>>, mark |-> 65535, filesize |-> 4, beyond |-> Behind] }
  \cup Scattered
  \cup [chain : {<<5, 3>>}, mark : {65528, 65527, 65520, 0, 65529, 65534}, filesize : {7},
        beyond : {Behind}]

(* 13 is a step back by 3 in 16-value words.                               *)
SmallSeeks == {0, 1, 3, 13}
=============================================================================
