---------------------------- MODULE MC_ImgMgmt ----------------------------
(***************************************************************************)
(* Small instances of ImgMgmt for TLC.  Two images: image 1 (v1.0.0, four *)
(* units, running at power-on) and image 2 (v1.1.0, three units).  With   *)
(* alignment 2 and chunks of 2 or 3 units, a non-final chunk of 3 is cut  *)
(* to 2 and its last unit resent, and image 2 ends with an unaligned      *)
(* final chunk of 1 or 3 units, which is written uncut.                   *)
(***************************************************************************)
EXTENDS ImgMgmt

MCImgs == {1, 2}
MCImgSize == [i \in MCImgs |-> IF i = 1 THEN 4 ELSE 3]
MCImgVer == [i \in MCImgs |->
               [iv_major |-> 1, iv_minor |-> i - 1, iv_revision |-> 0,
                iv_build_num |-> 3 - i]]
=============================================================================
