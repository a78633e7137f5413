------------------------------ MODULE MCGridMap ------------------------------
(***************************************************************************)
(* A slice of four by four voxels.  The camera flies between two voxels    *)
(* and, in pose mode, out of the map; one obstacle comes, goes or moves.   *)
(***************************************************************************)
EXTENDS GridMap

MCPoses == {<< 0, 2 >>, << 1, 2 >>}
MCOutside == {<< -1, 2 >>}
MCPixels == [p \in MCPoses |->
    IF p = << 0, 2 >> THEN << << 3, 3 >>, << 3, 2 >>, << 3, 2 >>, << 3, 0 >> >>
    ELSE << << 3, 3 >>, << 3, 2 >> >>]
MCWorlds == {{}, {<< 2, 3 >>, << 2, 1 >>}}
MCProbMissLog == -150
MCClampMinLog == -199
MCUpdateRange == << 3, 3 >>
=============================================================================
