-------------------------- MODULE MCTransferBuild --------------------------
(***************************************************************************)
(* Model-checking instance of TransferBuild: pages of 4 units, descriptors *)
(* of at most 11 (like 2^18 - 1, one less than a multiple of the page),    *)
(* transfers of at most 4 pages.                                           *)
(***************************************************************************)
EXTENDS TransferBuild

MCRequests ==
  [buf : 0 .. 3, count : {0, 1, 3, 4, 5, 8, 9, 14, 16, 17, 18}, pos : {0, 1},
   dir_ok : {TRUE}, streaming : {FALSE}, non_incr : BOOLEAN, align : {1, 2},
   granularity : {1}]
  \union
  [buf : {0, 2}, count : {4, 5, 6, 18}, pos : {0, 1}, dir_ok : BOOLEAN,
   streaming : {TRUE}, non_incr : {FALSE}, align : {2}, granularity : {2}]
=============================================================================
