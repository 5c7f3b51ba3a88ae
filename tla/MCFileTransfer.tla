---------------------------- MODULE MCFileTransfer ----------------------------
(***************************************************************************)
(* FileTransfer on small instances: files of two, no and one chunks.  Two  *)
(* are called "a" and the third "a (1)", and there is an "a" already.      *)
(***************************************************************************)
EXTENDS FileTransfer

MCSize == <<2, 0, 1>>
MCName == <<<<0>>, <<0>>, <<0, 1>>>>
MCTaken == {<<0>>}
=============================================================================
