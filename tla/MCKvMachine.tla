---------------------------- MODULE MCKvMachine ----------------------------
(* Small instances of KvMachine for TLC.                                   *)
EXTENDS KvMachine

One == {<<1>>}

============================================================================
