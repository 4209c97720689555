---------------------------- MODULE MCPersistence ----------------------------
(* The default tree and one more file, which does not fit in the table       *)
(* sector.  Two buffers are left after start-up, so that the heap is full    *)
(* when a load starts the file system anew.  Only FilesComeBack is about     *)
(* texts: the other runs have one kind of chunk, which is in memory at first.*)
EXTENDS Persistence

MCPaths == {<<"a">>}
MCContents == {<<"p">>}
MCCut == [n \in Asked |-> n]
=============================================================================
