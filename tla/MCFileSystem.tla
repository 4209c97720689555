---------------------------- MODULE MCFileSystem ----------------------------
(* The default tree and room for two more entries.  Four buffers: the        *)
(* default files take three, so the second file created finds the heap full. *)
(* "x" is a name of more than 31 characters, cut to "y".                     *)
EXTENDS FileSystem

MCPaths == {<<"a">>, <<"x">>, <<"", "a">>, <<"a", "">>, <<"bin">>, <<"bin", "a">>,
            <<"..">>, <<".">>}
MCContents == {<<"p">>, <<"q", "p", "p">>}
MCCut == [n \in Asked |-> IF n = <<"x">> THEN <<"y">> ELSE n]
=============================================================================
