------------------------------- MODULE MCShell -------------------------------
(* Start-up takes three file buffers, stack, heap and one program.  One slot *)
(* and two file entries are left, and room for one more buffer or two small  *)
(* blocks: slot, table and heap can each be the first to run out.            *)
EXTENDS Shell

MCDemos == <<[name |-> "test", size |-> 5]>>
MCLines == [word : {"test", "load"}, arg : {""}]
           \cup [word : {"touch", "mkdir", "rm", "rmdir"}, arg : {"b"}]
           \cup [word : {"compile"}, arg : {"a", "c"}]
           \cup [word : {"unload"}, arg : {"a"}]
           \cup [word : {"run", "unload"}, arg : {"test"}]
MCBeginsWith == {<<"rmdir", "rm">>, <<"lspci", "ls">>}
MCProgramOf == [n \in {"a", "c"} |-> n]
=============================================================================
