----------------------------- MODULE MCProcess -----------------------------
(* A heap of 208 bytes holds two or three processes, depending on their      *)
(* stacks, so that both allocations of process_create fail in some state.    *)
EXTENDS Process
=============================================================================
