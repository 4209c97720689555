------------------------------ MODULE MCNetwork ------------------------------
(* Two devices of three functions, of which any are plugged in, at most one  *)
(* with the other kind of BAR, and a table with room for four.  The E1000    *)
(* takes all of the heap but one PCnet buffer and then fails, as the real    *)
(* one does: 2 * (4096 + 256 * 2048) bytes and headers are more than the     *)
(* heap of 983040.                                                           *)
EXTENDS Network

MCCard == <<"e1000", "pcnet", "virtio", "foreign", "ax201", "ethernet">>
MCInIO == {"pcnet", "virtio", "ethernet"}
MCMachines ==
    UNION {{[slot \in plugged |->
                [card |-> MCCard[slot + 1], multi |-> Device(slot) \in multi,
                 io |-> MCCard[slot + 1] \in MCInIO <=> slot \notin odd]] :
              multi \in SUBSET (0..PCI_DEVICES - 1),
              odd \in {{}} \cup {{slot} : slot \in plugged}} : plugged \in SUBSET Slots}
MCBridged == <<[ssid |-> "home", secured |-> 1], [ssid |-> "both", secured |-> 1],
               [ssid |-> "next", secured |-> 1]>>
MCScanned == <<[ssid |-> "both", secured |-> 1], [ssid |-> "open", secured |-> 0]>>
=============================================================================
