--------------------------------- MODULE Pci ---------------------------------
(***************************************************************************)
(* The scan of the PCI buses and the table it fills (kernel/pci.c).        *)
(*                                                                         *)
(* Bus, device and function together are one number, the slot, in the      *)
(* order in which the three loops of the scan visit them.  A machine is a  *)
(* function from the slots that answer to [card, multi, io]: what vendor   *)
(* id, device id and class say it is, bit 7 of the header type, and bit 0  *)
(* of the first BAR, set when the card is in the I/O space.                *)
(***************************************************************************)
EXTENDS Integers, Sequences, FiniteSets, SequencesExt

CONSTANTS
    PCI_DEVICES,     \* devices on all buses together (8 * 32)
    PCI_FUNCTIONS,   \* functions of a device (8)
    MAX_PCI_DEVICES  \* entries of the table (64)

ASSUME PciAssumption ==
    PCI_DEVICES \in Nat /\ PCI_FUNCTIONS \in Nat \ {0} /\ MAX_PCI_DEVICES \in Nat

Slots == 0..(PCI_DEVICES * PCI_FUNCTIONS - 1)
Function(slot) == slot % PCI_FUNCTIONS
Device(slot) == slot \div PCI_FUNCTIONS
FirstFunction(slot) == slot - Function(slot)

PciEntry(machine, slot) ==
    [slot |-> slot, card |-> machine[slot].card, io |-> machine[slot].io]

\* Mutant of Skips: an absent function ends the device, not only an absent first one.
Skips_AtAnyGap(machine, slot) ==
    \/ slot \notin DOMAIN machine
    \/ Function(slot) = 0 /\ ~machine[slot].multi

\* After this slot the other functions of its device are not looked at.
Skips(machine, slot) ==
    /\ Function(slot) = 0
    /\ slot \in DOMAIN machine => ~machine[slot].multi

\* What the scan makes of the next slot.  A card that finds the table full ends
\* the scan.
Scanned(r, machine, slot) ==
    IF r.full \/ Device(slot) = r.skip THEN r
    ELSE IF slot \in DOMAIN machine /\ Len(r.table) >= MAX_PCI_DEVICES
    THEN [r EXCEPT !.full = TRUE]
    ELSE [r EXCEPT !.table = IF slot \in DOMAIN machine
                             THEN Append(@, PciEntry(machine, slot)) ELSE @,
                   !.skip = IF Skips(machine, slot) THEN Device(slot) ELSE @]

\* pci_scan_devices: the table after all slots.
pci_scan_devices(machine) ==
    LET after[n \in 0..(PCI_DEVICES * PCI_FUNCTIONS)] ==
            IF n = 0 THEN [table |-> <<>>, skip |-> -1, full |-> FALSE]
            ELSE Scanned(after[n - 1], machine, n - 1)
    IN  after[PCI_DEVICES * PCI_FUNCTIONS].table

\* The first entry of that kind, 0 for none.
pci_find_device(table, card) == SelectInSeq(table, LAMBDA entry : entry.card = card)
pci_find_class(table, cards) == SelectInSeq(table, LAMBDA entry : entry.card \in cards)

\* The functions the PCI rules let software see: a device answers at function 0,
\* and has others only when its first one says so.
VisibleSlots(machine) ==
    {slot \in DOMAIN machine :
        \/ Function(slot) = 0
        \/ FirstFunction(slot) \in DOMAIN machine /\ machine[FirstFunction(slot)].multi}

\* The table lists the functions that can be seen, each once and in slot order;
\* those that are missing come after a full table.
Lists(table, machine) ==
    LET visible == VisibleSlots(machine)
        listed == {table[i].slot : i \in DOMAIN table}
    IN  /\ listed \subseteq visible
        /\ \A i \in DOMAIN table : table[i] = PciEntry(machine, table[i].slot)
        /\ \A i, j \in DOMAIN table : i < j => table[i].slot < table[j].slot
        /\ \A slot \in visible \ listed :
               Len(table) = MAX_PCI_DEVICES /\ \A l \in listed : l < slot
=============================================================================
