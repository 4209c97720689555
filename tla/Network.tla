------------------------------- MODULE Network -------------------------------
(***************************************************************************)
(* The network interfaces of kernel/network.c: how start-up finds a card   *)
(* and gives an interface its driver, interface states, the DHCP client of *)
(* kernel/netstack.c, WiFi scanning and joining.                           *)
(*                                                                         *)
(* Drivers take (data, len) and are called with (interface, data, len).    *)
(* What is sent is the interface structure itself, so that a send succeeds *)
(* exactly when there is an initialized driver, and nobody ever answers it *)
(* usefully: DHCP ends with the fallback configuration.  A frame that the  *)
(* PCnet card has received is copied over the interface table; the model   *)
(* does not follow a session beyond that.                                  *)
(***************************************************************************)
EXTENDS Pci

CONSTANTS
    HeapAtInit,             \* bytes in the free block at the end of the heap
    HEADER, SPLIT_SLACK,    \* as in module Heap
    E1000_RING, PCNET_RING, \* descriptors of a ring (256, 16)
    DESCS_SIZE, E1000_BUFFER, PCNET_BUFFER, VIRTIO_BUFFER,
                            \* bytes (4096, 2048, 1518 rounded to 1520, 4096)
    MAX_WIFI_NETWORKS,      \* slots for networks a scan finds (16)
    BridgedNetworks,        \* [ssid, secured]: what wifi_hardware_init makes up
    ScannedNetworks,        \* and what wifi_process_scan_results makes up
    Machines                \* what is plugged in, as in module Pci

\* Rings have descriptors, a scan never finds a network twice, and a machine is as
\* module Pci describes it.
ASSUME NetworkAssumption ==
    /\ E1000_RING \in Nat /\ PCNET_RING \in Nat /\ MAX_WIFI_NETWORKS \in Nat
    /\ \A i, j \in 1..Len(ScannedNetworks) :
           ScannedNetworks[i].ssid = ScannedNetworks[j].ssid => i = j
    /\ ScannedNetworks \in Seq([ssid : STRING, secured : {0, 1}])
    /\ BridgedNetworks \in Seq([ssid : STRING, secured : {0, 1}])
    /\ \A machine \in Machines : DOMAIN machine \subseteq Slots

VARIABLE net  \* the record built by NoInterfaces and network_init below

Drivers == {"e1000", "pcnet", "virtio", "ax201"}

\* A card is one that a driver is for, or "ethernet" or "wifi": another of its
\* class; "foreign" is a WiFi card of an unknown vendor.
EthernetCards == {"e1000", "pcnet", "virtio", "ethernet"}
WifiCards == {"ax201", "wifi", "foreign"}

Interfaces == {"lo", "eth0", "wlan0"}
NoSSID == ""

NET_STATE_DOWN == "DOWN"
NET_STATE_UP == "UP"
NET_STATE_CONNECTING == "CONNECTING"
NET_STATE_CONNECTED == "CONNECTED"
NET_STATE_ERROR == "ERROR"

DHCP_STATE_IDLE == "IDLE"
DHCP_STATE_DISCOVER == "DISCOVER"
DHCP_STATE_BOUND == "BOUND"

\* An address configuration is none, the loopback's, or the fallback of DHCP.
None == "none"
Loopback == "127.0.0.1/8"
Fallback == "192.168.1.100/24"

Result(s, ret) == [net |-> s, ret |-> ret]

-----------------------------------------------------------------------------
(* Start-up. *)

\* network_create_interface: down, not configured, without a driver.
network_create_interface ==
    [state |-> NET_STATE_DOWN, dhcp_state |-> DHCP_STATE_IDLE, ip |-> None,
     driver |-> None, connected_ssid |-> NoSSID]

UnusedNetwork == [used |-> 0, ssid |-> NoSSID, secured |-> 0]

NoInterfaces(machine) ==
    [machine |-> machine, pci |-> pci_scan_devices(machine), heap |-> HeapAtInit,
     ifaces |-> [i \in Interfaces |->
                   IF i = "lo"
                   THEN [network_create_interface EXCEPT !.ip = Loopback, !.state = NET_STATE_UP]
                   ELSE network_create_interface],
     wifi_networks |-> [i \in 1..MAX_WIFI_NETWORKS |-> UnusedNetwork],
     wifi_network_count |-> 0,
     buffers |-> [d \in Drivers |-> 0], initialized |-> [d \in Drivers |-> 0]]

\* One memory_alloc.  Only the last block of the heap is free during start-up.
Allocate(r, driver, size) ==
    IF r.ret # 0 \/ r.net.heap < size THEN Result(r.net, -1)
    ELSE Result([r.net EXCEPT
                   !.heap = IF @ > size + HEADER + SPLIT_SLACK THEN @ - size - HEADER ELSE 0,
                   !.buffers[driver] = @ + 1], 0)

\* Mutant of AllocateAll: the last buffer is not checked.
AllocateAll_LastUnchecked(s, driver, sizes) ==
    LET after[n \in 0..Len(sizes)] ==
            IF n = 0 THEN Result(s, 0)
            ELSE IF n = Len(sizes) THEN Result(Allocate(after[n - 1], driver, sizes[n]).net,
                                               after[n - 1].ret)
            ELSE Allocate(after[n - 1], driver, sizes[n])
    IN  after[Len(sizes)]

\* One allocation after the other, up to the first that fails.
AllocateAll(s, driver, sizes) ==
    LET after[n \in 0..Len(sizes)] ==
            IF n = 0 THEN Result(s, 0) ELSE Allocate(after[n - 1], driver, sizes[n])
    IN  after[Len(sizes)]

Sizes(count, size) == [i \in 1..count |-> size]

\* What a driver allocates.
Needs(driver) ==
    CASE driver = "e1000" -> LET ring == <<DESCS_SIZE>> \o Sizes(E1000_RING, E1000_BUFFER)
                             IN  ring \o ring
      [] driver = "pcnet" -> Sizes(2 * PCNET_RING, PCNET_BUFFER)
      [] driver = "virtio" -> Sizes(2, VIRTIO_BUFFER)
      [] driver = "ax201" -> <<>>

(* The outcomes of a driver's set-up.  Each first refuses a card whose first   *)
(* BAR is of the other kind; a failure gives back nothing.                     *)
Failed(s) == Result(s, -1)
Initialized(s, driver) == Result([s EXCEPT !.initialized[driver] = 1], 0)

e1000_setup_device(s, entry) ==
    LET r == AllocateAll(s, "e1000", Needs("e1000")) IN
    {IF entry.io THEN Failed(s)
     ELSE IF r.ret # 0 THEN r ELSE Initialized(r.net, "e1000")}

\* Both rings have their buffers before the card is asked to report, and it may
\* not, or at the last poll, which counts as a time-out too.
amd_pcnet_setup_device(s, entry) ==
    LET r == AllocateAll(s, "pcnet", Needs("pcnet")) IN
    IF ~entry.io THEN {Failed(s)}
    ELSE {Failed(r.net)} \cup (IF r.ret = 0 THEN {Initialized(r.net, "pcnet")} ELSE {})

\* The card may have no receive queue, or no transmit queue, which shows when the
\* receive buffer is there already.
virtio_net_setup_device(s, entry) ==
    LET r == AllocateAll(s, "virtio", Needs("virtio"))
        rx == AllocateAll(s, "virtio", Sizes(1, VIRTIO_BUFFER))
    IN  IF ~entry.io THEN {Failed(s)}
        ELSE {Failed(s), Failed(rx.net),
              IF r.ret # 0 THEN r ELSE Initialized(r.net, "virtio")}

\* Firmware and radio never fail.
ax201_setup_device(s, entry) ==
    {IF entry.io THEN Failed(s) ELSE Initialized(s, "ax201")}

\* The entry a driver takes, 0 for none.  The E1000's also tries its luck with
\* other wired cards, the PCnet first.
Detected(table, driver) ==
    LET own == pci_find_device(table, driver)
        pcnet == pci_find_device(table, "pcnet")
    IN  IF driver # "e1000" \/ own # 0 THEN own
        ELSE IF pcnet # 0 THEN pcnet
        ELSE pci_find_class(table, EthernetCards)

\* ax201_init, e1000_init, amd_pcnet_init and virtio_net_init.
DriverInit(s, driver) ==
    LET found == Detected(s.pci, driver)
        entry == s.pci[found]
    IN  CASE found = 0 -> {Failed(s)}
          [] found # 0 /\ driver = "ax201" -> ax201_setup_device(s, entry)
          [] found # 0 /\ driver = "e1000" -> e1000_setup_device(s, entry)
          [] found # 0 /\ driver = "pcnet" -> amd_pcnet_setup_device(s, entry)
          [] found # 0 /\ driver = "virtio" -> virtio_net_setup_device(s, entry)

Configured(s, iface, driver) ==
    [s EXCEPT !.ifaces[iface].driver = driver,
              !.ifaces[iface].state = IF driver = "ax201" THEN NET_STATE_UP ELSE @]

\* What becomes of these outcomes when the next driver is tried: nothing, when
\* an earlier one has initialized.
Tried(outcomes, driver) ==
    UNION {IF r.ret = 0 THEN {r}
           ELSE {IF t.ret = 0
                 THEN Result(Configured(t.net, IF driver = "ax201" THEN "wlan0" ELSE "eth0",
                                        driver), 0)
                 ELSE t : t \in DriverInit(r.net, driver)} : r \in outcomes}

\* network_init: the first driver of the list that initializes.
network_init(machine) ==
    LET start == {Failed(NoInterfaces(machine))} IN
    {r.net : r \in Tried(Tried(Tried(Tried(start, "ax201"), "e1000"), "pcnet"), "virtio")}

Init == \E machine \in Machines : net \in network_init(machine)

-----------------------------------------------------------------------------
(* Operations.  An interface that does not exist changes nothing. *)

\* Mutant of network_interface_down: the lease is kept.
network_interface_down_KeepsLease(s, name) == [s EXCEPT !.ifaces[name].state = NET_STATE_DOWN]

network_interface_up(s, name) == [s EXCEPT !.ifaces[name].state = NET_STATE_UP]

network_interface_down(s, name) ==
    [s EXCEPT !.ifaces[name].state = NET_STATE_DOWN,
              !.ifaces[name].dhcp_state = DHCP_STATE_IDLE]

\* iface->send_packet at the end of udp, ip and ethernet.
Sends(s, name) == s.ifaces[name].driver # None

\* dhcp_client_start: no driver delivers an answer, so it is the fallback.  When
\* nothing can be sent the interface stays "Discovering...".
dhcp_client_start(s, name) ==
    IF Sends(s, name)
    THEN Result([s EXCEPT !.ifaces[name].dhcp_state = DHCP_STATE_BOUND,
                          !.ifaces[name].ip = Fallback], 0)
    ELSE Result([s EXCEPT !.ifaces[name].dhcp_state = DHCP_STATE_DISCOVER], -1)

network_start_dhcp(s, name) ==
    IF s.ifaces[name].state # NET_STATE_UP THEN Result(s, -1) ELSE dhcp_client_start(s, name)

\* The first slots filled with the networks, of as many as fit.  A slot that is
\* not filled stays as it is.
Filled(s, found) ==
    LET n == IF Len(found) < MAX_WIFI_NETWORKS THEN Len(found) ELSE MAX_WIFI_NETWORKS IN
    [s EXCEPT !.wifi_networks = [i \in DOMAIN @ |->
                                   IF i <= n THEN [used |-> 1, ssid |-> found[i].ssid,
                                                   secured |-> found[i].secured]
                                   ELSE @[i]],
              !.wifi_network_count = n]

Cleared(s) ==
    [s EXCEPT !.wifi_networks = [i \in DOMAIN @ |-> [@[i] EXCEPT !.used = 0]],
              !.wifi_network_count = 0]

\* wifi_hardware_init: scans the PCI buses again; the first WiFi card, of which
\* Intel's need a memory BAR, or the E1000 of a VirtualBox with a bridge.
wifi_hardware_init(state) ==
    LET s == [state EXCEPT !.pci = pci_scan_devices(state.machine)]
        wifi == pci_find_class(s.pci, WifiCards)
        ready == \/ s.pci[wifi].card = "ax201" /\ ~s.pci[wifi].io
                 \/ s.pci[wifi].card = "wifi"
    IN  CASE wifi # 0 -> Result(s, IF ready THEN 0 ELSE -1)
          [] wifi = 0 /\ pci_find_device(s.pci, "e1000") # 0 ->
                Result(Filled(Cleared(s), BridgedNetworks), 0)
          [] OTHER -> Failed(s)

\* Mutant of wifi_hardware_scan: the networks of wifi_hardware_init stay.
wifi_hardware_scan_KeepsOld(s) == Filled(s, ScannedNetworks)

wifi_hardware_scan(s) == Filled(Cleared(s), ScannedNetworks)

wifi_scan_networks(s) ==
    LET hardware == wifi_hardware_init(Cleared(s)) IN
    IF hardware.ret # 0 THEN hardware.net ELSE wifi_hardware_scan(hardware.net)

\* wifi_connect.  The interface is CONNECTED until network_interface_up.
wifi_connect(s, ssid, password) ==
    LET found == SelectInSeq(s.wifi_networks, LAMBDA w : w.used = 1 /\ w.ssid = ssid)
        joined == [s EXCEPT !.ifaces["wlan0"].state = NET_STATE_CONNECTED,
                            !.ifaces["wlan0"].connected_ssid = ssid]
    IN  IF found = 0 THEN Result(s, -1)
        ELSE IF s.wifi_networks[found].secured = 1 /\ password = 0
        THEN Result([s EXCEPT !.ifaces["wlan0"].state = NET_STATE_ERROR], -1)
        ELSE Result(network_start_dhcp(network_interface_up(joined, "wlan0"), "wlan0").net, 0)

wifi_disconnect(s) ==
    IF s.ifaces["wlan0"].state # NET_STATE_CONNECTED THEN Result(s, -1)
    ELSE Result([s EXCEPT !.ifaces["wlan0"].state = NET_STATE_DOWN,
                          !.ifaces["wlan0"].connected_ssid = NoSSID,
                          !.ifaces["wlan0"].ip = None], 0)

\* "nettest": scan, bring eth0 up and start its DHCP.  Name lookup and ping,
\* there and as commands, only send.
nettest(s) == dhcp_client_start(network_interface_up(wifi_scan_networks(s), "eth0"), "eth0").net

-----------------------------------------------------------------------------
(* The shell's commands. *)

IfconfigUp == \E name \in Interfaces : net' = network_interface_up(net, name)
IfconfigDown == \E name \in Interfaces : net' = network_interface_down(net, name)
Dhcp == \E name \in Interfaces : net' = network_start_dhcp(net, name).net
WifiScan == net' = wifi_scan_networks(net)
WifiConnect ==
    \E ssid \in {ScannedNetworks[i].ssid : i \in DOMAIN ScannedNetworks}
                \cup {BridgedNetworks[i].ssid : i \in DOMAIN BridgedNetworks},
       password \in {0, 1} :
        net' = wifi_connect(net, ssid, password).net
WifiDisconnect == net' = wifi_disconnect(net).net
NetTest == net' = nettest(net)

Next == IfconfigUp \/ IfconfigDown \/ Dhcp \/ WifiScan \/ WifiConnect
        \/ WifiDisconnect \/ NetTest

Spec == Init /\ [][Next]_net

-----------------------------------------------------------------------------
(* Properties. *)

\* The device table has every function of the machine that can be seen, once and
\* in order, up to its size, also after a later scan; and an interface has only
\* the driver of a card in it.
PciTableComplete ==
    /\ Lists(net.pci, net.machine)
    /\ \A i \in Interfaces : LET d == net.ifaces[i].driver IN
           d # None => Detected(net.pci, d) # 0

\* The DHCP state fits the rest: a lease has an address and was had over a
\* driver, and an interface that is down has neither lease nor search.
DhcpStateFits ==
    \A i \in Interfaces :
        /\ net.ifaces[i].dhcp_state = DHCP_STATE_BOUND =>
              net.ifaces[i].ip = Fallback /\ net.ifaces[i].driver # None
        /\ net.ifaces[i].state = NET_STATE_DOWN => net.ifaces[i].dhcp_state = DHCP_STATE_IDLE

\* wifi_network_count is the number of networks that can be joined, which are
\* distinct: what an earlier scan or the hardware check left is gone.
ScanCountsNetworks ==
    LET used == {i \in DOMAIN net.wifi_networks : net.wifi_networks[i].used = 1} IN
    /\ net.wifi_network_count = Cardinality(used)
    /\ \A i, j \in used : net.wifi_networks[i].ssid = net.wifi_networks[j].ssid => i = j

\* An interface has a driver only when every buffer of that driver could be
\* allocated, also after another card has used up the heap.
DriversOwnBuffers ==
    \A i \in Interfaces : LET d == net.ifaces[i].driver IN
        d # None => net.initialized[d] = 1 /\ net.buffers[d] = Len(Needs(d))
=============================================================================
