SPECIFICATION Spec
CONSTANTS
    HeapAtInit = 400
    HEADER = 12
    SPLIT_SLACK = 16
    E1000_RING = 2
    PCNET_RING = 2
    DESCS_SIZE = 32
    E1000_BUFFER = 80
    PCNET_BUFFER = 28
    VIRTIO_BUFFER = 60
    MAX_WIFI_NETWORKS = 4
    BridgedNetworks <- MCBridged
    ScannedNetworks <- MCScanned
    Machines <- MCMachines
    PCI_DEVICES = 2
    PCI_FUNCTIONS = 3
    MAX_PCI_DEVICES = 4
INVARIANTS
    PciTableComplete
    DhcpStateFits
    ScanCountsNetworks
    DriversOwnBuffers
