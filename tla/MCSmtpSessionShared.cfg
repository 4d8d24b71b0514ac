SPECIFICATION Spec

CONSTANTS
    Devices = {"printer", "zabbix"}
    Peers <- MCPeers
    PeerOf <- MCPeerOf
    WithLogin = {"printer"}
    Plain = {"printer"}
    Configs <- MCConfigs
    MaxMails = 1
    MaxSaves = 1
    MaxFaults = 1

INVARIANTS
    AnonymousUsesConfigured
