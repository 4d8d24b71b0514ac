SPECIFICATION Spec

CONSTANTS
    Devices = {"printer", "zabbix", "scanner"}
    Peers <- MCPeers
    PeerOf <- MCPeerOf
    WithLogin = {"printer", "scanner"}
    Plain = {"printer"}
    Configs <- MCConfigs
    MaxMails = 1
    MaxSaves = 2
    MaxFaults = 1

INVARIANTS
    TypeOK
    CredentialsMatch
    SoleDeviceKeepsLogin
    StoredAsTold
