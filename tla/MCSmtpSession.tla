---------------------------- MODULE MCSmtpSession ----------------------------
(* Instances of SmtpSession for TLC: an office address two devices share,  *)
(* and a site with one of its own.                                         *)
EXTENDS SmtpSession

MCPeers == {"office", "site"}
MCPeerOf == [d \in Devices |-> IF d = "scanner" THEN "site" ELSE "office"]

Cfg(ews, domain, account, allowed) ==
    [ews |-> ews, domain |-> domain, account |-> account, allowed |-> allowed]

MCConfigs == {
    Cfg(FALSE, "no domain", "no account", {"office"}),
    Cfg(TRUE, "ACME", "relay1", {"office"}),
    Cfg(TRUE, "ACME", "relay2", {}),
    Cfg(TRUE, "NEWCO", "no account", {"office"}) }

=============================================================================
