(* Ports and a webhook in both environments, proxy files of up to three lines. *)
SPECIFICATION StartSpec
CONSTANTS
  Process <- Given
  Dotenv <- Written
  Files <- Lists
  PortOf <- Ports
  HostOf <- Hosts
  EncodingOf <- Encodings
  Webhooks = {"url"}
  DefaultPort = 3000
INVARIANTS
  ProxiesAreTheFile
  ServesAsConfigured
CHECK_DEADLOCK FALSE
