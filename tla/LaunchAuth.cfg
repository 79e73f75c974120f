\* Authentication commands, some with the launcher's own options among them.
CONSTANTS
  None = None
  Broken = Broken
  Unroutable = Unroutable
  L1 = L1
  L2 = L2
  L3 = L3
  Launch = {L1, L2, L3}
  OtherOptions = {"-q"}
  Tokens = {"--", "--provider", "--provider=zai", "codex", "--base-url", "u1", "--base-url=u2",
            "--model", "--fast", "-h", "-w", "off", "exec", "serve", "login", "x"}
  MaxArgs = 3
  Commands <- MCAuthCommands
  Profiles <- MCProfiles
SPECIFICATION Spec
INVARIANTS
  AuthStaysHere
CHECK_DEADLOCK FALSE
