\* One launch with every command line of up to MaxArgs tokens, and three
\* launches at once, each killed anywhere.
CONSTANTS
  None = None
  Broken = Broken
  Unroutable = Unroutable
  L1 = L1
  L2 = L2
  L3 = L3
  Launch = {L1, L2, L3}
  OtherOptions = {"-q"}
  Tokens = {"--", "--provider", "--provider=zai", "codex", "--base-url", "u1", "--base-url=u2",
            "--model", "--fast", "-h", "-w", "off", "exec", "serve", "login", "x"}
  MaxArgs = 3
  Commands <- MCCommands
  Profiles <- MCProfiles
SPECIFICATION Spec
INVARIANTS
  Routed
  ProfileUsable
  PreferencesKept
CHECK_DEADLOCK FALSE
