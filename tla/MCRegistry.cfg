\* Three tokens: an old one, its replacement and one that is written back.
\* One agent: agents neither change what others see nor wait for each other.
CONSTANTS
  Agents = {a1}
  Tokens = {k1, k2, k3}
  Blank = Blank
  None = None
SPECIFICATION FairSpec
INVARIANTS TypeOK AdmittedTokenWasCurrent RevokedStaysRevoked
PROPERTIES Reconnects StaleAgentsFade
