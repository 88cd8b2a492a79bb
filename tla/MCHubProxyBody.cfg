\* The deployment of config/kopilot-hub: two hub replicas; one agent.
CONSTANTS
  Hubs = {h1, h2}
  Sessions = {s1}
  Requests = {r1}
  None = None
  MaxFaults = 0
SPECIFICATION Spec
CHECK_DEADLOCK FALSE
INVARIANTS AnyRequestIsProxied
