\* The control-interface task and the clock task, one proxied call each.
SPECIFICATION Spec
CONSTANTS
  ctrlif = ctrlif
  clock = clock
  Tasks = {ctrlif, clock}
  Issues <- MCIssues
  Priority <- MCPriority
  MaxCalls = 1
INVARIANT ProxyCallOwnResult
