SPECIFICATION Spec
CONSTANTS
  Ranges = {day}
  Default = day
  Scopes = {ip}
  Searches = {}
  Filters = {{}, {ip}}
  Viewers = {v1}
  StaleServe = 0
  MaxCaptured = 0
  MaxFailures = 0
  Miss = Miss
INVARIANT ScopeServed
