SPECIFICATION Spec

CONSTANTS
  Forks = {a, us}
  a = a
  us = us
  desktop = desktop
  Known = {us}
  Pins = {desktop}
  PageSize = 1
  MaxPages = 3
  MaxChanges = 3
  MaxFaults = 1

INVARIANTS
  TypeOK
PROPERTIES
  ReportsUnread
  UnreadIsReported
  OutdatedIsReported
