SPECIFICATION Spec
CONSTANT MaxSessions = 3
INVARIANTS StatsNotOlder
PROPERTIES InventoryNotBackwards
CHECK_DEADLOCK FALSE
