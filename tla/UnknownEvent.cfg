\* A Base Event defines none of the columns that the fields it consumed went to.
SPECIFICATION Spec
CONSTANTS
  Table <- TwoTypes
  Unknown = "user.mysterious.new_thing"
  Optional = {"externalSessionId", "client.ipAddress", "actor.id", "target"}
  None = None
INVARIANT UnknownEventKept
CHECK_DEADLOCK FALSE
