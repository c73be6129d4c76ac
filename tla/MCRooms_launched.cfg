SPECIFICATION FairSpec
CONSTANTS
  Profile = Profile
  Contact = Contact
  Owner = Owner
  Sink = Sink
  Worker = Worker
  None = None
  Sender = Owner
  Commands = 1
  Joins = FALSE
  MaxFaults = 0
PROPERTIES
  CommandsAnswered
