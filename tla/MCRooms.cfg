SPECIFICATION FairSpec
CONSTANTS
  Profile = Profile
  Contact = Contact
  Owner = Owner
  Sink = Sink
  Worker = Worker
  None = None
  Sender = Owner
  Commands = 1
  Joins = TRUE
  MaxFaults = 2
INVARIANTS
  OnePortal
  AnswerTrue
  TrackersFollow
PROPERTIES
  MembersSettle
  CommandsAnswered
