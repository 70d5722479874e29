CONSTANTS
  MessageSize = 25
  PackMaxMessages = 9
  Table <- hostapd_cli_commands
  Content <- Messages
  Counters <- CounterValues
  Failures <- FailedSets
  Configs <- Configurations
  Repeats = 2
  Rounds = 1
SPECIFICATION Spec
INVARIANT TypeOK
INVARIANT ReceivedAsGiven
INVARIANT EveryRequestPosts
INVARIANT DispatchedAsNamed
