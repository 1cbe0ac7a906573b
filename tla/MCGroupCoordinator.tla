------------------------- MODULE MCGroupCoordinator -------------------------
EXTENDS GroupCoordinator

CONSTANTS MaxFailovers, MaxLost, MaxTopicChanges

MCBudget == [failover |-> MaxFailovers, lost |-> MaxLost, topic |-> MaxTopicChanges]

=============================================================================
