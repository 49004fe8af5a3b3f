------------------------ MODULE MCSlackConnection ------------------------
EXTENDS SlackConnection

\* One authorization while Slack and its people change twice, or two that overlap and nothing else.
MCBudgets == {[connects |-> 1, changes |-> 2], [connects |-> 2, changes |-> 0]}

===========================================================================
