------------------------- MODULE NotificationTypes -------------------------
(* What a poke can be about, and which of two says more: the vocabulary that  *)
(* routing, merging and rendering share (notification-type.enum.ts).          *)
EXTENDS Integers, Sequences

NoTeam == "none"   \* the poke came to its reader by name and not through a team

\* The most specific relationship first.
PRIORITY == <<"review_requested", "pull_request_merged", "auto_merge_enabled",
              "review_submitted", "comment_reply", "pull_request_comment", "issue_comment",
              "pull_request_mention", "issue_mention">>
NotificationType == {PRIORITY[i] : i \in DOMAIN PRIORITY}
comparePriority(a, b) ==
    LET rank(type) == CHOOSE i \in DOMAIN PRIORITY : PRIORITY[i] = type
    IN  rank(a) - rank(b)
============================================================================
