-------------------------- MODULE MCAnnouncements --------------------------
(* Instances of Announcements for TLC. *)
EXTENDS Announcements, TLC

CONSTANTS r1, r2, u1, u2

============================================================================
