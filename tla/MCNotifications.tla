-------------------------- MODULE MCNotifications ---------------------------
(* Instances of Notifications for TLC: users and devices are model values. *)
EXTENDS Notifications, TLC

=============================================================================
