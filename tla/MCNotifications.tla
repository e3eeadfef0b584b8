---------------------------- MODULE MCNotifications ----------------------------
(***************************************************************************)
(* Instances of Notifications for TLC.                                     *)
(***************************************************************************)
EXTENDS Notifications

(* A window unused and used up, the next one unused, and the first one
   again without its stamp. *)
SomeReadings == {[stamp |-> 1, level |-> 0], [stamp |-> 1, level |-> 2],
                 [stamp |-> 2, level |-> 0], [stamp |-> 0, level |-> 2]}

(* Two windows and a missing stamp, two boundaries. *)
DeviceReadings == [stamp : 0..2, crossed : 0..2, used : BOOLEAN]

BothRulesOrNone == {{"remaining", "reset"}, {}}
=============================================================================
