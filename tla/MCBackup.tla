------------------------------- MODULE MCBackup -------------------------------
(* Four blocks behind the super block, three of which may start a free       *)
(* extent; two addresses that differ by less than the image is long, so that *)
(* a link that was not moved still points into the image.                    *)
EXTENDS Backup
MCBases == {1, 3}
=============================================================================
