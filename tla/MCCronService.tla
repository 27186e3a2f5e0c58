--------------------------- MODULE MCCronService ----------------------------
(***************************************************************************)
(* Small instances of CronService.                                         *)
(***************************************************************************)
EXTENDS CronService

CONSTANTS at1, every1

OneOfEach == {at1, every1}
OnlyAt == {at1}

=============================================================================
