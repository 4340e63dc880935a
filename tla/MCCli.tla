------------------------------- MODULE MCCli -------------------------------
(***************************************************************************)
(* A small instance of Cli for TLC.  The words have every shape of option, *)
(* a port on either side of the sign of a short, one beyond it, a number   *)
(* whose base atoi() does not see, and an empty word; longer lines are     *)
(* made of "tx" clauses.                                                   *)
(***************************************************************************)
EXTENDS Cli, SequencesExt

Words == {"rx", "tx", "threads", "checksums", "checkphrase", "prbs", "terminate", "initiate",
          "", "0x9", "9", "40000", "70000"}
ShortLines == BoundedSeq(Words, 5)
TargetLines == BoundedSeq({"tx", "host", "9"}, 9)
AllLines == ShortLines \cup TargetLines

Decimal == "0x9" :> 0 @@ "9" :> 9 @@ "40000" :> 40000 @@ "70000" :> 70000
Prefixed == [Decimal EXCEPT !["0x9"] = 9]
=============================================================================
