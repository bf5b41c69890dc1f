---------------------------- MODULE MCFileBackup ----------------------------
(* Small instances of FileBackup: units "x" and "c", of which the rolling  *)
(* hash cuts after "c".                                                    *)
EXTENDS FileBackup

MCUnits == {"x", "c"}
MCCutUnits == {"c"}
MCSetup(cdc, encrypted, how, sameSecond) ==
    [cdc |-> cdc, encrypted |-> encrypted, writes |-> how, sameSecond |-> sameSecond]
MCSetups == {MCSetup(TRUE, TRUE, {"overwrite", "append", "truncate"}, FALSE),
             MCSetup(TRUE, TRUE, {"overwrite", "append"}, FALSE),
             MCSetup(TRUE, FALSE, {"overwrite"}, TRUE),
             MCSetup(FALSE, TRUE, {"overwrite", "append"}, FALSE)}
MCTruncated == {MCSetup(FALSE, TRUE, {"truncate"}, FALSE)}
MCInit == {<<"x">>, <<"x", "c", "x">>}
=============================================================================
