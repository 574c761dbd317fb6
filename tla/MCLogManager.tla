---------------------------- MODULE MCLogManager ----------------------------
(* Two managers, one after the other or at once, with records for two files *)
(* and a pipe with room for one record.                                    *)
EXTENDS LogManager, TLC

CONSTANTS m1, m2, r1, r2, w1, fileA, fileB

MCManager      == {m1, m2}
MCStartable    == {m1}
MCMainRecord   == {r1, r2}
MCWorkerRecord == {w1}
MCQueueOf      == [r \in {w1} |-> m1]
MCKey          == {fileA, fileB}
MCKeyOf        == [r \in {r1, r2, w1} |-> IF r = r1 THEN fileA ELSE fileB]
=============================================================================
