-------------------------- MODULE MCKnowledgePass --------------------------
(***************************************************************************)
(* A small instance of KnowledgePass: three signals, so that a pass can    *)
(* fail before, between and after its writes, two passes, and scores below *)
(* the borderline (1), on it (2), between the thresholds (3) and above (4).*)
(***************************************************************************)
EXTENDS KnowledgePass

MCScores == 1 .. 4
=============================================================================
