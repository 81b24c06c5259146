---------------------------- MODULE MCSlideCarousel ----------------------------
(* Three names, three file versions: more files than the history remembers,  *)
(* and ids that roll over within a few rounds.                               *)
EXTENDS SlideCarousel

MCNames == 1 .. 3
MCTwoNames == 1 .. 2
MCFingerprints == [name : Names, ver : 0 .. MaxWrites]
=============================================================================
