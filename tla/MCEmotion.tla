----------------------------- MODULE MCEmotion -----------------------------
(* Instances of EmotionBuffer for TLC.                                     *)
EXTENDS EmotionBuffer

CONSTANTS h1, h2

Two == {h1, h2}
=============================================================================
